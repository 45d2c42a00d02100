---------------------------- MODULE CsOpenProofs ----------------------------
(***************************************************************************)
(* That `Database.Open` of the C# library keeps OpenContract, for any set  *)
(* of passwords, saves, files and path conditions, on the argument of      *)
(* RustOpenProofs with the exceptions of .NET in place of the error kinds; *)
(* and, of what stands behind that call, the store it asks, beside the one *)
(* of the Rust crate, and the memory it leaves secrets in.                 *)
(***************************************************************************)
EXTENDS CsOpen, StoreParity, CsSession, OpenCallProofs, SequenceTheorems,
        WellFoundedInduction

\* What the C# store returns for the configured key is what the one file
\* named by the documentation holds, or the documented error about it.
LEMMA FetchReadsStored ==
    ASSUME HostTypeOK
    PROVE  /\ Stored \in Secrets => CsGetMasterPassword(Env, Key) = Stored
           /\ Stored \notin Secrets
                => /\ CsGetMasterPassword(Env, Key) \notin Secrets
                   /\ CsGetMasterPassword(Env, Key) = Contract!SecretError(Stored)
<1>1. PICK n \in Names \ NulNames : Key = <<n>>
  BY CallAssumption
<1>2. Key[1] = n /\ Len(Key) = 1
  BY <1>1
<1>3. CredentialsDir(Env) = "systemd" /\ "systemd" \in Dirs
  BY CsCallAssumption, CallAssumption DEF CredentialsDir, DirOf
<1>4. CsIsSafeCredentialId(Key)
  BY <1>1, <1>2, CsCallAssumption DEF CsIsSafeCredentialId
<1>5. Stored = creds["systemd"][Key[1]]
  BY <1>3 DEF Stored
<1>6. Stored \in CredStates
  BY <1>1, <1>2, <1>3, <1>5 DEF HostTypeOK
<1>7. CsGetMasterPassword(Env, Key) =
        CASE Stored = "missing"     -> "SecretNotFound"
          [] Stored \in Secrets     -> Stored
          [] OTHER                  -> "PermissionDenied"
  BY <1>4, <1>5, CsCallAssumption DEF CsGetMasterPassword, CsReadFromDir
<1>8. QED
  BY <1>6, <1>7, StoreAssumption DEF CredStates, Contract!SecretError

\* Every exception becomes one of the taxonomy.
LEMMA CatchIsTotal == \A e : Catch(e) \in Contract!Outcomes
BY DEF Catch, Contract!Outcomes, Contract!DatabaseErrors

----------------------------------------------------------------------------
\* The answer of the store is held, or it is a documented error.
LEMMA FetchCases ==
    ASSUME HostTypeOK, Fetch
    PROVE  /\ pc = "idle" /\ UNCHANGED hostVars
           /\ \/ Stored \in Secrets /\ Hold(Stored)
              \/ /\ Stored \notin Secrets
                 /\ Refuse(Contract!SecretError(Stored))
                 /\ Contract!SecretError(Stored) \in Contract!Outcomes
<1>1. Contract!SecretError(Stored) \in Contract!Outcomes
  BY DEF Contract!SecretError, Contract!Outcomes, Contract!DatabaseErrors
<1>2. QED
  BY <1>1, FetchReadsStored DEF Fetch

\* A step past the fetch goes on, or returns a documented error or database.
LEMMA StepCases ==
    ASSUME TypeOK, Exists \/ OpenStream \/ ReadHeader \/ ReadBlocks
    PROVE  /\ pc # "idle" /\ UNCHANGED hostVars
           /\ \/ pc = "check" /\ FileExists[cond] /\ Checked
              \/ pc = "open" /\ FileStream[cond] = "file" /\ Opened(inode)
              \/ pc = "head" /\ ~ReadFails /\ HeadRead
              \/ \E r \in Contract!Outcomes : Finish(r)
<1>1. CASE Exists
  BY <1>1 DEF Exists, Contract!Outcomes, Contract!DatabaseErrors
<1>2. CASE OpenStream
  BY <1>2, CatchIsTotal DEF OpenStream
<1>3. CASE ReadHeader
  BY <1>3, CatchIsTotal DEF ReadHeader
<1>4. CASE ReadBlocks
  <2>1. \A got : (IF got \in Versions THEN got
                     ELSE Catch(KeePassException(got))) \in Contract!Outcomes
    BY CatchIsTotal DEF Contract!Outcomes
  <2>2. QED
    BY <1>4, <2>1, CatchIsTotal DEF ReadBlocks
<1>5. QED
  BY <1>1, <1>2, <1>3, <1>4

LEMMA CallTypes ==
    ASSUME TypeOK, Call
    PROVE  TypeOK'
<1>1. CASE Fetch
  BY <1>1, FetchCases, HoldTypes, RefuseTypes DEF TypeOK
<1>2. CASE Exists \/ OpenStream \/ ReadHeader \/ ReadBlocks
  <2>1. ASSUME pc = "head", ~ReadFails
        PROVE  fd \in Inodes
    BY <2>1 DEF TypeOK, ReadFails
  <2>2. inode \in Inodes
    BY DEF TypeOK, HostTypeOK
  <2>3. QED
    BY <1>2, <2>1, <2>2, StepCases, CheckedTypes, OpenedTypes, HeadReadTypes,
       FinishTypes
<1>3. QED
  BY <1>1, <1>2 DEF Call

\* Open holds its char[] exactly while it runs and a stream exactly while it
\* reads, and throws nothing but the documented exceptions.
THEOREM TypeCorrect == Spec => []TypeOK
<1>1. Init => TypeOK
  BY InitTypes
<1>2. TypeOK /\ [Next]_vars => TypeOK'
  BY CallTypes, HostChangesTypes, StutterTypes DEF Next
<1>3. QED
  BY <1>1, <1>2, PTL DEF Spec

----------------------------------------------------------------------------
(* What holds in every condition of the path.                               *)

\* A step of the call keeps CallInv, and a stream is always one of a file.
LEMMA CallKeepsCallInv ==
    ASSUME CallInv, AFileIsOpen, Call
    PROVE  CallInv' /\ AFileIsOpen'
<1>1. TypeOK /\ HostTypeOK
  BY DEF CallInv, TypeOK
<1>2. CASE Fetch
  <2>1. AFileIsOpen'
    BY <1>1, <1>2, FetchCases DEF AFileIsOpen, Hold, Refuse
  <2>2. QED
    BY <1>1, <1>2, <2>1, FetchCases, HoldCallInv, RefuseCallInv
<1>3. CASE Exists \/ OpenStream \/ ReadHeader \/ ReadBlocks
  <2>1. FileStream[cond] = "file" => cond = "ok"
    BY <1>1, HostAssumption DEF HostTypeOK, FileStream, AllConds
  <2>2. pc = "head" => fd \in Inodes
    BY DEF AFileIsOpen
  <2>3. CallInv'
    BY <1>1, <1>3, <2>1, <2>2, StepCases, CheckedCallInv, OpenedCallInv,
       HeadReadCallInv, FinishCallInv
  <2>4. AFileIsOpen'
    BY <1>1, <1>3, StepCases
    DEF AFileIsOpen, TypeOK, HostTypeOK, Checked, Opened, HeadRead, Finish
  <2>5. QED
    BY <2>3, <2>4
<1>4. QED
  BY <1>2, <1>3 DEF Call

LEMMA HostKeepsOpenFile ==
    ASSUME CallInv, AFileIsOpen, HostChanges \/ UNCHANGED vars
    PROVE  CallInv' /\ AFileIsOpen'
<1>1. AFileIsOpen'
  BY DEF AFileIsOpen, HostChanges, vars, callVars
<1>2. QED
  BY <1>1, HostChangesCallInv, StutterCallInv

LEMMA CallInvAlways == Spec => [](CallInv /\ AFileIsOpen)
<1>1. Init => CallInv /\ AFileIsOpen
  BY InitCallInv DEF Init, AFileIsOpen
<1>2. CallInv /\ AFileIsOpen /\ [Next]_vars => (CallInv /\ AFileIsOpen)'
  BY CallKeepsCallInv, HostKeepsOpenFile DEF Next
<1>3. QED
  BY <1>1, <1>2, PTL DEF Spec

\* A call to the system that fails is mapped to an error of the path, and in
\* the condition it fails in an error of the path is promised.
LEMMA PathErrorIsClose ==
    ASSUME CallInv, pc # "idle"
    PROVE  /\ ~FileExists[cond] => PromisedOrPathError("DatabaseNotFound")
           /\ FileStream[cond] # "file"
                => PromisedOrPathError(Catch(FileStream[cond]))
           /\ cond = "io_error" => PromisedOrPathError("DatabaseCorrupt")
<1>1. Contract!Promise(secret, Disk) \subseteq possible
  BY DEF CallInv, ThisInstantCounts
<1>2. cond \in AllConds
  BY HostAssumption DEF CallInv, TypeOK, HostTypeOK
<1>3. Disk.cond = cond
  BY DEF Disk
<1>4. CASE cond = "ok"
  BY <1>2, <1>4 DEF FileExists, StatAnswer, FileStream
<1>5. CASE cond # "ok"
  <2>1. possible \cap Contract!DatabaseErrors # {}
    BY <1>1, <1>3, <1>5 DEF Contract!Promise, Contract!DatabaseErrors
  <2>2. Catch(FileStream[cond]) \in Contract!DatabaseErrors
    BY <1>2, <1>5 DEF FileStream, Catch, Contract!DatabaseErrors, AllConds
  <2>3. QED
    BY <2>1, <2>2 DEF PromisedOrPathError, Contract!DatabaseErrors
<1>6. QED
  BY <1>4, <1>5

\* A read fails only with the device.
LEMMA FailedReadIsClose ==
    ASSUME CallInv, AFileIsOpen, pc \in {"head", "body"}, ReadFails
    PROVE  PromisedOrPathError(Catch("IOException"))
<1>1. cond = "io_error"
  BY CallAssumption DEF AFileIsOpen, ReadFails
<1>2. QED
  BY <1>1, PathErrorIsClose DEF Catch

\* A step that ends the call gives what is promised, or an error of the path
\* for another one.
LEMMA ReturnIsClose ==
    ASSUME CallInv, AFileIsOpen, [Next]_vars, pc # "idle", pc' = "idle"
    PROVE  PromisedOrPathError(outcome')
<1>1. CASE Exists
  BY <1>1, PathErrorIsClose DEF Exists, Checked, Finish
<1>2. CASE OpenStream
  BY <1>2, PathErrorIsClose DEF OpenStream, Opened, Finish
<1>3. CASE ReadHeader
  BY <1>3, FailedReadIsClose DEF ReadHeader, HeadRead, Finish
<1>4. CASE ReadBlocks
  <2>1. CASE ReadFails
    BY <1>4, <2>1, FailedReadIsClose DEF ReadBlocks, Finish
  <2>2. CASE ~ReadFails
    <3>1. PICK got : /\ got = Decrypt(secret, head, file[fd].body)
                     /\ outcome' = IF got \in Versions THEN got
                                   ELSE Catch(KeePassException(got))
      BY <1>4, <2>2 DEF ReadBlocks, Finish
    <3>2. pc = "body" /\ fd \in Inodes
      BY <1>4 DEF ReadBlocks, AFileIsOpen
    <3>3. outcome' \in possible
      BY <3>1, <3>2, DecryptedIsPromised DEF Catch, KeePassException
    <3>4. QED
      BY <3>3 DEF PromisedOrPathError
  <2>3. QED
    BY <2>1, <2>2
<1>5. CASE Fetch \/ HostChanges \/ UNCHANGED vars
  BY <1>5 DEF Fetch, HostChanges, vars, callVars
<1>6. QED
  BY <1>1, <1>2, <1>3, <1>4, <1>5 DEF Next, Call

\* Whatever File.Exists and the stream see at the path, and in every condition
\* of it, Database.Open ends as promised, or with an error of the path where
\* another error of the path is promised.
THEOREM WorstIsAnotherError == Spec => AtWorstAnotherError
<1>1. CallInv /\ AFileIsOpen /\ [Next]_vars
        => [pc # "idle" /\ pc' = "idle" => PromisedOrPathError(outcome')]_vars
  BY ReturnIsClose
<1>2. QED
  BY <1>1, CallInvAlways, PTL DEF Spec, AtWorstAnotherError

----------------------------------------------------------------------------
(* The inductive invariant.  Directories on the way that cannot be          *)
(* searched, and a path that stops being one of a file in a directory       *)
(* under a running call, are what the code does not answer as documented. *)

Documented ==
    /\ "no_search" \notin Conds
    /\ Volatile \cap {"directory", "no_parent", "not_a_dir"} = {}

LEMMA InitInv == Init => Inv
BY InitCallInv DEF Inv, AFileIsOpen, ErrorIsMapped, Init

LEMMA CallKeepsInv ==
    ASSUME Documented, Inv, Call
    PROVE  Inv'
<1>1. CallInv /\ TypeOK /\ HostTypeOK
  BY DEF Inv, CallInv, TypeOK
<1>2. CASE Fetch
  <2>1. CallInv' /\ AFileIsOpen'
    BY <1>2, CallKeepsCallInv DEF Inv, Call
  <2>2. ErrorIsMapped'
    BY <1>1, <1>2, FetchCases DEF ErrorIsMapped, Hold, Refuse
  <2>3. QED
    BY <2>1, <2>2 DEF Inv
<1>3. CASE Exists \/ OpenStream \/ ReadHeader \/ ReadBlocks
  <2>1. CallInv' /\ AFileIsOpen'
    BY <1>3, CallKeepsCallInv DEF Inv, Call
  <2>2. FileExists[cond] => cond \notin {"directory", "no_parent", "not_a_dir"}
    BY <1>1, HostAssumption DEF HostTypeOK, FileExists, StatAnswer
  <2>3. ErrorIsMapped'
    BY <1>1, <1>3, <2>2, StepCases
    DEF ErrorIsMapped, Checked, Opened, HeadRead, Finish, hostVars
  <2>4. QED
    BY <2>1, <2>3 DEF Inv
<1>4. QED
  BY <1>2, <1>3 DEF Call

LEMMA HostKeepsInv ==
    ASSUME Documented, Inv, HostChanges
    PROVE  Inv'
<1>1. CallInv' /\ AFileIsOpen'
  BY HostKeepsOpenFile DEF Inv
<1>2. ASSUME pc # "idle", cond \notin {"directory", "no_parent", "not_a_dir"}
      PROVE  cond' \notin {"directory", "no_parent", "not_a_dir"}
  BY <1>2 DEF HostChanges, HostStep, Documented, Provision, ChangeCond,
              Replace, Truncate, WriteHead, WriteBody
<1>3. ErrorIsMapped'
  BY <1>2 DEF Inv, ErrorIsMapped, HostChanges, callVars
<1>4. QED
  BY <1>1, <1>3 DEF Inv

LEMMA StutterInv ==
    ASSUME Inv, UNCHANGED vars
    PROVE  Inv'
<1>1. CallInv' /\ AFileIsOpen'
  BY HostKeepsOpenFile DEF Inv
<1>2. QED
  BY <1>1 DEF Inv, ErrorIsMapped, vars, hostVars, callVars

\* At every step of Open, what it will return is among what an open that
\* took no time could have returned.
THEOREM Invariant == Documented => (Spec => []Inv)
<1> SUFFICES ASSUME Documented PROVE Spec => []Inv
  OBVIOUS
<1>1. Init => Inv
  BY InitInv
<1>2. Inv /\ [Next]_vars => Inv'
  BY CallKeepsInv, HostKeepsInv, StutterInv DEF Next
<1>3. QED
  BY <1>1, <1>2, PTL DEF Spec

----------------------------------------------------------------------------
(* The step simulation.                                                     *)

\* What a failing call to the system becomes is promised for the condition
\* the path is in at that instant.
LEMMA PathErrorIsPromised ==
    ASSUME Documented, Inv, pc # "idle"
    PROVE  /\ ~FileExists[cond] => "DatabaseNotFound" \in possible
           /\ pc = "open" /\ FileStream[cond] # "file"
                => Catch(FileStream[cond]) \in possible
           /\ cond = "io_error" => "DatabaseCorrupt" \in possible
<1>1. Contract!Promise(secret, Disk) \subseteq possible
  BY DEF Inv, CallInv, ThisInstantCounts
<1>2. cond \in AllConds \ {"no_search"}
  BY HostAssumption DEF Inv, CallInv, TypeOK, HostTypeOK, Documented
<1>3. Disk.cond = cond
  BY DEF Disk
<1>4. pc = "open" => cond \notin {"directory", "no_parent", "not_a_dir"}
  BY DEF Inv, ErrorIsMapped
<1> USE DEF FileExists, StatAnswer, FileStream, Catch
<1>5. CASE cond = "ok"
  BY <1>2, <1>5
<1>6. CASE cond \in {"no_file", "no_parent", "not_a_dir", "directory"}
  BY <1>1, <1>2, <1>3, <1>4, <1>6 DEF Contract!Promise
<1>7. CASE cond = "no_read"
  BY <1>1, <1>2, <1>3, <1>7 DEF Contract!Promise
<1>8. CASE cond = "io_error"
  BY <1>1, <1>2, <1>3, <1>8 DEF Contract!Promise, Contract!DatabaseErrors
<1>9. QED
  BY <1>2, <1>5, <1>6, <1>7, <1>8 DEF AllConds

\* A stream is never one of a directory, so a read fails only with the device.
LEMMA FailedReadIsPromised ==
    ASSUME Documented, Inv, pc \in {"head", "body"}, ReadFails
    PROVE  Catch("IOException") \in possible
<1>1. cond = "io_error"
  BY CallAssumption DEF Inv, AFileIsOpen, ReadFails
<1>2. QED
  BY <1>1, PathErrorIsPromised DEF Catch

LEMMA StepSimulates ==
    ASSUME Documented, Inv, [Next]_vars
    PROVE  [Contract!Next]_Contract!vars
<1> USE DEF Contract!Next
<1>1. CallInv /\ HostTypeOK
  BY DEF Inv, CallInv, TypeOK
<1>2. CASE Fetch
  BY <1>1, <1>2, FetchCases, HoldSimulates, RefuseSimulates
<1>3. CASE Exists
  <2>1. CASE FileExists[cond]
    BY <1>3, <2>1, InnerStepSimulates DEF Exists, Checked
  <2>2. CASE ~FileExists[cond]
    BY <1>3, <2>2, PathErrorIsPromised, FinishSimulates DEF Exists
  <2>3. QED
    BY <2>1, <2>2
<1>4. CASE OpenStream
  <2>1. CASE FileStream[cond] = "file"
    BY <1>4, <2>1, InnerStepSimulates DEF OpenStream, Opened
  <2>2. CASE FileStream[cond] # "file"
    BY <1>4, <2>2, PathErrorIsPromised, FinishSimulates DEF OpenStream
  <2>3. QED
    BY <2>1, <2>2
<1>5. CASE ReadHeader
  <2>1. CASE ReadFails
    BY <1>5, <2>1, FailedReadIsPromised, FinishSimulates DEF ReadHeader
  <2>2. CASE ~ReadFails
    BY <1>5, <2>2, InnerStepSimulates DEF ReadHeader, HeadRead
  <2>3. QED
    BY <2>1, <2>2
<1>6. CASE ReadBlocks
  <2>1. CASE ReadFails
    BY <1>6, <2>1, FailedReadIsPromised, FinishSimulates DEF ReadBlocks
  <2>2. CASE ~ReadFails
    <3>1. PICK got : /\ got = Decrypt(secret, head, file[fd].body)
                        /\ Finish(IF got \in Versions THEN got
                                  ELSE Catch(KeePassException(got)))
      BY <1>6, <2>2 DEF ReadBlocks
    <3>2. (IF got \in Versions THEN got
           ELSE Catch(KeePassException(got))) \in possible
      BY <1>1, <1>6, <3>1, DecryptedIsPromised
      DEF Inv, AFileIsOpen, ReadBlocks, Catch, KeePassException
    <3>3. QED
      BY <1>6, <3>1, <3>2, FinishSimulates DEF ReadBlocks
  <2>3. QED
    BY <2>1, <2>2
<1>7. CASE HostChanges
  BY <1>7, HostChangesSimulates
<1>8. CASE UNCHANGED vars
  BY <1>8, StutterSimulates
<1>9. QED
  BY <1>2, <1>3, <1>4, <1>5, <1>6, <1>7, <1>8 DEF Next, Call

\* Where the undocumented conditions do not arise, every Database.Open
\* returns what an instantaneous open would have returned at some instant of
\* the call, whatever other programs do.
THEOREM OpenKeepsContract == Documented => (Spec => KeepsContract)
<1> SUFFICES ASSUME Documented PROVE Spec => KeepsContract
  OBVIOUS
<1>1. Init => Contract!Init
  BY InitSimulates
<1>2. Inv /\ [Next]_vars => [Contract!Next]_Contract!vars
  BY StepSimulates
<1>3. Spec => []Inv
  BY Invariant
<1>4. QED
  BY <1>1, <1>2, <1>3, PTL DEF Spec, KeepsContract, Contract!Spec

----------------------------------------------------------------------------
(***************************************************************************)
(* The store that Database.Open asks, beside the one of the Rust crate.    *)
(***************************************************************************)

\* A set of numbers has a least one.
LEMMA LeastNumber ==
    ASSUME NEW S, S \subseteq Nat, S # {}
    PROVE  \E m \in S : \A n \in S : m <= n
<1> DEFINE R == OpToRel(<, Nat)
<1>1. IsWellFoundedOn(R, Nat)
  BY NatLessThanWellFounded
<1>2. \A m, n \in Nat : n < m => <<n, m>> \in R
  BY DEF OpToRel
<1> HIDE DEF R
<1>3. PICK m \in S : \A n \in S : ~(<<n, m>> \in R)
  BY <1>1, WFMin
<1>4. \A n \in S : ~(n < m)
  BY <1>2, <1>3
<1>5. QED
  BY <1>3, <1>4

\* The pieces of a key are told apart; the text of the first is nothing.
LEMMA PiecesDiffer ==
    /\ EmptyPiece \notin Names
    /\ "." \notin Names /\ ".." \notin Names
    /\ EmptyPiece # "." /\ EmptyPiece # ".." /\ "." # ".."
<1>1. EmptyPiece # "." /\ EmptyPiece # ".." /\ "." # ".."
  BY ZenonT(20) DEF EmptyPiece
<1>2. QED
  BY <1>1, StoreAssumption

\* A key that the Rust store accepts is a name, with nothing behind it but
\* pieces that lead nowhere.
LEMMA AcceptedByRust ==
    ASSUME NEW k \in Seq(KeyPieces),
           IsSafeCredentialId(k)
    PROVE  /\ Len(k) > 0 /\ k[1] \in Names \ NulNames
           /\ ~HasRoot(k)
           /\ \A i \in 2..Len(k) : k[i] \in {EmptyPiece, "."}
<1>1. PICK i \in 1..Len(k) : /\ Components(k) = {i}
                             /\ k[i] \in Names \ NulNames
  BY DEF IsSafeCredentialId
<1>2. Len(k) \in Nat /\ 1 \in 1..Len(k)
  BY <1>1
<1>3. i = 1
  <2> SUFFICES ASSUME i # 1 PROVE FALSE
    OBVIOUS
  <2>1. 1 \notin Components(k)
    BY <1>1
  <2>2. k[1] \in {EmptyPiece, "."} /\ k[1] # "." /\ ~HasRoot(k)
    BY <1>2, <2>1 DEF Components
  <2>3. Len(k) > 1
    BY <1>1, <1>2
  <2>4. QED
    BY <2>2, <2>3 DEF HasRoot
<1>4. ~HasRoot(k)
  BY <1>1, <1>3, PiecesDiffer DEF HasRoot
<1>5. ASSUME NEW j \in 2..Len(k) PROVE k[j] \in {EmptyPiece, "."}
  <2>1. j \in 1..Len(k) /\ j \notin Components(k)
    BY <1>1, <1>3
  <2>2. QED
    BY <2>1 DEF Components
<1>6. QED
  BY <1>1, <1>2, <1>3, <1>4, <1>5

\* One that the C# store accepts is a name alone.
LEMMA AcceptedByCs ==
    ASSUME NEW k, CsIsSafeCredentialId(k)
    PROVE  Len(k) = 1 /\ k[1] \in Names \ NulNames
BY DEF CsIsSafeCredentialId

\* The walk of such a key enters the directory with the first piece and
\* stays where it is with every other one.
LEMMA WalkOfAName ==
    ASSUME NEW k \in Seq(KeyPieces),
           Len(k) > 0, k[1] \in Names,
           \A i \in 2..Len(k) : k[i] \in {EmptyPiece, "."}
    PROVE  \A i \in 0..Len(k) : Depth(k)[i] = IF i = 0 THEN 0 ELSE 1
<1> DEFINE step(i) == CASE k[i] = ".."    -> -1
                        [] k[i] \in Names -> 1
                        [] OTHER          -> 0
           Walk(f) == f = [i \in 0..Len(k) |->
                            IF i = 0 THEN 0 ELSE f[i - 1] + step(i)]
           g == [i \in 0..Len(k) |-> IF i = 0 THEN 0 ELSE 1]
           d == Depth(k)
<1>1. Len(k) \in Nat
  OBVIOUS
<1>2. step(1) = 1
  BY PiecesDiffer
<1>3. ASSUME NEW i \in 2..Len(k) PROVE step(i) = 0
  <2>1. k[i] \in {EmptyPiece, "."}
    BY <1>3
  <2>2. k[i] # ".." /\ k[i] \notin Names
    BY <2>1, PiecesDiffer
  <2>3. QED
    BY <2>2
<1>4. d = CHOOSE f : Walk(f)
  BY DEF Depth
<1> HIDE DEF d, step
<1>5. Walk(g)
  <2>1. \A i \in 0..Len(k) :
            g[i] = IF i = 0 THEN 0 ELSE g[i - 1] + step(i)
    <3> SUFFICES ASSUME NEW i \in 0..Len(k)
                 PROVE  g[i] = IF i = 0 THEN 0 ELSE g[i - 1] + step(i)
      OBVIOUS
    <3>1. CASE i = 0
      BY <1>1, <3>1
    <3>2. CASE i = 1
      BY <1>1, <1>2, <3>2
    <3>3. CASE i > 1
      <4>1. i \in 2..Len(k) /\ i - 1 \in 1..Len(k)
        BY <1>1, <3>3
      <4>2. step(i) = 0 /\ g[i - 1] = 1 /\ g[i] = 1
        BY <1>1, <1>3, <4>1
      <4>3. QED
        BY <3>3, <4>2
    <3>4. QED
      BY <1>1, <3>1, <3>2, <3>3
  <2>2. QED
    BY <2>1
<1>6. Walk(d)
  BY <1>4, <1>5
<1>7. \A i \in 0..Len(k) : d[i] = IF i = 0 THEN 0 ELSE d[i - 1] + step(i)
  BY <1>6
<1> DEFINE wrong == {i \in 0..Len(k) : d[i] # g[i]}
<1>8. wrong = {}
  <2> SUFFICES ASSUME wrong # {} PROVE FALSE
    OBVIOUS
  <2>1. wrong \subseteq Nat
    BY <1>1
  <2>2. PICK m \in wrong : \A n \in wrong : m <= n
    BY <2>1, LeastNumber
  <2>3. m \in 0..Len(k) /\ d[m] # g[m]
    BY <2>2
  <2>4. m # 0
    BY <1>7, <2>3
  <2>5. m - 1 \in 0..Len(k) /\ m - 1 \notin wrong
    BY <1>1, <2>2, <2>3, <2>4
  <2>6. d[m - 1] = g[m - 1]
    BY <2>5
  <2>7. d[m] = g[m - 1] + step(m)
    BY <1>7, <2>3, <2>4, <2>6
  <2>8. g[m] = g[m - 1] + step(m)
    BY <1>1, <1>2, <1>3, <2>3, <2>4
  <2>9. QED
    BY <2>3, <2>7, <2>8
<1>9. QED
  BY <1>8 DEF d

\* What is kept: the answers are those of the stores, and nothing of the
\* environment changes between the question and the answers.
ParityInv ==
    /\ ParityTypeOK
    /\ \A d \in Dirs, n \in Names :
            creds[d][n] \in {"missing", "unreadable", SecretIn[d]}
    /\ \/ rust = NoAnswer /\ cs = NoAnswer
       \/ /\ rust = GetMasterPassword(env, key)
          /\ cs = CsGetMasterPassword(env, key)

\* Either store answers with a secret or with one of its two errors.
LEMMA AnswerTypes ==
    ASSUME NEW e, NEW k
    PROVE  /\ GetMasterPassword(e, k)
                \in Secrets \cup {"SecretNotFound", "PermissionDenied"}
           /\ CsGetMasterPassword(e, k)
                \in Secrets \cup {"SecretNotFound", "PermissionDenied"}
BY DEF GetMasterPassword, ReadFromDir,
       CsGetMasterPassword, CsReadFromDir

\* Before the question nothing is answered, and every directory has its
\* own secret or none.
LEMMA InitParity == TwoStores /\ ParityInit => ParityInv
<1> SUFFICES ASSUME TwoStores, ParityInit PROVE ParityInv
  OBVIOUS
<1>1. PICK state \in [Dirs -> {"missing", "unreadable", "secret"}] :
            creds = [d \in Dirs |-> [n \in Names |->
                        IF state[d] = "secret" THEN SecretIn[d] ELSE state[d]]]
  BY DEF ParityInit
<1>2. \A d \in Dirs : SecretIn[d] \in Secrets
  BY DEF TwoStores
<1>3. creds \in [Dirs -> [Names -> CredStates]]
  BY <1>1, <1>2 DEF CredStates
<1>4. \A d \in Dirs, n \in Names :
            creds[d][n] \in {"missing", "unreadable", SecretIn[d]}
  BY <1>1
<1>5. file \in [Inodes -> Contents]
  BY DEF ParityInit, Saved, Contents, Parts
<1>6. ParityTypeOK
  BY <1>3, <1>5 DEF ParityInit, ParityTypeOK, HostTypeOK,
     TwoStores, Contents, Contents, Parts, Parts,
     CredStates, CredStates
<1>7. QED
  BY <1>4, <1>6 DEF ParityInv, ParityInit

\* The question is answered once, and nothing else changes.
LEMMA ParityStep == ParityInv /\ [ParityNext]_parityVars => ParityInv'
<1> SUFFICES ASSUME ParityInv, [ParityNext]_parityVars PROVE ParityInv'
  OBVIOUS
<1>1. UNCHANGED <<cond, inode, file, creds, env, key>>
  BY DEF ParityNext, Ask, parityVars, hostVars
<1>2. /\ GetMasterPassword(env, key)' = GetMasterPassword(env, key)
      /\ CsGetMasterPassword(env, key)' = CsGetMasterPassword(env, key)
  BY <1>1 DEF GetMasterPassword, ReadFromDir,
     ReadToString, CsGetMasterPassword, CsReadFromDir
<1>3. \/ rust' = rust /\ cs' = cs
      \/ /\ rust' = GetMasterPassword(env, key)
         /\ cs' = CsGetMasterPassword(env, key)
  BY DEF ParityNext, Ask, parityVars
<1>4. {rust, cs}' \subseteq
            Secrets \cup {"SecretNotFound", "PermissionDenied", NoAnswer}
  BY <1>3, AnswerTypes DEF ParityInv, ParityTypeOK
<1>5. ParityTypeOK'
  BY <1>1, <1>4 DEF ParityInv, ParityTypeOK, HostTypeOK
<1>6. QED
  BY <1>1, <1>2, <1>3, <1>5 DEF ParityInv

\* The invariant holds throughout.
LEMMA ParityInvariant == TwoStores => (ParitySpec => []ParityInv)
BY InitParity, ParityStep, PTL DEF ParitySpec

\* The stores answer with a secret or with one of their two errors.
THEOREM ParityTypes == TwoStores => (ParitySpec => []ParityTypeOK)
<1>1. ParityInv => ParityTypeOK
  BY DEF ParityInv
<1>2. QED
  BY <1>1, ParityInvariant, PTL

\* The walk of a key that either library accepts enters the directory once
\* and ends in it, however long the key is.
THEOREM KeysStayInside == TwoStores => (ParitySpec => []StaysInside)
<1> SUFFICES ASSUME TwoStores PROVE ParitySpec => []StaysInside
  OBVIOUS
<1>1. ASSUME ParityInv PROVE StaysInside
  <2> SUFFICES ASSUME IsSafeCredentialId(key)
                        \/ CsIsSafeCredentialId(key)
               PROVE  /\ ~HasRoot(key)
                      /\ \A i \in 0..Len(key) : Depth(key)[i] \in {0, 1}
                      /\ Depth(key)[Len(key)] = 1
    BY DEF StaysInside
  <2>1. key \in Seq(KeyPieces)
    BY <1>1 DEF ParityInv, ParityTypeOK, TwoStores
  <2>2. Len(key) \in Nat
    BY <2>1
  <2>3. /\ Len(key) > 0 /\ key[1] \in Names
        /\ ~HasRoot(key)
        /\ \A i \in 2..Len(key) : key[i] \in {EmptyPiece, "."}
    <3>1. CASE IsSafeCredentialId(key)
      BY <2>1, <3>1, AcceptedByRust
    <3>2. CASE CsIsSafeCredentialId(key)
      <4>1. Len(key) = 1 /\ key[1] \in Names
        BY <3>2, AcceptedByCs
      <4>2. 2..Len(key) = {} /\ ~HasRoot(key)
        BY <4>1 DEF HasRoot
      <4>3. QED
        BY <4>1, <4>2
    <3>3. QED
      BY <3>1, <3>2
  <2>4. \A i \in 0..Len(key) :
            Depth(key)[i] = IF i = 0 THEN 0 ELSE 1
    BY <2>1, <2>3, WalkOfAName
  <2>5. QED
    BY <2>2, <2>3, <2>4
<1>2. QED
  BY <1>1, ParityInvariant, PTL

\* Under systemd the Rust store reads one file of one directory.
LEMMA RustUnderSystemd ==
    ASSUME NEW e, e.cd # "unset", NEW k, GetMasterPassword(e, k) \in Secrets
    PROVE  /\ IsSafeCredentialId(k)
           /\ GetMasterPassword(e, k) = creds[DirOf(e.cd, "systemd")][k[1]]
<1>1. CredentialsDir(e) = DirOf(e.cd, "systemd")
  BY DEF CredentialsDir
<1>2. GetMasterPassword(e, k) = ReadFromDir(DirOf(e.cd, "systemd"), k)
  BY <1>1 DEF GetMasterPassword
<1>3. QED
  BY <1>2, StoreAssumption DEF ReadFromDir, ReadToString

\* Neither library answers with a secret of a directory other than the one
\* that $CREDENTIALS_DIRECTORY names, if it is set at all.
THEOREM NoOtherDirectoryAsked ==
    TwoStores => (ParitySpec => []NoOtherDirectory)
<1> SUFFICES ASSUME TwoStores PROVE ParitySpec => []NoOtherDirectory
  OBVIOUS
<1>1. ASSUME ParityInv PROVE NoOtherDirectory
  <2>1. {"systemd", DirOf(env.cd, "systemd")} \subseteq Dirs
        /\ NoAnswer \notin Secrets /\ key \in Seq(KeyPieces)
    BY <1>1 DEF TwoStores, ParityInv, ParityTypeOK, DirOf
  <2>2. \A d \in {"systemd", DirOf(env.cd, "systemd")} : \A n \in Names :
            creds[d][n] \in Secrets => creds[d][n] = SecretIn[d]
    BY <1>1, <2>1, StoreAssumption DEF ParityInv
  <2>3. ASSUME env.cd # "unset", rust \in Secrets
        PROVE  rust = SecretIn[DirOf(env.cd, "systemd")]
    <3>1. rust = GetMasterPassword(env, key)
      BY <1>1, <2>1, <2>3 DEF ParityInv
    <3>2. IsSafeCredentialId(key)
          /\ rust = creds[DirOf(env.cd, "systemd")][key[1]]
      BY <2>3, <3>1, RustUnderSystemd
    <3>3. key[1] \in Names
      BY <2>1, <3>2, AcceptedByRust
    <3>4. QED
      BY <2>2, <2>3, <3>2, <3>3
  <2>4. ASSUME cs \in Secrets
        PROVE  env.cd = "set" /\ cs = SecretIn["systemd"]
    <3>1. cs = CsGetMasterPassword(env, key)
      BY <1>1, <2>1, <2>4 DEF ParityInv
    <3>2. env \in Environments
      BY <1>1 DEF ParityInv, ParityTypeOK
    <3>3. /\ env.cd = "set" /\ CsIsSafeCredentialId(key)
          /\ cs = creds["systemd"][key[1]]
      BY <2>4, <3>1, <3>2, StoreAssumption
      DEF CsGetMasterPassword, CsReadFromDir,
          Environments, Settings
    <3>4. QED
      BY <2>2, <2>4, <3>3, AcceptedByCs
  <2>5. QED
    BY <2>3, <2>4 DEF NoOtherDirectory
<1>2. QED
  BY <1>1, ParityInvariant, PTL

\* The C# store refuses every key with a separator in it.
LEMMA NoSeparatorForCs ==
    ASSUME NEW dir, NEW k, NEW n \in Nat, n = Len(k), n > 1
    PROVE  CsReadFromDir(dir, k) = "SecretNotFound"
<1>1. n # 1
  OBVIOUS
<1>2. ~CsIsSafeCredentialId(k)
  BY <1>1 DEF CsIsSafeCredentialId
<1>3. QED
  BY <1>2 DEF CsReadFromDir

LEMMA OneOrMore == \A n \in Nat : n > 0 => n = 1 \/ n > 1
OBVIOUS

\* A key of one piece without a backslash is accepted by both or by none.
LEMMA SameKeysAccepted ==
    ASSUME NEW k \in Seq(KeyPieces), Len(k) = 1,
           k \notin {<<n>> : n \in BackslashNames}
    PROVE  IsSafeCredentialId(k) <=> CsIsSafeCredentialId(k)
<1>1. k = <<k[1]>> /\ k[1] \notin BackslashNames
  BY LenProperties
<1>2. ASSUME IsSafeCredentialId(k) PROVE CsIsSafeCredentialId(k)
  BY <1>1, <1>2, AcceptedByRust DEF CsIsSafeCredentialId
<1>3. ASSUME CsIsSafeCredentialId(k) PROVE IsSafeCredentialId(k)
  <2>1. k[1] \in Names \ NulNames
    BY <1>3, AcceptedByCs
  <2>2. 1..Len(k) = {1}
    OBVIOUS
  <2>3. k[1] \notin {EmptyPiece, "."}
    BY <2>1, PiecesDiffer
  <2>4. Components(k) = {1}
    BY <2>2, <2>3 DEF Components
  <2>5. QED
    BY <2>1, <2>2, <2>4 DEF IsSafeCredentialId
<1>4. QED
  BY <1>2, <1>3

\* Under systemd the two libraries differ only on keys with a backslash and
\* on those with a separator behind the name, and there in one way only.
THEOREM BothStoresAgree ==
    TwoStores => (ParitySpec => []StoresAgree)
<1> SUFFICES ASSUME TwoStores PROVE ParitySpec => []StoresAgree
  OBVIOUS
<1>1. ASSUME ParityInv PROVE StoresAgree
  <2> SUFFICES ASSUME env.cd = "set", key \notin {<<n>> : n \in BackslashNames},
                      rust # cs
               PROVE  /\ Len(key) > 1
                      /\ rust = "PermissionDenied" /\ cs = "SecretNotFound"
    BY DEF StoresAgree
  <2>1. key \in Seq(KeyPieces)
    BY <1>1 DEF ParityInv, ParityTypeOK, TwoStores
  <2>2. /\ rust = GetMasterPassword(env, key)
        /\ cs = CsGetMasterPassword(env, key)
    BY <1>1 DEF ParityInv
  <2>3. CredentialsDir(env) = "systemd"
    BY DEF CredentialsDir, DirOf
  <2>4. rust = ReadFromDir("systemd", key)
    BY <2>2, <2>3 DEF GetMasterPassword
  <2>5. cs = CsReadFromDir("systemd", key)
    BY <2>2 DEF CsGetMasterPassword
  <2>6. IsSafeCredentialId(key)
    BY <2>1, <2>4, <2>5, AcceptedByCs, SameKeysAccepted
    DEF ReadFromDir, CsReadFromDir
  <2>7. key[1] \in Names /\ Len(key) \in Nat /\ Len(key) > 0
    BY <2>1, <2>6, AcceptedByRust
  <2>8. creds["systemd"][key[1]] \in CredStates
    BY <1>1, <2>7 DEF ParityInv, TwoStores, CredStates
  <2>9. CASE Len(key) = 1
    <3>1. CsIsSafeCredentialId(key)
      BY <2>1, <2>6, <2>9, SameKeysAccepted
    <3>2. rust = cs
      BY <2>4, <2>5, <2>6, <2>8, <2>9, <3>1, StoreAssumption
      DEF ReadFromDir, ReadToString, CsReadFromDir, CredStates
    <3>3. QED
      BY <3>2
  <2>10. CASE Len(key) > 1
    <3>1. cs = "SecretNotFound"
      BY <2>5, <2>7, <2>10, NoSeparatorForCs
    <3>2. rust \in {"SecretNotFound", "PermissionDenied"}
      BY <2>4, <2>6, <2>10, StoreAssumption
      DEF ReadFromDir, ReadToString
    <3>3. QED
      BY <2>10, <3>1, <3>2
  <2>11. Len(key) = 1 \/ Len(key) > 1
    BY <2>7, OneOrMore, Zenon
  <2>12. QED
    BY <2>9, <2>10, <2>11, Zenon
<1>2. QED
  BY <1>1, ParityInvariant, PTL

----------------------------------------------------------------------------
(***************************************************************************)
(* What the library keeps in memory of the secrets it opens with and       *)
(* hands out.                                                              *)
(***************************************************************************)
\* The strings of the fields of an entry are strings of the model.
LEMMA FieldStrings ==
    ASSUME NEW h \in Handles, NEW e \in Entries, NEW f \in Fields
    PROVE  StringOf(h, e, f) \in Strings
<1>1. CASE f \in Copied
  <2>1. StringOf(h, e, f) \in Entries \X Copied
    BY <1>1 DEF StringOf
  <2>2. QED
    BY <2>1 DEF Strings
<1>2. CASE f \notin Copied
  <2>1. StringOf(h, e, f) \in Owned(h)
    BY <1>2 DEF StringOf, Owned
  <2>2. QED
    BY <2>1 DEF Strings
<1>3. QED
  BY <1>1, <1>2

\* Before the first call nothing is held.
LEMMA InitSession == SessionInit => SessionInv
BY DEF SessionInit, SessionInv, SessionTypeOK, ArraysHeld, FieldsInMemory

\* Reading the password, and the return of Open.
LEMMA OpenKeepsSession ==
    ASSUME SessionInv, Open
    PROVE  SessionInv'
<1> USE DEF SessionInv
<1>1. /\ entry' = entry
      /\ heap \subseteq heap'
      /\ answer' = answer
  BY DEF Open, ReadAllBytes, GetChars,
         NewString, OpenWithPassword, Return,
         Throw
<1>2. FieldsInMemory'
  BY <1>1 DEF FieldsInMemory, StringOf
<1>3. CASE ReadAllBytes
  BY <1>2, <1>3 DEF ReadAllBytes, SessionTypeOK, ArraysHeld
<1>4. CASE GetChars
  <2>1. arrays = {"bytes"}
    BY <1>4 DEF GetChars, ArraysHeld
  <2>2. QED
    BY <1>2, <1>4, <2>1
    DEF GetChars, Throw, SessionTypeOK, ArraysHeld
<1>5. CASE NewString
  <2>1. heap' \subseteq Strings
    BY <1>5 DEF NewString, SessionTypeOK, Strings
  <2>2. QED
    BY <1>2, <1>5, <2>1 DEF NewString, SessionTypeOK, ArraysHeld
<1>6. CASE OpenWithPassword
  <2>1. arrays = {"chars"} /\ arrays' = {} /\ phase' = "idle"
    BY <1>6 DEF OpenWithPassword, ArraysHeld, Return, Throw
  <2>2. handle' \in [Handles -> {"none", "open", "disposed"}]
    BY <1>6 DEF OpenWithPassword, Return, Throw, SessionTypeOK
  <2>3. heap' \subseteq Strings
    BY <1>6 DEF OpenWithPassword, Return, Throw,
                SessionTypeOK, Strings
  <2>4. QED
    BY <1>1, <1>2, <2>1, <2>2, <2>3 DEF SessionTypeOK, ArraysHeld
<1>7. QED
  BY <1>3, <1>4, <1>5, <1>6 DEF Open

\* A lookup fills the slot of an entry and keeps every other one.
LEMMA LookupKeepsSession ==
    ASSUME SessionInv, NEW h \in Handles, Lookup(h)
    PROVE  SessionInv'
<1> USE DEF SessionInv
<1>1. CASE answer' = "KdbxException" /\ UNCHANGED <<entry, heap>>
  BY <1>1 DEF Lookup, SessionTypeOK, ArraysHeld, FieldsInMemory,
              StringOf
<1>2. CASE \E e \in Entries, present \in SUBSET Fields :
             /\ ~entry[e].used
             /\ entry' = [entry EXCEPT ![e] =
                            [used |-> TRUE, of |-> h, fields |-> present]]
             /\ heap' = heap \cup {StringOf(h, e, f) : f \in present}
             /\ answer' = "Entry"
  <2>1. PICK e \in Entries, present \in SUBSET Fields :
             /\ ~entry[e].used
             /\ entry' = [entry EXCEPT ![e] =
                            [used |-> TRUE, of |-> h, fields |-> present]]
             /\ heap' = heap \cup {StringOf(h, e, f) : f \in present}
             /\ answer' = "Entry"
    BY <1>2
  <2>2. UNCHANGED <<phase, arrays, handle>>
    BY DEF Lookup
  <2>3. entry'[e] = [used |-> TRUE, of |-> h, fields |-> present]
        /\ \A x \in Entries \ {e} : entry'[x] = entry[x]
    BY <2>1 DEF SessionTypeOK
  <2>4. heap' \subseteq Strings
    BY <2>1, FieldStrings DEF SessionTypeOK
  <2>5. entry' \in [Entries -> [used   : BOOLEAN,
                               of     : Handles \cup {NoHandle},
                               fields : SUBSET Fields]]
    BY <2>1 DEF SessionTypeOK
  <2>6. SessionTypeOK'
    BY <2>1, <2>2, <2>4, <2>5 DEF SessionTypeOK
  <2>7. FieldsInMemory'
    <3> SUFFICES ASSUME NEW x \in Entries, NEW f \in entry'[x].fields
                 PROVE  /\ entry'[x].used
                        /\ StringOf(entry'[x].of, x, f) \in heap'
      BY DEF FieldsInMemory, StringOf
    <3>1. CASE x = e
      BY <2>1, <2>3, <3>1
    <3>2. CASE x # e
      BY <2>1, <2>3, <3>2 DEF FieldsInMemory
    <3>3. QED
      BY <3>1, <3>2
  <2>8. QED
    BY <2>2, <2>6, <2>7 DEF ArraysHeld
<1>3. QED
  BY <1>1, <1>2 DEF Lookup

\* Disposing an entry forgets its own fields only.
LEMMA DisposeEntryKeepsSession ==
    ASSUME SessionInv, NEW e \in Entries, DisposeEntry(e)
    PROVE  SessionInv'
<1> USE DEF SessionInv
<1>1. /\ entry'[e] = [entry[e] EXCEPT !.used = FALSE, !.fields = {}]
      /\ \A x \in Entries \ {e} : entry'[x] = entry[x]
      /\ entry' \in [Entries -> [used   : BOOLEAN,
                                of     : Handles \cup {NoHandle},
                                fields : SUBSET Fields]]
  BY DEF DisposeEntry, SessionTypeOK
<1>2. UNCHANGED <<phase, arrays, heap, handle, answer>>
  BY DEF DisposeEntry
<1>3. entry'[e].fields = {}
  BY <1>1 DEF SessionTypeOK
<1>4. FieldsInMemory'
  BY <1>1, <1>2, <1>3 DEF FieldsInMemory, StringOf
<1>5. QED
  BY <1>1, <1>2, <1>4 DEF SessionTypeOK, ArraysHeld

\* The garbage collector takes none of the strings of a field: all of them
\* can be reached.
LEMMA CollectKeepsSession ==
    ASSUME SessionInv, NEW s, Collect(s)
    PROVE  SessionInv'
<1> USE DEF SessionInv
<1>1. heap' = heap \ {s} /\ UNCHANGED <<phase, arrays, handle, entry, answer>>
  BY DEF Collect
<1>2. \A e \in Entries : \A f \in entry[e].fields :
        StringOf(entry[e].of, e, f) \in Reachable
  <2> SUFFICES ASSUME NEW e \in Entries, NEW f \in entry[e].fields
               PROVE  StringOf(entry[e].of, e, f) \in Reachable
    OBVIOUS
  <2> DEFINE own(x) == {StringOf(entry[x].of, x, g) : g \in entry[x].fields}
  <2>1. StringOf(entry[e].of, e, f) \in own(e)
    OBVIOUS
  <2>2. StringOf(entry[e].of, e, f) \in UNION {own(x) : x \in Entries}
    BY <2>1
  <2>3. QED
    BY <2>2 DEF Reachable
<1>3. FieldsInMemory'
  BY <1>1, <1>2 DEF FieldsInMemory, Collect, StringOf
<1>4. QED
  BY <1>1, <1>3 DEF SessionTypeOK, ArraysHeld

\* Every step of the library, its caller and the garbage collector keeps it.
LEMMA SessionStep == SessionInv /\ [SessionNext]_sessionVars => SessionInv'
<1> SUFFICES ASSUME SessionInv, [SessionNext]_sessionVars
             PROVE  SessionInv'
  OBVIOUS
<1>1. CASE Open
  BY <1>1, OpenKeepsSession
<1>2. ASSUME NEW h \in Handles, Lookup(h) PROVE SessionInv'
  BY <1>2, LookupKeepsSession
<1>3. ASSUME NEW h \in Handles, LookupDisposed(h) PROVE SessionInv'
  BY <1>3 DEF SessionInv, LookupDisposed, SessionTypeOK, ArraysHeld,
              FieldsInMemory, StringOf
<1>4. ASSUME NEW h \in Handles, Dispose(h) PROVE SessionInv'
  BY <1>4 DEF SessionInv, Dispose, SessionTypeOK, ArraysHeld,
              FieldsInMemory, StringOf
<1>5. ASSUME NEW e \in Entries, DisposeEntry(e) PROVE SessionInv'
  BY <1>5, DisposeEntryKeepsSession
<1>6. ASSUME NEW s \in Strings, Collect(s) PROVE SessionInv'
  BY <1>6, CollectKeepsSession
<1>7. CASE UNCHANGED sessionVars
  BY <1>7 DEF SessionInv, sessionVars, SessionTypeOK, ArraysHeld,
              FieldsInMemory, StringOf
<1>8. QED
  BY <1>1, <1>2, <1>3, <1>4, <1>5, <1>6, <1>7 DEF SessionNext

\* What the library holds of a secret at each point: array by array, and
\* field by field of every entry in use.
THEOREM SessionInvariant == SessionSpec => []SessionInv
BY InitSession, SessionStep, PTL DEF SessionSpec

\* A lookup ends with an entry or with a documented exception.
THEOREM SessionTypes == SessionSpec => []SessionTypeOK
<1>1. SessionInv => SessionTypeOK
  BY DEF SessionInv
<1>2. QED
  BY <1>1, SessionInvariant, PTL

\* No array holds the master password between two calls, whichever way the
\* calls before ended.
THEOREM ArraysAreCleared == SessionSpec => []ArraysCleared
<1>1. SessionInv => ArraysCleared
  BY DEF SessionInv, ArraysHeld, ArraysCleared
<1>2. QED
  BY <1>1, SessionInvariant, PTL

\* No step but its own disposal changes an entry, or takes a string from it.
LEMMA EntryStays ==
    ASSUME SessionInv, SessionInv', [SessionNext]_sessionVars,
           NEW e \in Entries
    PROVE  /\ entry[e].used => entry'[e] = entry[e] \/ DisposeEntry(e)
           /\ \A f \in entry'[e].fields :
                StringOf(entry'[e].of, e, f) \in heap'
<1>1. \A f \in entry'[e].fields :
                StringOf(entry'[e].of, e, f) \in heap'
  BY DEF SessionInv, FieldsInMemory, StringOf
<1> SUFFICES ASSUME entry[e].used
             PROVE  entry'[e] = entry[e] \/ DisposeEntry(e)
  BY <1>1
<1>2. CASE UNCHANGED entry
  BY <1>2
<1>3. ASSUME NEW h \in Handles, Lookup(h) PROVE entry'[e] = entry[e]
  BY <1>3 DEF Lookup, SessionInv, SessionTypeOK
<1>4. ASSUME NEW x \in Entries, DisposeEntry(x), x # e
      PROVE  entry'[e] = entry[e]
  BY <1>4 DEF DisposeEntry, SessionInv, SessionTypeOK
<1>5. CASE Open
  BY <1>5 DEF Open, ReadAllBytes, GetChars,
         NewString, OpenWithPassword, Return,
         Throw
<1>6. QED
  BY <1>2, <1>3, <1>4, <1>5
  DEF SessionNext, sessionVars, LookupDisposed, Dispose,
      Collect

\* An entry keeps its fields, and their strings stay in memory, until it is
\* disposed itself, for any number of handles and entries.
THEOREM EntriesAreTheirOwn == SessionSpec => EntryIsItsOwn
<1>1. SessionInv /\ SessionInv' /\ [SessionNext]_sessionVars
        => [\A e \in Entries :
              /\ entry[e].used => entry'[e] = entry[e] \/ DisposeEntry(e)
              /\ \A f \in entry'[e].fields :
                    StringOf(entry'[e].of, e, f) \in heap']_sessionVars
  BY EntryStays
<1>2. QED
  BY <1>1, SessionInvariant, PTL DEF SessionSpec, EntryIsItsOwn

=============================================================================
