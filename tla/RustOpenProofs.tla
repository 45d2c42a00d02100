--------------------------- MODULE RustOpenProofs ---------------------------
(***************************************************************************)
(* That `open` of the Rust crate keeps OpenContract, for any set of        *)
(* passwords, saves, files and path conditions: the inductive invariant    *)
(* Inv, and a step simulation that rests on it; and, from the part of Inv  *)
(* that holds in every condition, how far a call may be from the contract. *)
(***************************************************************************)
EXTENDS RustOpen, OpenCallProofs

\* What the Rust store returns for the configured key is what the one file
\* named by the documentation holds, or the documented error about it.
LEMMA FetchReadsStored ==
    ASSUME HostTypeOK
    PROVE  /\ Stored \in CredStates
           /\ Stored \in Secrets => GetMasterPassword(Env, Key) = Stored
           /\ Stored \notin Secrets
                => /\ GetMasterPassword(Env, Key) \notin Secrets
                   /\ GetMasterPassword(Env, Key) = Contract!SecretError(Stored)
<1>1. PICK n \in Names \ NulNames : Key = <<n>>
  BY CallAssumption
<1>2. CredentialsDir(Env) \in Dirs
  BY CallAssumption
<1>3. Key[1] = n /\ Len(Key) = 1
  BY <1>1
<1>4. Stored \in CredStates
  BY <1>1, <1>2, <1>3 DEF HostTypeOK, Stored
<1>5. n \notin {EmptyPiece, "."}
  BY <1>1, StoreAssumption
<1>6. Components(Key) = {1}
  <2>1. 1..Len(Key) = {1}
    BY <1>3
  <2>2. Components(Key) =
          {i \in {1} : Key[i] \notin {EmptyPiece, "."}
                         \/ (i = 1 /\ (Key[1] = "." \/ HasRoot(Key)))}
    BY <2>1 DEF Components
  <2>3. QED
    BY <2>2, <1>3, <1>5
<1>7. IsSafeCredentialId(Key)
  BY <1>1, <1>3, <1>6 DEF IsSafeCredentialId
<1>8. GetMasterPassword(Env, Key) =
        LET answer == ReadToString(CredentialsDir(Env), Key) IN
        CASE answer = "NotFound"    -> "SecretNotFound"
          [] answer \in Secrets     -> answer
          [] OTHER                  -> "PermissionDenied"
  BY <1>7 DEF GetMasterPassword, ReadFromDir
<1>9. ReadToString(CredentialsDir(Env), Key) =
        CASE Stored = "missing"     -> "NotFound"
          [] Stored = "unreadable"  -> "Other"
          [] OTHER                  -> Stored
  BY <1>3 DEF ReadToString, Stored
<1>10. QED
  BY <1>4, <1>8, <1>9, StoreAssumption DEF CredStates, Contract!SecretError

----------------------------------------------------------------------------
\* Every error is mapped to a documented one.
LEMMA ErrorsAreOutcomes ==
    /\ \A kind : MapIoError(kind) \in Contract!Outcomes
    /\ \A e : MapOpenError(e) \in Contract!Outcomes
BY DEF MapIoError, MapOpenError, Contract!Outcomes, Contract!DatabaseErrors

\* What a completed decryption returns is a documented outcome.
LEMMA ReadBodyOutcome ==
    ASSUME TypeOK, NEW b
    PROVE  LET answer == Decrypt(secret, head, b) IN
           (IF answer \in Versions THEN answer ELSE MapOpenError(answer))
               \in Contract!Outcomes
BY ErrorsAreOutcomes DEF Contract!Outcomes

\* The answer of the store is held, or it is a documented error.
LEMMA FetchCases ==
    ASSUME HostTypeOK, Fetch
    PROVE  /\ pc = "idle" /\ UNCHANGED hostVars
           /\ \/ Stored \in Secrets /\ Hold(Stored)
              \/ /\ Stored \notin Secrets
                 /\ Refuse(Contract!SecretError(Stored))
                 /\ Contract!SecretError(Stored) \in Contract!Outcomes
<1>1. Contract!SecretError(Stored) \in Contract!Outcomes
  BY DEF Contract!SecretError, Contract!Outcomes, Contract!DatabaseErrors
<1>2. QED
  BY <1>1, FetchReadsStored DEF Fetch

\* A step past the fetch goes on, or returns a documented error or database.
LEMMA StepCases ==
    ASSUME TypeOK, Metadata \/ OpenFile \/ ReadHead \/ ReadBody
    PROVE  /\ pc # "idle" /\ UNCHANGED hostVars
           /\ \/ pc = "check" /\ StatAnswer[cond] = "file" /\ Checked
              \/ pc = "open" /\ OpenAnswer[cond] = "file" /\ Opened(inode)
              \/ pc = "open" /\ OpenAnswer[cond] = "dir" /\ Opened("dir")
              \/ pc = "head" /\ ~ReadFails /\ HeadRead
              \/ \E r \in Contract!Outcomes : Finish(r)
<1>1. CASE Metadata
  BY <1>1, ErrorsAreOutcomes
  DEF Metadata, Contract!Outcomes, Contract!DatabaseErrors
<1>2. CASE OpenFile
  BY <1>2, ErrorsAreOutcomes DEF OpenFile
<1>3. CASE ReadHead
  BY <1>3, ErrorsAreOutcomes DEF ReadHead
<1>4. CASE ReadBody
  BY <1>4, ErrorsAreOutcomes, ReadBodyOutcome DEF ReadBody
<1>5. QED
  BY <1>1, <1>2, <1>3, <1>4

----------------------------------------------------------------------------
(* Type correctness.                                                        *)

LEMMA CallTypes ==
    ASSUME TypeOK, Call
    PROVE  TypeOK'
<1>1. CASE Fetch
  BY <1>1, FetchCases, HoldTypes, RefuseTypes DEF TypeOK
<1>2. CASE Metadata \/ OpenFile \/ ReadHead \/ ReadBody
  <2>1. ASSUME pc = "head", ~ReadFails
        PROVE  fd \in Inodes
    BY <2>1 DEF TypeOK, ReadFails
  <2>2. inode \in Inodes
    BY DEF TypeOK, HostTypeOK
  <2>3. QED
    BY <1>2, <2>1, <2>2, StepCases, CheckedTypes, OpenedTypes, HeadReadTypes,
       FinishTypes
<1>3. QED
  BY <1>1, <1>2 DEF Call

\* The call holds a password exactly while it runs and a file exactly while
\* it reads, and returns nothing but the documented outcomes.
THEOREM TypeCorrect == Spec => []TypeOK
<1>1. Init => TypeOK
  BY InitTypes
<1>2. TypeOK /\ [Next]_vars => TypeOK'
  BY CallTypes, HostChangesTypes, StutterTypes DEF Next
<1>3. QED
  BY <1>1, <1>2, PTL DEF Spec

----------------------------------------------------------------------------
(* What holds in every condition of the path.                               *)

\* A step of the call keeps CallInv: a directory can be opened, but it is
\* then the one at the path, and nothing is read from it.
LEMMA CallKeepsCallInv ==
    ASSUME CallInv, Call
    PROVE  CallInv'
<1>1. TypeOK /\ HostTypeOK
  BY DEF CallInv, TypeOK
<1>2. CASE Fetch
  BY <1>1, <1>2, FetchCases, HoldCallInv, RefuseCallInv
<1>3. CASE Metadata \/ OpenFile \/ ReadHead \/ ReadBody
  <2>1. /\ OpenAnswer[cond] = "file" => cond = "ok"
        /\ OpenAnswer[cond] = "dir" => cond = "directory"
    BY <1>1, HostAssumption DEF HostTypeOK, OpenAnswer, AllConds
  <2>2. ASSUME pc = "head", ~ReadFails
        PROVE  fd \in Inodes
    BY <1>1, <2>2 DEF TypeOK, ReadFails
  <2>3. QED
    BY <1>1, <1>3, <2>1, <2>2, StepCases, CheckedCallInv, OpenedCallInv,
       DirectoryOpenedCallInv, HeadReadCallInv, FinishCallInv
<1>4. QED
  BY <1>2, <1>3 DEF Call

LEMMA CallInvAlways == Spec => []CallInv
<1>1. Init => CallInv
  BY InitCallInv
<1>2. CallInv /\ [Next]_vars => CallInv'
  BY CallKeepsCallInv, HostChangesCallInv, StutterCallInv DEF Next
<1>3. QED
  BY <1>1, <1>2, PTL DEF Spec

\* The error a failing system call is mapped to is the one promised for the
\* condition of that instant, or DatabaseCorrupt for a path that is no file.
LEMMA PathErrorIsClose ==
    ASSUME CallInv, pc # "idle"
    PROVE  /\ StatAnswer[cond] = "dir" => PromisedOrCorrupt("DatabaseNotFound")
           /\ StatAnswer[cond] \notin {"file", "dir"}
                => PromisedOrCorrupt(MapIoError(StatAnswer[cond]))
           /\ OpenAnswer[cond] \notin {"file", "dir"}
                => PromisedOrCorrupt(MapIoError(OpenAnswer[cond]))
           /\ cond = "io_error" => PromisedOrCorrupt("DatabaseCorrupt")
<1>1. Contract!Promise(secret, Disk) \subseteq possible
  BY DEF CallInv, ThisInstantCounts
<1>2. cond \in AllConds
  BY HostAssumption DEF CallInv, TypeOK, HostTypeOK
<1>3. Disk.cond = cond
  BY DEF Disk
<1> USE DEF StatAnswer, OpenAnswer, MapIoError, PromisedOrCorrupt
<1>4. CASE cond = "ok"
  BY <1>2, <1>4
<1>5. CASE cond \in {"no_file", "no_parent", "not_a_dir", "directory"}
  <2>1. "DatabaseNotFound" \in possible
    BY <1>1, <1>3, <1>5 DEF Contract!Promise
  <2>2. QED
    BY <1>2, <1>5, <2>1
<1>6. CASE cond \in {"no_search", "no_read"}
  BY <1>1, <1>2, <1>3, <1>6 DEF Contract!Promise
<1>7. CASE cond = "io_error"
  <2>1. Contract!DatabaseErrors \subseteq possible
    BY <1>1, <1>3, <1>7 DEF Contract!Promise
  <2>2. QED
    BY <1>2, <1>7, <2>1 DEF Contract!DatabaseErrors
<1>8. QED
  BY <1>2, <1>4, <1>5, <1>6, <1>7 DEF AllConds

\* A read that fails is one of a directory or of a device that fails.
LEMMA FailedReadIsClose ==
    ASSUME CallInv, pc # "idle", ReadFails
    PROVE  PromisedOrCorrupt(MapOpenError("Other"))
<1>1. CASE fd = "dir"
  BY <1>1 DEF CallInv, DirectoryWasSeen, MapOpenError, PromisedOrCorrupt
<1>2. CASE cond = "io_error"
  BY <1>2, PathErrorIsClose DEF MapOpenError
<1>3. QED
  BY <1>1, <1>2 DEF ReadFails

\* A step that returns gives what is promised, or calls corrupt a path that
\* was no file.
LEMMA ReturnIsClose ==
    ASSUME CallInv, [Next]_vars, pc # "idle", pc' = "idle"
    PROVE  PromisedOrCorrupt(outcome')
<1>1. TypeOK
  BY DEF CallInv
<1>2. CASE Metadata
  BY <1>2, PathErrorIsClose DEF Metadata, Checked, Finish
<1>3. CASE OpenFile
  BY <1>3, PathErrorIsClose DEF OpenFile, Opened, Finish
<1>4. CASE ReadHead
  BY <1>4, FailedReadIsClose DEF ReadHead, HeadRead, Finish
<1>5. CASE ReadBody
  <2>1. CASE ReadFails
    BY <1>5, <2>1, FailedReadIsClose DEF ReadBody, Finish
  <2>2. CASE ~ReadFails
    <3>1. PICK answer : /\ answer = Decrypt(secret, head, file[fd].body)
                        /\ outcome' = IF answer \in Versions THEN answer
                                      ELSE MapOpenError(answer)
      BY <1>5, <2>2 DEF ReadBody, Finish
    <3>2. pc = "body" /\ fd \in Inodes
      BY <1>1, <1>5, <2>2 DEF ReadBody, TypeOK, ReadFails
    <3>3. outcome' \in possible
      BY <3>1, <3>2, DecryptedIsPromised DEF MapOpenError
    <3>4. QED
      BY <3>3 DEF PromisedOrCorrupt
  <2>3. QED
    BY <2>1, <2>2
<1>6. CASE Fetch \/ HostChanges \/ UNCHANGED vars
  BY <1>6 DEF Fetch, HostChanges, vars, callVars
<1>7. QED
  BY <1>2, <1>3, <1>4, <1>5, <1>6 DEF Next, Call

\* Whatever is put at the path between two system calls, and in every
\* condition of it, an open returns what is promised, or DatabaseCorrupt
\* where DatabaseNotFound is promised.
THEOREM WorstIsCorrupt == Spec => AtWorstCorrupt
<1>1. CallInv /\ [Next]_vars
        => [pc # "idle" /\ pc' = "idle" => PromisedOrCorrupt(outcome')]_vars
  BY ReturnIsClose
<1>2. QED
  BY <1>1, CallInvAlways, PTL DEF Spec, AtWorstCorrupt

----------------------------------------------------------------------------
(* The inductive invariant.  A path component that is a file, and a         *)
(* directory put in the place of the file under a running call, are the two *)
(* conditions the code does not answer as documented.                       *)

Documented == "not_a_dir" \notin Conds /\ "directory" \notin Volatile

LEMMA InitInv == Init => Inv
BY InitCallInv DEF Inv, AFileIsOpen, NoDirectory, Init

\* No step of the call breaks the invariant: the check excludes a directory,
\* and the open therefore gives a descriptor of a file.
LEMMA CallKeepsInv ==
    ASSUME Documented, Inv, Call
    PROVE  Inv'
<1>1. CallInv /\ TypeOK /\ HostTypeOK
  BY DEF Inv, CallInv, TypeOK
<1>2. CASE Fetch
  <2>1. AFileIsOpen' /\ NoDirectory'
    BY <1>1, <1>2, FetchCases DEF AFileIsOpen, NoDirectory, Hold, Refuse
  <2>2. QED
    BY <1>1, <1>2, <2>1, CallKeepsCallInv DEF Inv, Call
<1>3. CASE Metadata \/ OpenFile \/ ReadHead \/ ReadBody
  <2>1. pc = "open" => OpenAnswer[cond] # "dir"
    BY <1>1, HostAssumption
    DEF Inv, NoDirectory, HostTypeOK, OpenAnswer, AllConds
  <2>2. CallInv'
    BY <1>1, <1>3, CallKeepsCallInv DEF Call
  <2>3. AFileIsOpen'
    BY <1>1, <1>3, <2>1, StepCases
    DEF Inv, AFileIsOpen, TypeOK, HostTypeOK, Checked, Opened, HeadRead, Finish
  <2>4. StatAnswer[cond] = "file" => cond # "directory"
    BY <1>1, HostAssumption DEF HostTypeOK, StatAnswer
  <2>5. NoDirectory'
    BY <1>1, <1>3, <2>4, StepCases
    DEF NoDirectory, Checked, Opened, HeadRead, Finish, hostVars
  <2>6. QED
    BY <2>2, <2>3, <2>5 DEF Inv
<1>4. QED
  BY <1>2, <1>3 DEF Call

\* Nor does a step of another program: no directory is put in place of the
\* database under a running call.
LEMMA HostKeepsInv ==
    ASSUME Documented, Inv, HostChanges
    PROVE  Inv'
<1>1. CallInv'
  BY HostChangesCallInv DEF Inv
<1>2. ASSUME pc # "idle", cond # "directory"
      PROVE  cond' # "directory"
  BY <1>2 DEF HostChanges, HostStep, Documented, Provision, ChangeCond,
              Replace, Truncate, WriteHead, WriteBody
<1>3. AFileIsOpen' /\ NoDirectory'
  BY <1>2 DEF Inv, AFileIsOpen, NoDirectory, HostChanges, callVars
<1>4. QED
  BY <1>1, <1>3 DEF Inv

LEMMA StutterInv ==
    ASSUME Inv, UNCHANGED vars
    PROVE  Inv'
<1>1. CallInv'
  BY StutterCallInv DEF Inv
<1>2. QED
  BY <1>1 DEF Inv, AFileIsOpen, NoDirectory, vars, hostVars, callVars

\* At every step of a call, what it will return is among what an open that
\* took no time could have returned.
THEOREM Invariant == Documented => (Spec => []Inv)
<1> SUFFICES ASSUME Documented PROVE Spec => []Inv
  OBVIOUS
<1>1. Init => Inv
  BY InitInv
<1>2. Inv /\ [Next]_vars => Inv'
  BY CallKeepsInv, HostKeepsInv, StutterInv DEF Next
<1>3. QED
  BY <1>1, <1>2, PTL DEF Spec

----------------------------------------------------------------------------
(* The step simulation.                                                     *)

\* The error a failing system call is mapped to is the one promised for the
\* condition the path is in at that instant.
LEMMA PathErrorIsPromised ==
    ASSUME Documented, Inv, pc # "idle"
    PROVE  /\ StatAnswer[cond] = "dir" => "DatabaseNotFound" \in possible
           /\ StatAnswer[cond] \notin {"file", "dir"}
                => MapIoError(StatAnswer[cond]) \in possible
           /\ OpenAnswer[cond] \notin {"file", "dir"}
                => MapIoError(OpenAnswer[cond]) \in possible
           /\ cond = "io_error" => "DatabaseCorrupt" \in possible
<1>1. Contract!Promise(secret, Disk) \subseteq possible
  BY DEF Inv, CallInv, ThisInstantCounts
<1>2. cond \in AllConds \ {"not_a_dir"}
  BY HostAssumption DEF Inv, CallInv, TypeOK, HostTypeOK, Documented
<1>3. Disk.cond = cond
  BY DEF Disk
<1>4. CASE cond = "ok"
  BY <1>2, <1>4 DEF StatAnswer, OpenAnswer
<1>5. CASE cond \in {"no_file", "no_parent"}
  BY <1>1, <1>2, <1>3, <1>5
  DEF StatAnswer, OpenAnswer, MapIoError, Contract!Promise
<1>6. CASE cond = "directory"
  BY <1>1, <1>2, <1>3, <1>6
  DEF StatAnswer, OpenAnswer, MapIoError, Contract!Promise
<1>7. CASE cond \in {"no_search", "no_read"}
  BY <1>1, <1>2, <1>3, <1>7
  DEF StatAnswer, OpenAnswer, MapIoError, Contract!Promise
<1>8. CASE cond = "io_error"
  BY <1>1, <1>2, <1>3, <1>8
  DEF StatAnswer, OpenAnswer, MapIoError, Contract!Promise,
      Contract!DatabaseErrors
<1>9. QED
  BY <1>2, <1>4, <1>5, <1>6, <1>7, <1>8 DEF AllConds

\* A directory is never read, so a read fails only with the device.
LEMMA FailedReadIsPromised ==
    ASSUME Documented, Inv, pc \in {"head", "body"}, ReadFails
    PROVE  MapOpenError("Other") \in possible
<1>1. cond = "io_error"
  BY CallAssumption DEF Inv, AFileIsOpen, ReadFails
<1>2. QED
  BY <1>1, PathErrorIsPromised DEF MapOpenError

LEMMA StepSimulates ==
    ASSUME Documented, Inv, [Next]_vars
    PROVE  [Contract!Next]_Contract!vars
<1> USE DEF Contract!Next
<1>1. CallInv /\ TypeOK /\ HostTypeOK
  BY DEF Inv, CallInv, TypeOK
<1>2. CASE Fetch
  BY <1>1, <1>2, FetchCases, HoldSimulates, RefuseSimulates
<1>3. CASE Metadata
  <2>1. CASE StatAnswer[cond] = "file"
    BY <1>3, <2>1, InnerStepSimulates DEF Metadata, Checked
  <2>2. CASE StatAnswer[cond] # "file"
    BY <1>3, <2>2, PathErrorIsPromised, FinishSimulates DEF Metadata
  <2>3. QED
    BY <2>1, <2>2
<1>4. CASE OpenFile
  <2>1. CASE OpenAnswer[cond] \in {"file", "dir"}
    BY <1>4, <2>1, InnerStepSimulates DEF OpenFile, Opened
  <2>2. CASE OpenAnswer[cond] \notin {"file", "dir"}
    BY <1>4, <2>2, PathErrorIsPromised, FinishSimulates DEF OpenFile
  <2>3. QED
    BY <2>1, <2>2
<1>5. CASE ReadHead
  <2>1. CASE ReadFails
    BY <1>5, <2>1, FailedReadIsPromised, FinishSimulates DEF ReadHead
  <2>2. CASE ~ReadFails
    BY <1>5, <2>2, InnerStepSimulates DEF ReadHead, HeadRead
  <2>3. QED
    BY <2>1, <2>2
<1>6. CASE ReadBody
  <2>1. CASE ReadFails
    BY <1>6, <2>1, FailedReadIsPromised, FinishSimulates DEF ReadBody
  <2>2. CASE ~ReadFails
    <3>1. PICK answer : /\ answer = Decrypt(secret, head, file[fd].body)
                        /\ Finish(IF answer \in Versions THEN answer
                                  ELSE MapOpenError(answer))
      BY <1>6, <2>2 DEF ReadBody
    <3>2. (IF answer \in Versions THEN answer ELSE MapOpenError(answer))
              \in possible
      BY <1>1, <1>6, <3>1, DecryptedIsPromised
      DEF Inv, AFileIsOpen, ReadBody, MapOpenError
    <3>3. QED
      BY <1>6, <3>1, <3>2, FinishSimulates DEF ReadBody
  <2>3. QED
    BY <2>1, <2>2
<1>7. CASE HostChanges
  BY <1>7, HostChangesSimulates
<1>8. CASE UNCHANGED vars
  BY <1>8, StutterSimulates
<1>9. QED
  BY <1>2, <1>3, <1>4, <1>5, <1>6, <1>7, <1>8 DEF Next, Call

\* Where the two undocumented conditions do not arise, every open returns
\* what an instantaneous open would have returned at some instant of the
\* call, whatever other programs do to the credential and to the database.
THEOREM OpenKeepsContract == Documented => (Spec => KeepsContract)
<1> SUFFICES ASSUME Documented PROVE Spec => KeepsContract
  OBVIOUS
<1>1. Init => Contract!Init
  BY InitSimulates
<1>2. Inv /\ [Next]_vars => [Contract!Next]_Contract!vars
  BY StepSimulates
<1>3. Spec => []Inv
  BY Invariant
<1>4. QED
  BY <1>1, <1>2, <1>3, PTL DEF Spec, KeepsContract, Contract!Spec

=============================================================================
