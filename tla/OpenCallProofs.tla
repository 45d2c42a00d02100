--------------------------- MODULE OpenCallProofs ---------------------------
(***************************************************************************)
(* What the proofs about the two implementations of `open` share: each     *)
(* step of the frame keeps the types and CallInv, whatever the host does,  *)
(* and maps to a step of OpenContract.                                     *)
(***************************************************************************)
EXTENDS OpenCall, TLAPS

\* An instantaneous open returns one of the documented outcomes.
LEMMA PromiseType ==
    ASSUME NEW s, NEW d
    PROVE  Contract!Promise(s, d) \subseteq Contract!Outcomes
<1>1. Contract!Judged(s, d) \in Contract!Outcomes
  BY HostAssumption
  DEF Contract!Judged, Contract!Outcomes, Contract!DatabaseErrors
<1>2. QED
  BY <1>1 DEF Contract!Promise, Contract!Outcomes, Contract!DatabaseErrors

\* The host keeps its own types, whoever calls.
LEMMA HostTypes ==
    ASSUME HostTypeOK, HostStep
    PROVE  HostTypeOK'
<1> USE DEF HostTypeOK
<1>1. ASSUME NEW d \in Dirs, NEW n \in Names, NEW c \in CredStates,
             Provision(d, n, c)
      PROVE  HostTypeOK'
  BY <1>1 DEF Provision
<1>2. ASSUME NEW c \in Conds, ChangeCond(c)
      PROVE  HostTypeOK'
  BY <1>2 DEF ChangeCond
<1>3. ASSUME NEW i \in Inodes, NEW v \in Versions, Replace(i, v)
      PROVE  HostTypeOK'
  BY <1>3 DEF Replace, Saved, Contents, Parts
<1>4. ASSUME Truncate
      PROVE  HostTypeOK'
  BY <1>4 DEF Truncate, Truncated, Saved, Contents, Parts
<1>5. ASSUME NEW v \in Versions, WriteHead(v)
      PROVE  HostTypeOK'
  BY <1>5 DEF WriteHead, Contents, Parts
<1>6. ASSUME WriteBody
      PROVE  HostTypeOK'
  <2>1. file[inode].head \in Parts
    BY DEF Contents
  <2>2. QED
    BY <1>6, <2>1 DEF WriteBody, Saved, Contents
<1>7. QED
  BY <1>1, <1>2, <1>3, <1>4, <1>5, <1>6 DEF HostStep

\* Every file is written head first, and stays so.
LEMMA HostWritesInOrder ==
    ASSUME HostTypeOK, WrittenInOrder, HostStep
    PROVE  WrittenInOrder'
<1> USE DEF HostTypeOK, WrittenInOrder
<1>1. ASSUME NEW d \in Dirs, NEW n \in Names, NEW c \in CredStates,
             Provision(d, n, c)
      PROVE  WrittenInOrder'
  BY <1>1 DEF Provision
<1>2. ASSUME NEW c \in Conds, ChangeCond(c)
      PROVE  WrittenInOrder'
  BY <1>2 DEF ChangeCond
<1>3. ASSUME NEW i \in Inodes, NEW v \in Versions, Replace(i, v)
      PROVE  WrittenInOrder'
  BY <1>3 DEF Replace, Saved
<1>4. ASSUME Truncate
      PROVE  WrittenInOrder'
  BY <1>4 DEF Truncate, Truncated, Saved
<1>5. ASSUME NEW v \in Versions, WriteHead(v)
      PROVE  WrittenInOrder'
  BY <1>5 DEF WriteHead
<1>6. ASSUME WriteBody
      PROVE  WrittenInOrder'
  BY <1>6 DEF WriteBody, Saved
<1>7. QED
  BY <1>1, <1>2, <1>3, <1>4, <1>5, <1>6 DEF HostStep

----------------------------------------------------------------------------
(* Type correctness.                                                        *)

LEMMA InitTypes == Init => TypeOK
<1> SUFFICES ASSUME Init PROVE TypeOK
  OBVIOUS
<1>1. HostTypeOK
  BY DEF Init, HostInit, HostTypeOK, Saved, Contents, Parts
<1>2. QED
  BY <1>1 DEF Init, TypeOK, Parts

\* Whatever a call returns, a documented outcome leaves the types in order.
LEMMA FinishTypes ==
    ASSUME TypeOK, NEW r \in Contract!Outcomes, Finish(r), UNCHANGED hostVars
    PROVE  TypeOK'
<1>1. HostTypeOK'
  BY DEF TypeOK, HostTypeOK, hostVars
<1>2. QED
  BY <1>1 DEF TypeOK, Finish, Parts

LEMMA HoldTypes ==
    ASSUME TypeOK, pc = "idle", NEW s \in Secrets, Hold(s), UNCHANGED hostVars
    PROVE  TypeOK'
<1>1. HostTypeOK'
  BY DEF TypeOK, HostTypeOK, hostVars
<1>2. QED
  BY <1>1, PromiseType, CallAssumption DEF TypeOK, Hold

LEMMA RefuseTypes ==
    ASSUME TypeOK, NEW e \in Contract!Outcomes, Refuse(e), UNCHANGED hostVars
    PROVE  TypeOK'
<1>1. HostTypeOK'
  BY DEF TypeOK, HostTypeOK, hostVars
<1>2. QED
  BY <1>1 DEF TypeOK, Refuse

LEMMA CheckedTypes ==
    ASSUME TypeOK, pc = "check", Checked, UNCHANGED hostVars
    PROVE  TypeOK'
<1>1. HostTypeOK'
  BY DEF TypeOK, HostTypeOK, hostVars
<1>2. QED
  BY <1>1 DEF TypeOK, Checked

LEMMA OpenedTypes ==
    ASSUME TypeOK, pc = "open", NEW d \in Inodes \cup {"dir"}, Opened(d),
           UNCHANGED hostVars
    PROVE  TypeOK'
<1>1. HostTypeOK'
  BY DEF TypeOK, HostTypeOK, hostVars
<1>2. QED
  BY <1>1, CallAssumption DEF TypeOK, Opened

LEMMA HeadReadTypes ==
    ASSUME TypeOK, pc = "head", fd \in Inodes, HeadRead, UNCHANGED hostVars
    PROVE  TypeOK'
<1>1. HostTypeOK /\ HostTypeOK'
  BY DEF TypeOK, HostTypeOK, hostVars
<1>2. file[fd].head \in Parts
  BY <1>1 DEF HostTypeOK, Contents
<1>3. QED
  BY <1>1, <1>2 DEF TypeOK, HeadRead

LEMMA HostChangesTypes ==
    ASSUME TypeOK, HostChanges
    PROVE  TypeOK'
<1>1. HostTypeOK'
  BY HostTypes DEF TypeOK, HostChanges
<1>2. possible' \subseteq Contract!Outcomes
  <2>1. Contract!Promise(secret, Disk') \subseteq Contract!Outcomes
    BY PromiseType
  <2>2. QED
    BY <2>1 DEF TypeOK, HostChanges
<1>3. QED
  BY <1>1, <1>2 DEF TypeOK, HostChanges, callVars

LEMMA StutterTypes ==
    ASSUME TypeOK, UNCHANGED vars
    PROVE  TypeOK'
BY DEF TypeOK, HostTypeOK, vars, hostVars, callVars

----------------------------------------------------------------------------
(* The invariant of a call.                                                 *)

LEMMA InitCallInv == Init => CallInv
<1> SUFFICES ASSUME Init PROVE CallInv
  OBVIOUS
<1>1. TypeOK
  BY InitTypes
<1>2. WrittenInOrder
  BY DEF Init, HostInit, WrittenInOrder, Saved
<1>3. QED
  BY <1>1, <1>2, CallAssumption
  DEF Init, CallInv, ThisInstantCounts, DirectoryWasSeen, OpenFileWasSeen,
      HeadWasSeen

\* A call that has returned leaves only the parts about the types.
LEMMA FinishCallInv ==
    ASSUME CallInv, NEW r \in Contract!Outcomes, Finish(r), UNCHANGED hostVars
    PROVE  CallInv'
<1>1. TypeOK'
  BY FinishTypes DEF CallInv
<1>2. WrittenInOrder'
  BY DEF CallInv, WrittenInOrder, hostVars
<1>3. pc' = "idle" /\ fd' # "dir"
  BY CallAssumption DEF Finish
<1>4. QED
  BY <1>1, <1>2, <1>3
  DEF CallInv, ThisInstantCounts, DirectoryWasSeen, OpenFileWasSeen, HeadWasSeen

LEMMA HoldCallInv ==
    ASSUME CallInv, pc = "idle", NEW s \in Secrets, Hold(s), UNCHANGED hostVars
    PROVE  CallInv'
<1>1. TypeOK'
  BY HoldTypes DEF CallInv
<1>2. WrittenInOrder' /\ Disk' = Disk
  BY DEF CallInv, WrittenInOrder, Disk, hostVars
<1>3. fd' # "dir"
  BY CallAssumption DEF CallInv, TypeOK, Hold
<1>4. QED
  BY <1>1, <1>2, <1>3
  DEF CallInv, Hold, ThisInstantCounts, DirectoryWasSeen, OpenFileWasSeen,
      HeadWasSeen

LEMMA RefuseCallInv ==
    ASSUME CallInv, pc = "idle", NEW e \in Contract!Outcomes, Refuse(e),
           UNCHANGED hostVars
    PROVE  CallInv'
<1>1. TypeOK'
  BY RefuseTypes DEF CallInv
<1>2. WrittenInOrder'
  BY DEF CallInv, WrittenInOrder, hostVars
<1>3. QED
  BY <1>1, <1>2
  DEF CallInv, Refuse, ThisInstantCounts, DirectoryWasSeen, OpenFileWasSeen,
      HeadWasSeen

LEMMA CheckedCallInv ==
    ASSUME CallInv, pc = "check", Checked, UNCHANGED hostVars
    PROVE  CallInv'
<1>1. TypeOK'
  BY CheckedTypes DEF CallInv
<1>2. WrittenInOrder' /\ Disk' = Disk
  BY DEF CallInv, WrittenInOrder, Disk, hostVars
<1>3. QED
  BY <1>1, <1>2
  DEF CallInv, Checked, ThisInstantCounts, DirectoryWasSeen, OpenFileWasSeen,
      HeadWasSeen

\* Judging the open file at the path is judging the path.
LEMMA JudgedAtPath ==
    ASSUME NEW s, cond = "ok"
    PROVE  Contract!Promise(s, Disk) = {Contract!Judged(s, file[inode])}
BY DEF Contract!Promise, Contract!Judged, Disk

LEMMA OpenedCallInv ==
    ASSUME CallInv, pc = "open", cond = "ok", Opened(inode), UNCHANGED hostVars
    PROVE  CallInv'
<1>1. inode \in Inodes
  BY DEF CallInv, TypeOK, HostTypeOK
<1>2. TypeOK'
  BY <1>1, OpenedTypes DEF CallInv
<1>3. WrittenInOrder' /\ Disk' = Disk /\ file' = file
  BY DEF CallInv, WrittenInOrder, Disk, hostVars
<1>4. Contract!Judged(secret, file[inode]) \in possible
  BY JudgedAtPath DEF CallInv, ThisInstantCounts
<1>5. pc' = "head" /\ fd' = inode /\ secret' = secret /\ possible' = possible
  BY DEF Opened
<1>6. ThisInstantCounts'
  BY <1>3, <1>5 DEF CallInv, ThisInstantCounts
<1>7. DirectoryWasSeen' /\ OpenFileWasSeen' /\ HeadWasSeen'
  BY <1>1, <1>3, <1>4, <1>5, CallAssumption
  DEF DirectoryWasSeen, OpenFileWasSeen, HeadWasSeen
<1>8. QED
  BY <1>2, <1>3, <1>6, <1>7 DEF CallInv

\* A directory is open because it is at the path.
LEMMA DirectoryOpenedCallInv ==
    ASSUME CallInv, pc = "open", cond = "directory", Opened("dir"),
           UNCHANGED hostVars
    PROVE  CallInv'
<1>1. TypeOK'
  BY OpenedTypes DEF CallInv
<1>2. WrittenInOrder' /\ Disk' = Disk
  BY DEF CallInv, WrittenInOrder, Disk, hostVars
<1>3. "DatabaseNotFound" \in possible
  BY DEF CallInv, ThisInstantCounts, Contract!Promise, Disk
<1>4. pc' = "head" /\ fd' = "dir" /\ secret' = secret /\ possible' = possible
  BY DEF Opened
<1>5. ThisInstantCounts' /\ DirectoryWasSeen' /\ OpenFileWasSeen' /\ HeadWasSeen'
  BY <1>2, <1>3, <1>4, CallAssumption
  DEF CallInv, ThisInstantCounts, DirectoryWasSeen, OpenFileWasSeen, HeadWasSeen
<1>6. QED
  BY <1>1, <1>2, <1>5 DEF CallInv

LEMMA HeadReadCallInv ==
    ASSUME CallInv, pc = "head", fd \in Inodes, HeadRead, UNCHANGED hostVars
    PROVE  CallInv'
<1>1. fd \in Inodes /\ Contract!Judged(secret, file[fd]) \in possible
  BY DEF CallInv, OpenFileWasSeen
<1>2. TypeOK'
  BY <1>1, HeadReadTypes DEF CallInv
<1>3. WrittenInOrder' /\ Disk' = Disk /\ file' = file
  BY DEF CallInv, WrittenInOrder, Disk, hostVars
<1>4. /\ pc' = "body" /\ head' = file[fd].head
      /\ secret' = secret /\ fd' = fd /\ possible' = possible
  BY DEF HeadRead
<1>5. HeadWasSeen'
  BY <1>1, <1>3, <1>4 DEF HeadWasSeen, Contract!Judged
<1>6. ThisInstantCounts' /\ DirectoryWasSeen' /\ OpenFileWasSeen'
  BY <1>1, <1>3, <1>4
  DEF CallInv, ThisInstantCounts, DirectoryWasSeen, OpenFileWasSeen
<1>7. QED
  BY <1>2, <1>3, <1>5, <1>6 DEF CallInv

\* What a step of the host does to a file that a call has open: nothing, or
\* a save in place, which then shows at the path.
LEMMA OpenFileChanges ==
    ASSUME CallInv, HostStep, fd \in Inodes
    PROVE  \/ file'[fd] = file[fd]
           \/ /\ cond' = "ok" /\ inode' = fd
              /\ \/ file'[fd].head = NoPart
                 \/ file[fd].head = NoPart
                 \/ file'[fd].head = file[fd].head
<1> USE DEF CallInv, TypeOK, HostTypeOK
<1>1. ASSUME NEW d \in Dirs, NEW n \in Names, NEW c \in CredStates,
             Provision(d, n, c)
      PROVE  file'[fd] = file[fd]
  BY <1>1 DEF Provision
<1>2. ASSUME NEW c \in Conds, ChangeCond(c)
      PROVE  file'[fd] = file[fd]
  BY <1>2 DEF ChangeCond
<1>3. ASSUME NEW i \in Inodes \ {fd}, NEW v \in Versions, Replace(i, v)
      PROVE  file'[fd] = file[fd]
  BY <1>3 DEF Replace
<1>4. ASSUME Truncate
      PROVE  \/ file'[fd] = file[fd]
             \/ cond' = "ok" /\ inode' = fd /\ file'[fd].head = NoPart
  BY <1>4 DEF Truncate, Truncated, Saved
<1>5. ASSUME NEW v \in Versions, WriteHead(v)
      PROVE  \/ file'[fd] = file[fd]
             \/ cond' = "ok" /\ inode' = fd /\ file[fd].head = NoPart
  BY <1>5 DEF WriteHead, Truncated, Saved
<1>6. ASSUME WriteBody
      PROVE  \/ file'[fd] = file[fd]
             \/ cond' = "ok" /\ inode' = fd /\ file'[fd].head = file[fd].head
  BY <1>6 DEF WriteBody, Saved
<1>7. QED
  BY <1>1, <1>2, <1>3, <1>4, <1>5, <1>6 DEF HostStep

LEMMA HostChangesCallInv ==
    ASSUME CallInv, HostChanges
    PROVE  CallInv'
<1>1. TypeOK /\ TypeOK'
  BY HostChangesTypes DEF CallInv
<1>2. WrittenInOrder'
  BY <1>1, HostWritesInOrder DEF CallInv, TypeOK, HostChanges
<1>3. UNCHANGED <<pc, secret, fd, head, outcome>>
  BY DEF HostChanges, callVars
<1>4. possible \subseteq possible'
  BY DEF HostChanges
<1>5. pc # "idle" => Contract!Promise(secret, Disk') \subseteq possible'
  BY DEF HostChanges
<1>6. ThisInstantCounts'
  BY <1>3, <1>5 DEF ThisInstantCounts
<1>7. DirectoryWasSeen'
  BY <1>3, <1>4 DEF CallInv, DirectoryWasSeen
<1>8. ASSUME pc \in {"head", "body"}, fd \in Inodes
      PROVE  \/ file'[fd] = file[fd]
             \/ /\ Contract!Judged(secret, file'[fd]) \in possible'
                /\ \/ file'[fd].head = NoPart
                   \/ file[fd].head = NoPart
                   \/ file'[fd].head = file[fd].head
  <2>1. ASSUME cond' = "ok", inode' = fd
        PROVE  Contract!Judged(secret, file'[fd]) \in possible'
    <3>1. Contract!Promise(secret, Disk')
            = {Contract!Judged(secret, file'[fd])}
      BY <2>1 DEF Contract!Promise, Contract!Judged, Disk
    <3>2. QED
      BY <1>5, <1>8, <3>1
  <2>2. QED
    BY <1>8, <2>1, OpenFileChanges DEF HostChanges
<1>9. OpenFileWasSeen'
  BY <1>3, <1>4, <1>8 DEF CallInv, OpenFileWasSeen
<1>10. HeadWasSeen'
  <2> SUFFICES ASSUME pc = "body", fd \in Inodes
               PROVE  HeadWasSeen'
    BY <1>3, <1>4 DEF CallInv, HeadWasSeen
  <2>1. NoPart \notin Valid
    BY HostAssumption
  <2>2. CASE file'[fd] = file[fd]
    BY <1>3, <1>4, <2>2 DEF CallInv, HeadWasSeen
  <2>3. CASE file'[fd].head = NoPart
    <3>1. file'[fd] # file[fd] => "DatabaseCorrupt" \in possible'
      BY <1>8, <2>1, <2>3 DEF Contract!Judged
    <3>2. QED
      BY <1>3, <1>4, <2>2, <3>1 DEF CallInv, HeadWasSeen
  <2>4. CASE file[fd].head = NoPart
    BY <1>3, <1>4, <1>8, <2>1, <2>4 DEF CallInv, HeadWasSeen
  <2>5. CASE file'[fd].head = file[fd].head
    BY <1>3, <1>4, <2>5 DEF CallInv, HeadWasSeen
  <2>6. QED
    BY <1>8, <2>2, <2>3, <2>4, <2>5
<1>11. QED
  BY <1>1, <1>2, <1>6, <1>7, <1>9, <1>10 DEF CallInv

LEMMA StutterCallInv ==
    ASSUME CallInv, UNCHANGED vars
    PROVE  CallInv'
<1>1. TypeOK'
  BY StutterTypes DEF CallInv
<1>2. QED
  BY <1>1
  DEF CallInv, vars, hostVars, callVars, WrittenInOrder, ThisInstantCounts,
      DirectoryWasSeen, OpenFileWasSeen, HeadWasSeen, Disk

----------------------------------------------------------------------------
(* The step simulation.                                                     *)

LEMMA InitSimulates == Init => Contract!Init
BY DEF Init, Contract!Init

\* A return with an outcome that was possible is a return of the contract.
LEMMA FinishSimulates ==
    ASSUME pc # "idle", UNCHANGED hostVars, NEW r \in possible, Finish(r)
    PROVE  Contract!Return
<1>1. Stored' = Stored /\ Disk' = Disk
  BY DEF Stored, Disk, hostVars
<1>2. QED
  BY <1>1 DEF Finish, Contract!Return

\* A step within the call is invisible to the caller.
LEMMA InnerStepSimulates ==
    ASSUME pc # "idle", pc' # "idle", UNCHANGED hostVars,
           UNCHANGED <<secret, outcome, possible>>
    PROVE  UNCHANGED Contract!vars
<1>1. Stored' = Stored /\ Disk' = Disk
  BY DEF Stored, Disk, hostVars
<1>2. QED
  BY <1>1 DEF Contract!vars

\* Holding what is stored begins a call of the contract, and reporting that
\* nothing is stored is its refusal.
LEMMA HoldSimulates ==
    ASSUME pc = "idle", Stored \in Secrets, Hold(Stored), UNCHANGED hostVars
    PROVE  Contract!Begin
<1>1. Stored' = Stored /\ Disk' = Disk
  BY DEF Stored, Disk, hostVars
<1>2. QED
  BY <1>1 DEF Hold, Contract!Begin

LEMMA RefuseSimulates ==
    ASSUME pc = "idle", Stored \notin Secrets,
           Refuse(Contract!SecretError(Stored)), UNCHANGED hostVars
    PROVE  Contract!Refuse
<1>1. Stored' = Stored /\ Disk' = Disk
  BY DEF Stored, Disk, hostVars
<1>2. QED
  BY <1>1 DEF Refuse, Contract!Refuse

LEMMA HostChangesSimulates ==
    ASSUME HostChanges
    PROVE  Contract!Change
BY DEF HostChanges, callVars, Contract!Change

LEMMA StutterSimulates ==
    ASSUME UNCHANGED vars
    PROVE  UNCHANGED Contract!vars
BY DEF vars, hostVars, callVars, Contract!vars, Stored, Disk

\* What is decrypted from a head and a body read at two instants is what an
\* instant in between, or one of the two, would have given.
LEMMA DecryptedIsPromised ==
    ASSUME CallInv, pc = "body", fd \in Inodes
    PROVE  LET answer == Decrypt(secret, head, file[fd].body) IN
           \/ answer \in Versions /\ answer \in possible
           \/ /\ answer = "Key" /\ answer \notin Versions
              /\ "AuthenticationFailed" \in possible
           \/ /\ answer = "DatabaseIntegrity" /\ answer \notin Versions
              /\ "DatabaseCorrupt" \in possible
<1>1. HeadWasSeen /\ Contract!Judged(secret, file[fd]) \in possible
  BY DEF CallInv, OpenFileWasSeen
<1>2. file[fd].body \in {NoPart, file[fd].head} /\ fd \in Inodes
  BY DEF CallInv, WrittenInOrder
<1>3. Valid \subseteq Versions /\ NoPart \notin Versions
      /\ "Key" \notin Versions /\ "DatabaseIntegrity" \notin Versions
  BY HostAssumption
<1>4. CASE head \notin Valid
  BY <1>1, <1>3, <1>4 DEF Decrypt, HeadWasSeen
<1>5. CASE head \in Valid /\ KeyOf[head] # secret
  BY <1>1, <1>3, <1>5 DEF Decrypt, HeadWasSeen
<1>6. CASE head \in Valid /\ KeyOf[head] = secret /\ file[fd].body # head
  <2>1. "DatabaseCorrupt" \in possible
    <3>1. CASE file[fd].head = head
      BY <1>1, <1>6, <3>1 DEF Contract!Judged
    <3>2. CASE file[fd].head # head
      BY <1>1, <1>2, <1>6, <3>2 DEF HeadWasSeen
    <3>3. QED
      BY <3>1, <3>2
  <2>2. QED
    BY <1>3, <1>6, <2>1 DEF Decrypt
<1>7. CASE head \in Valid /\ KeyOf[head] = secret /\ file[fd].body = head
  <2>1. file[fd].head = head
    BY <1>2, <1>3, <1>7
  <2>2. head \in possible
    BY <1>1, <1>7, <2>1 DEF Contract!Judged
  <2>3. QED
    BY <1>3, <1>7, <2>2 DEF Decrypt
<1>8. QED
  BY <1>4, <1>5, <1>6, <1>7

=============================================================================
