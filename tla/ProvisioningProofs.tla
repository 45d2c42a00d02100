------------------------- MODULE ProvisioningProofs -------------------------
(* What provision-credential.ps1 promises, for every password and every     *)
(* order of failures, stops and new runs.                                   *)
EXTENDS Provisioning, TLAPS

\* A text is chomped to a text, and its word is left as it is.
LEMMA Chomped ==
    ASSUME NEW text \in Texts
    PROVE  Chomp(text) \in Texts /\ Chomp(text).word = text.word
  BY StoreAssumption DEF Texts, Chomp

\* What is left of a password after overwriting is a text.
LEMMA TextsOfTheScript == EmptyText \in Texts /\ Zeroed \in Texts
  BY StoreAssumption DEF Texts, EmptyText, Zeroed

LEMMA InitInv == Init => Inv
<1> SUFFICES ASSUME Init
             PROVE  Inv
    OBVIOUS
<1>1. TypeOK
    BY TextsOfTheScript DEF Init, TypeOK
<1>2. given.word # Zeros
    BY StoreAssumption DEF Init, EmptyText
<1> QED
    BY <1>1, <1>2, ScriptAssumption DEF Init, Inv, PlaintextIsGone

\* No step of the script or of its surroundings breaks the invariant.
LEMMA StepInv == Inv /\ [Next]_vars => Inv'
<1> SUFFICES ASSUME Inv, [Next]_vars
             PROVE  Inv'
    OBVIOUS
<1> USE TextsOfTheScript, Chomped, StoreAssumption, ScriptAssumption
<1> USE DEF Inv, TypeOK, PlaintextIsGone
<1>1. ASSUME NEW text \in Texts, text.word # Zeros, PutFile(text)
      PROVE  Inv'
    BY <1>1 DEF PutFile
<1>2. CASE TakeFileBack
    BY <1>2 DEF TakeFileBack
<1>3. CASE ChangeVault
    BY <1>3 DEF ChangeVault
<1>4. CASE Start
    BY <1>4 DEF Start
<1>5. CASE TestPath
    BY <1>5 DEF TestPath, Fail
<1>6. CASE Read
    BY <1>6 DEF Read, Fail
<1>7. CASE Write
  <2>1. CASE Fail /\ pc = "write"
    BY <2>1 DEF Fail
  <2>2. CASE pc = "write" /\ vault' = Stored(pw) /\ pc' = "confirm" /\
             UNCHANGED <<file, pw, exit, warned, given, unshredded>>
    <3>1. Stored(pw) \in Texts
      BY <2>2 DEF Stored
    <3>2. ~unshredded => Stored(pw) = Chomp(given)
      BY <2>2 DEF Stored
    <3> QED
      BY <2>2, <3>1, <3>2
  <2> QED
    BY <1>7, <2>1, <2>2 DEF Write
<1>8. CASE Confirm
    BY <1>8 DEF Confirm, Fail
<1>9. CASE TestShred
    BY <1>9 DEF TestShred, Exit
<1>10. CASE Overwrite
  <2>1. CASE pc' = "remove"
    BY <1>10, <2>1 DEF Overwrite, Warn, Exit
  <2>2. CASE pc' # "remove"
    BY <1>10, <2>2 DEF Overwrite, Warn, Exit
  <2> QED
    BY <2>1, <2>2
<1>11. CASE Remove
  <2>1. CASE UNCHANGED warned
    BY <1>11, <2>1 DEF Remove, Warn, Exit
  <2>2. CASE Warn /\ pc = "remove" /\ file' = NoFile /\ UNCHANGED unshredded
    BY <2>2 DEF Warn, Exit
  <2>3. CASE Warn /\ pc = "remove" /\ unshredded' = TRUE /\ UNCHANGED file
    BY <2>3 DEF Warn, Exit
  <2> QED
    BY <1>11, <2>1, <2>2, <2>3 DEF Remove
<1>12. CASE Stop
    BY <1>12 DEF Stop
<1>13. CASE UNCHANGED vars
    BY <1>13 DEF vars
<1> QED
    BY <1>1, <1>2, <1>3, <1>4, <1>5, <1>6, <1>7, <1>8, <1>9, <1>10, <1>11,
       <1>12, <1>13 DEF Next, Step

\* Inv at every step of every behaviour.
THEOREM Invariant == Spec => []Inv
  BY InitInv, StepInv, PTL DEF Spec

\* The file, $pw and the vault hold texts at every step, and a run ends with
\* one of its two exit codes.
THEOREM TypeCorrect == Spec => []TypeOK
<1>1. Inv => TypeOK
    BY DEF Inv
<1> QED
    BY Invariant, <1>1, PTL

\* No run that ends leaves the plaintext behind without a warning.
THEOREM PlaintextGone == Spec => []PlaintextIsGone
<1>1. Inv => PlaintextIsGone
    BY DEF Inv
<1> QED
    BY Invariant, <1>1, PTL

\* A run that reports success has not let any reader see another secret.
THEOREM ReadersServed == Spec => []ReadersGetThePassword
<1>1. ASSUME Inv, pc = "idle", exit = 0, ~unshredded, vault # NotText
      PROVE  /\ RustMasterPassword(vault) \in {Chomp(given), SecretNotFound}
             /\ CsMasterPassword(vault) \in {Chomp(given), SecretNotFound}
  <2>1. CASE vault = Absent
    BY <2>1, StoreAssumption DEF RustMasterPassword, CsMasterPassword
  <2>2. CASE vault = Chomp(given)
    <3>1. vault \in Texts
      BY <1>1, <2>2, Chomped DEF Inv, TypeOK
    <3>2. vault \notin {Absent, NotText, Failed}
      BY <3>1, StoreAssumption
    <3> QED
      BY <2>2, <3>2 DEF RustMasterPassword, CsMasterPassword
  <2> QED
    BY <1>1, <2>1, <2>2 DEF Inv
<1>2. Inv => ReadersGetThePassword
    BY <1>1 DEF ReadersGetThePassword
<1> QED
    BY Invariant, <1>2, PTL

=============================================================================
