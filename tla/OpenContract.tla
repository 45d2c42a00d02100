---------------------------- MODULE OpenContract ----------------------------
(***************************************************************************)
(* What `open` promises its caller (SPEC.md and ERRORS.md): the call reads *)
(* the stored master password at one instant, and what it returns is what  *)
(* an open that took no time, made with that password at some instant      *)
(* before the return, would have returned.  A database handed out is       *)
(* therefore one complete save that was at the path during the call, under *)
(* that password, and an error names a condition that really held.         *)
(***************************************************************************)
EXTENDS OpenPromise

CONSTANT NoOutcome

VARIABLES
    stored,     \* what the secret store holds for the configured key
    disk,       \* the database path: its condition and the parts of its file
    running,    \* is a call under way?
    secret,     \* the password the call was given by the store
    possible,   \* what an instantaneous open would have returned so far
    outcome     \* what the last call returned

vars == <<stored, disk, running, secret, possible, outcome>>

Init ==
    /\ running = FALSE
    /\ possible = {}
    /\ outcome = NoOutcome

\* The store has the password: the call goes on to the database.
Begin ==
    /\ ~running
    /\ stored \in Secrets
    /\ running' = TRUE
    /\ secret' = stored
    /\ possible' = Promise(stored, disk)
    /\ UNCHANGED <<stored, disk, outcome>>

\* Without a password the database is not looked at, whatever its state.
Refuse ==
    /\ ~running
    /\ stored \notin Secrets
    /\ outcome' = SecretError(stored)
    /\ UNCHANGED <<stored, disk, running, secret, possible>>

\* The machine changes at any time, also under a running call.
Change ==
    /\ possible' = IF running THEN possible \cup Promise(secret, disk')
                              ELSE possible
    /\ UNCHANGED <<running, secret, outcome>>

Return ==
    /\ running
    /\ running' = FALSE
    /\ outcome' \in possible
    /\ possible' = {}
    /\ UNCHANGED <<stored, disk>>

Next == Begin \/ Refuse \/ Change \/ Return

Spec == Init /\ [][Next]_vars

=============================================================================
