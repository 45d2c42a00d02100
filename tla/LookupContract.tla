--------------------------- MODULE LookupContract ---------------------------
(***************************************************************************)
(* What `lookup` promises: whatever is asked on a handle, and whenever it  *)
(* returns, the answer is the one PathNames gives for the path.            *)
(***************************************************************************)
EXTENDS PathNames

CONSTANT NoOutcome

VARIABLES db, path, running, outcome

vars == <<db, path, running, outcome>>

Init == running = FALSE /\ outcome = NoOutcome

Ask ==
    /\ ~running
    /\ running' = TRUE
    /\ path' \in Seq(Pieces)
    /\ UNCHANGED <<db, outcome>>

Return ==
    /\ running
    /\ running' = FALSE
    /\ Answer(db, path, outcome')
    /\ UNCHANGED <<db, path>>

Next == Ask \/ Return

Spec == Init /\ [][Next]_vars

=============================================================================
