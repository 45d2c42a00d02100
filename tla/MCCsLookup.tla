----------------------------- MODULE MCCsLookup -----------------------------
(* CsLookup on the trees of MCTrees.                                        *)
EXTENDS CsLookup, MCTrees

=============================================================================
