---------------------------- MODULE MCRustLookup ----------------------------
(* RustLookup on the trees of MCTrees.                                      *)
EXTENDS RustLookup, MCTrees

=============================================================================
