----------------------------- MODULE MCRustOpen -----------------------------
(* Instances of RustOpen for TLC.                                           *)
EXTENDS RustOpen, TLC

CONSTANTS s1, s2, v1, v2, vBad

MCKeyOf == [v \in Versions |-> IF v = v2 THEN s2 ELSE s1]

MCEnv == [cd |-> "set", kd |-> "unset"]
MCKey == <<"k">>


\* The files are interchangeable.
MCSymmetry == Permutations(Inodes)

=============================================================================
