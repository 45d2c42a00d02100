---------------------------- MODULE MCStoreParity ----------------------------
(* Every key of up to three pieces.                                         *)
EXTENDS StoreParity, TLC

CONSTANTS sSystemd, sOverride, sEtc, sCwd

MCKeys == UNION {[1..n -> KeyPieces] : n \in 1..3}

MCKeyOf == [v \in Versions |-> sEtc]

MCSecretIn == "systemd" :> sSystemd @@ "override" :> sOverride
                @@ "etc" :> sEtc @@ "cwd" :> sCwd

ASSUME ParityAssumption == TwoStores

=============================================================================
