------------------------------ MODULE MCDbTask ------------------------------
(* DbTask on three saves: two that open with one master password, the       *)
(* second with a new password of the entry, which ends in a newline, and    *)
(* one after a rotation of the master password.                             *)
EXTENDS DbTask, MCTrees

CONSTANTS v1, v2, v3, s1, s2, w1, w2, w2newline, empty

MCVersions == {v1, v2, v3}

MCKeyOf == [v \in MCVersions |-> IF v = v3 THEN s2 ELSE s1]

MCCalls == {[tool |-> "getpass", shape |-> "ok", path |-> <<"a", "b">>,
             field |-> "username"]}

MCLowerField == [f \in {"username"} |-> f]

\* A group with two entries.
Titled(t2, t3) ==
    Tree((r :> "group") @@ (n1 :> "group") @@ (n2 :> "entry") @@ (n3 :> "entry"),
         (n1 :> r) @@ (n2 :> n1) @@ (n3 :> n1),
         (r :> NoTitle) @@ (n1 :> "a") @@ (n2 :> t2) @@ (n3 :> t3))

MCTreeOf == (v1 :> Titled("b", "a")) @@ (v2 :> Titled("B", "A"))
                                     @@ (v3 :> Titled("b", NoTitle))

MCFieldsOf ==
    [v \in MCVersions |-> [n \in MCNodes |->
        [UserName |-> None, URL |-> None, Notes |-> None,
         Password |-> CASE n # n2 -> None
                        [] n = n2 /\ v = v1 -> w1
                        [] n = n2 /\ v = v2 -> w2newline
                        [] OTHER            -> w2]]]

MCCaptured == (w1 :> w1) @@ (w2 :> w2) @@ (w2newline :> w2) @@ (empty :> empty)

On(cond, head, body) == [cond |-> cond, head |-> head, body |-> body]

MCDisks == {On("ok", v, v) : v \in MCVersions}
             \cup {On("ok", v1, v2), On("no_parent", v1, v1)}

\* The constants are those of a task.
ASSUME TaskAssumption == OneCall

=============================================================================
