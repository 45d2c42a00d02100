------------------------------- MODULE MCTool -------------------------------
(* Tool on three saves of a database, of which two open with one password,  *)
(* and on paths that name an entry, none, or two, depending on the save.    *)
EXTENDS Tool, MCTrees

CONSTANTS v1, v2, v3, vBad, s1, s2, w1, w2, w3, w4

MCVersions == {v1, v2, v3, vBad}

MCKeyOf == [v \in MCVersions |-> IF v = v3 THEN s2 ELSE s1]

\* A group with two entries, titled like this.
Group(t2, t3) ==
    Tree((r :> "group") @@ (n1 :> "group") @@ (n2 :> "entry") @@ (n3 :> "entry"),
         (n1 :> r) @@ (n2 :> n1) @@ (n3 :> n1),
         (r :> NoTitle) @@ (n1 :> "a") @@ (n2 :> t2) @@ (n3 :> t3))

MCTreeOf == (v1 :> Group("b", "A")) @@ (v2 :> Group("B", "a"))
                                    @@ (v3 :> Group("a", "A"))

Filled(user, password, url) ==
    [UserName |-> user, Password |-> password, URL |-> url, Notes |-> None]

MCFieldsOf ==
    [v \in {v1, v2, v3} |-> [n \in MCNodes |->
        CASE v = v1 /\ n = n2 -> Filled(w1, w2, w3)
          [] v = v2 /\ n = n2 -> Filled(w2, w1, w4)
          [] v = v1 /\ n = n3 -> Filled(None, w1, w3)
          [] OTHER            -> Filled(w2, None, w4)]]

MCLowerField == [f \in {"Password", "username", "notes", "pin"} |->
                    IF f = "Password" THEN "password" ELSE f]

Call(tool, path, field) ==
    [tool |-> tool, shape |-> "ok", path |-> path, field |-> field]

MCCalls ==
    {Call("getpass", p, "pin") : p \in {<<"a", "b">>, <<" A ", "a">>}}
    \cup {Call("lookup", p, "pin") : p \in {<<"a", "b">>, <<"a", "a">>, <<"a">>}}
    \cup {Call("getfield", <<"a", "b">>, f) : f \in DOMAIN MCLowerField}
    \cup {[Call("getpass", <<"a", "b">>, "pin") EXCEPT !.shape = x] :
                x \in {"count", "not_unicode"}}

On(cond, head, body) == [cond |-> cond, head |-> head, body |-> body]

MCDisks == {On("ok", v, v) : v \in {v1, v2, v3}}
             \cup {On("ok", v1, vBad), On("no_file", v1, v1),
                   On("io_error", v1, v1)}

=============================================================================
