------------------------------- MODULE MCTrees -------------------------------
(* Every tree of a root and the nodes of Order below it: each node hangs    *)
(* under an earlier group, siblings in this order, so that subgroups and    *)
(* entries of the same name, side by side or apart, all occur.              *)
EXTENDS KeePassTree, SequencesExt

CONSTANTS r, n1, n2, n3

Order == <<n1, n2, n3>>

MCNodes == {r} \cup ToSet(Order)

MCTitles == {"", "a", "A", "b", "B", "root", "Root", "ROOT"}

\* The titles the nodes of the trees have.
Names == {"a", "A", "b", NoTitle}

MCPieces == {"a", " A ", "b", " ", "Root"}

MCTrim == [p \in MCPieces |-> CASE p = " A " -> "A" [] p = " " -> "" [] OTHER -> p]

MCLower == [t \in MCTitles |->
                CASE t = "A"                 -> "a"
                  [] t = "B"                 -> "b"
                  [] t \in {"Root", "ROOT"} -> "root"
                  [] OTHER                   -> t]

MCUpper == [t \in MCTitles |->
                CASE t = "a"                 -> "A"
                  [] t = "b"                 -> "B"
                  [] t \in {"root", "Root"} -> "ROOT"
                  [] OTHER                   -> t]

Tree(kind, parent, title) ==
    [kind     |-> kind,
     title    |-> title,
     children |-> [n \in MCNodes |->
                    SelectSeq(Order, LAMBDA m : parent[m] = n)]]

Earlier(m) == {r} \cup {Order[i] : i \in {j \in 1..Len(Order) :
                            \E k \in 1..Len(Order) : Order[k] = m /\ j < k}}

\* The trees over these titles.
TreesOver(names) ==
    LET kinds   == {k \in [MCNodes -> Kinds] : k[r] = "group"}
        parents == {f \in [ToSet(Order) -> MCNodes] :
                        \A m \in ToSet(Order) : f[m] \in Earlier(m)}
        titles  == {t \in [MCNodes -> names] : t[r] = NoTitle}
    IN  {Tree(x[1], x[2], x[3]) :
            x \in {y \in kinds \X parents \X titles :
                    \A m \in ToSet(Order) : y[1][y[2][m]] = "group"}}

MCDatabases == TreesOver(Names)

MCUnique == {t \in MCDatabases : GroupsUnique(t, MCLower)}

\* Well-formed paths over the names, and each way to be malformed.
MCPaths ==
    [1..2 -> {"a", " A ", "b"}] \cup [1..3 -> {"a", "b"}]
        \cup {<<" A ", "a", "b">>, <<" ">>, <<"a">>, <<"a", " ">>,
              <<" ", "a">>, <<"Root", "a">>, <<"a", "Root">>}

=============================================================================
