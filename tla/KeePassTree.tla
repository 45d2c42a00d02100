----------------------------- MODULE KeePassTree -----------------------------
(***************************************************************************)
(* A decrypted database as the libraries see it through their KeePass      *)
(* packages: a tree of groups and entries with optional titles, the        *)
(* children of a group in an order of their own.                           *)
(***************************************************************************)
EXTENDS Naturals, Sequences

CONSTANTS Nodes, Root, Titles, NoTitle

Kinds == {"group", "entry"}

Trees == [kind     : [Nodes -> Kinds],
          title    : [Nodes -> Titles \cup {NoTitle}],
          children : [Nodes -> Seq(Nodes)]]

\* The root is a group, entries have no children, and every other node is
\* the child of at most one group, at one place.
WellFormed(t) ==
    /\ t \in Trees
    /\ t.kind[Root] = "group"
    /\ \A n \in Nodes : t.kind[n] = "entry" => t.children[n] = <<>>
    /\ \A m, n \in Nodes :
         \A j \in 1..Len(t.children[m]), k \in 1..Len(t.children[n]) :
            t.children[m][j] = t.children[n][k] => m = n /\ j = k

\* Node n is a child of group g of kind k whose title reads s, up to fold.
ChildNamed(t, fold, g, k, s, n) ==
    /\ \E j \in 1..Len(t.children[g]) : t.children[g][j] = n
    /\ t.kind[n] = k
    /\ t.title[n] # NoTitle
    /\ fold[t.title[n]] = fold[s]

\* KeePass does not enforce it: no group has two subgroups of the same name.
GroupsUnique(t, fold) ==
    \A g, m, n \in Nodes, s \in Titles :
        /\ ChildNamed(t, fold, g, "group", s, m)
        /\ ChildNamed(t, fold, g, "group", s, n)
        => m = n

=============================================================================
