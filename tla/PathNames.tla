------------------------------ MODULE PathNames ------------------------------
(***************************************************************************)
(* What a path names in a database (SPEC.md, Path Lookup): every entry     *)
(* that a chain of groups of these names leads to, however many chains     *)
(* there are; the answer is the entry if there is exactly one.             *)
(***************************************************************************)
EXTENDS KeePassTree

CONSTANTS
    Pieces,         \* the texts between the slashes of a path
    Trim,           \* a piece without the white space around it
    RootNames,      \* the spellings of "root"
    Fold            \* what case-insensitive comparison compares

Malformed(p) ==
    \/ \E i \in 1..Len(p) : Trim[p[i]] = ""
    \/ Len(p) < 2
    \/ Trim[p[1]] \in RootNames

\* The last piece of a path names an entry, the others name groups.
KindAt(p, i) == IF i = Len(p) THEN "entry" ELSE "group"

\* The chains of nodes from the root that the first n pieces of p name.
Chains(t, p, n) ==
    {c \in [0..n -> Nodes] :
        /\ c[0] = Root
        /\ \A i \in 1..n :
              ChildNamed(t, Fold, c[i - 1], KindAt(p, i), Trim[p[i]], c[i])}

Matches(t, p) == {c[Len(p)] : c \in Chains(t, p, Len(p))}

Answer(t, p, r) ==
    \/ Malformed(p) /\ r = "InvalidPath"
    \/ ~Malformed(p) /\ Matches(t, p) = {} /\ r = "EntryNotFound"
    \/ ~Malformed(p) /\ r \in Nodes /\ Matches(t, p) = {r}
    \/ /\ ~Malformed(p) /\ r = "AmbiguousEntry"
       /\ \E m, n \in Matches(t, p) : m # n

=============================================================================
