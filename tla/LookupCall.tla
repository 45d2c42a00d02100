----------------------------- MODULE LookupCall -----------------------------
(***************************************************************************)
(* The frame of `lookup`, in either library, on an open database handle:   *)
(* any number of lookups, one after the other, each a walk from the root   *)
(* followed by a count.  RustLookup and CsLookup add how each library      *)
(* parses a path and compares titles.                                      *)
(***************************************************************************)
EXTENDS KeePassTree

CONSTANTS
    Databases,      \* the decrypted trees
    Paths,          \* the paths asked for, as the pieces between slashes
    Pieces,
    Trim,           \* a piece without the white space around it
    Fold,           \* the case mapping the library compares titles by
    RootNames,      \* what its comparison with "root" accepts
    NoNode,
    NoOutcome

ASSUME LookupAssumption ==
    /\ Root \in Nodes
    /\ NoNode \notin Nodes
    /\ Paths \subseteq Seq(Pieces) \ {<<>>}
    /\ Trim \in [Pieces -> Titles]
    /\ Fold \in [Titles -> Titles]
    /\ \A t \in Databases : WellFormed(t)
    /\ Nodes \cap {"InvalidPath", "EntryNotFound", "AmbiguousEntry"} = {}
    /\ NoOutcome \notin Nodes \cup {"AmbiguousEntry"}

VARIABLES
    db,         \* the tree of the handle
    pc,         \* what the lookup does next
    path,       \* the path it was called with
    parsed,     \* ParsedPath: the groups and the title
    walked,     \* how many of the groups the loop has followed
    current,    \* the group it has come to
    outcome     \* what the last lookup returned

vars == <<db, pc, path, parsed, walked, current, outcome>>

Contract == INSTANCE LookupContract WITH running <- (pc # "idle")

NotParsed == [groups |-> <<>>, title |-> NoTitle]

Outcomes == Nodes \cup {"InvalidPath", "EntryNotFound", "AmbiguousEntry"}

\* Types; the walk is at a group exactly while it is under way.
TypeOK ==
    /\ WellFormed(db)
    /\ pc \in {"idle", "parse", "walk"}
    /\ path \in Paths \cup {<<>>}
    /\ parsed \in [groups : Seq(Titles), title : Titles \cup {NoTitle}]
    /\ walked \in 0..Len(parsed.groups)
    /\ current \in Nodes \cup {NoNode}
    /\ outcome \in Outcomes \cup {NoOutcome}
    /\ current = NoNode <=> pc # "walk"
    /\ path = <<>> => pc = "idle" /\ outcome = NoOutcome

Init ==
    /\ db \in Databases
    /\ pc = "idle"
    /\ path = <<>>
    /\ parsed = NotParsed
    /\ walked = 0
    /\ current = NoNode
    /\ outcome = NoOutcome

Call(p) ==
    /\ pc = "idle"
    /\ path' = p
    /\ pc' = "parse"
    /\ UNCHANGED <<db, parsed, walked, current, outcome>>

Finish(result) ==
    /\ outcome' = result
    /\ pc' = "idle"
    /\ parsed' = NotParsed
    /\ walked' = 0
    /\ current' = NoNode
    /\ UNCHANGED <<db, path>>

\* The walk starts at the root.
Walk(groups, title) ==
    /\ parsed' = [groups |-> groups, title |-> title]
    /\ pc' = "walk"
    /\ walked' = 0
    /\ current' = Root
    /\ UNCHANGED <<db, path, outcome>>

\* One iteration of the walk, found being the places of the subgroups of the
\* next name: it commits to the first.
Follow(found) ==
    \/ found = {} /\ Finish("EntryNotFound")
    \/ \E j \in found :
        /\ \A k \in found : j <= k
        /\ current' = db.children[current][j]
        /\ walked' = walked + 1
        /\ UNCHANGED <<db, pc, path, parsed, outcome>>

\* The count of the entries found in the last group.
Count(found) ==
    \/ found = {} /\ Finish("EntryNotFound")
    \/ \E j \in found : found = {j} /\ Finish(db.children[current][j])
    \/ \E j, k \in found : j # k /\ Finish("AmbiguousEntry")

----------------------------------------------------------------------------
\* `lookup` keeps the promise of LookupContract: its one walk, which commits
\* to the first group of each name, answers for every chain of such groups.
KeepsContract == Contract!Spec

\* Whatever the shape of the database: an entry handed out is one the path
\* names, and a path called ambiguous names two entries at least.
AnswerIsNamed ==
    /\ outcome \in Nodes /\ pc = "idle"
            => outcome \in Contract!Matches(db, path)
    /\ outcome = "AmbiguousEntry" /\ pc = "idle"
            => \E m, n \in Contract!Matches(db, path) : m # n

\* A malformed path is never walked, and a walk has a group for each piece
\* but the last.
PathIsSplit ==
    pc = "walk" =>
        /\ ~Contract!Malformed(path)
        /\ Len(parsed.groups) = Len(path) - 1

\* The group it has come to is one the pieces followed so far lead to, and
\* the only one if no two groups side by side have the same name.
WalkIsAChain ==
    pc = "walk" =>
        \E c \in Contract!Chains(db, path, walked) : c[walked] = current

WalkIsTheChain ==
    pc = "walk" /\ GroupsUnique(db, Fold) =>
        \A c \in Contract!Chains(db, path, walked) : c[walked] = current

\* The loop invariant of the walk with the promise on what is returned.
CallInv ==
    /\ TypeOK
    /\ PathIsSplit
    /\ WalkIsAChain
    /\ WalkIsTheChain
    /\ AnswerIsNamed

=============================================================================
