----------------------------- MODULE RustLookup -----------------------------
(***************************************************************************)
(* `lookup` of the Rust crate: parse, the loop of find_group (one action   *)
(* per iteration) and the count of matching entries.  Fold is              *)
(* str::to_lowercase, which parse applies to the path once and for all.    *)
(***************************************************************************)
EXTENDS LookupCall

\* A path of white space alone is one whose only segment is empty.
IsInvalid(segments) ==
    \/ \E i \in 1..Len(segments) : segments[i] = ""
    \/ Len(segments) < 2
    \/ segments[1] \in RootNames

Parse ==
    /\ pc = "parse"
    /\ LET segments == [i \in 1..Len(path) |-> Trim[path[i]]] IN
       \/ IsInvalid(segments) /\ Finish("InvalidPath")
       \/ /\ ~IsInvalid(segments)
          /\ Walk([i \in 1..(Len(path) - 1) |-> Fold[segments[i]]],
                  Fold[segments[Len(path)]])

\* A node without a title matches nothing.
TitleMatches(n, target) ==
    /\ db.title[n] # NoTitle
    /\ Fold[db.title[n]] = target

\* The places among the children of g of the nodes of kind k titled target.
MatchingChildren(g, k, target) ==
    {j \in 1..Len(db.children[g]) :
        /\ db.kind[db.children[g][j]] = k
        /\ TitleMatches(db.children[g][j], target)}

\* Wrong on purpose: every segment is looked for below the root.
FindGroupAtRoot ==
    /\ pc = "walk"
    /\ walked < Len(parsed.groups)
    /\ LET found == MatchingChildren(Root, "group",
                                     parsed.groups[walked + 1]) IN
       \/ found = {} /\ Finish("EntryNotFound")
       \/ \E j \in found :
            /\ \A k \in found : j <= k
            /\ current' = db.children[Root][j]
            /\ walked' = walked + 1
            /\ UNCHANGED <<db, pc, path, parsed, outcome>>

\* Iterator::find takes the first subgroup that matches, and no other.
FindGroup ==
    /\ pc = "walk"
    /\ walked < Len(parsed.groups)
    /\ Follow(MatchingChildren(current, "group", parsed.groups[walked + 1]))

\* Wrong on purpose: the first entry is taken, as the first group is.
FirstEntry ==
    /\ pc = "walk"
    /\ walked = Len(parsed.groups)
    /\ LET found == MatchingChildren(current, "entry", parsed.title) IN
       \/ found = {} /\ Finish("EntryNotFound")
       \/ \E j \in found : /\ \A k \in found : j <= k
                            /\ Finish(db.children[current][j])

MatchingEntries ==
    /\ pc = "walk"
    /\ walked = Len(parsed.groups)
    /\ Count(MatchingChildren(current, "entry", parsed.title))

Next == (\E p \in Paths : Call(p)) \/ Parse \/ FindGroup \/ MatchingEntries

Spec == Init /\ [][Next]_vars

----------------------------------------------------------------------------
\* The walk has the path it was given, trimmed and lowercased, before it.
PathIsParsed ==
    pc = "walk" =>
        /\ \A i \in 1..(Len(path) - 1) :
                parsed.groups[i] = Fold[Trim[path[i]]]
        /\ parsed.title = Fold[Trim[path[Len(path)]]]

\* The inductive invariant behind KeepsContract.
Inv == CallInv /\ PathIsParsed

=============================================================================
