------------------------------ MODULE CsLookup ------------------------------
(***************************************************************************)
(* `Database.Lookup` of the C# library on a handle that is not disposed.   *)
(* Fold is the upper case of StringComparison.OrdinalIgnoreCase, which     *)
(* each comparison applies to both of its sides.                           *)
(***************************************************************************)
EXTENDS LookupCall

CONSTANT Lower      \* str::to_lowercase, what the Rust crate compares by

\* Upper case maps one character to one: nothing but "" reads as "".
ASSUME CsLookupAssumption ==
    /\ {"", "root"} \subseteq Titles
    /\ NoTitle \notin Titles
    /\ \A t \in Titles : Fold[t] = Fold[""] => t = ""
    /\ RootNames = {t \in Titles : Fold[t] = Fold["root"]}
    /\ Lower \in [Titles -> Titles]

\* Wrong on purpose: a title that is missing or empty equals any.
EqualsOrUntitled(s, t) == s = "" \/ Fold[s] = Fold[t]

Equals(s, t) == Fold[s] = Fold[t]

IsInvalid(segments) ==
    \/ \E i \in 1..Len(segments) : segments[i] = ""
    \/ Len(segments) < 2
    \/ Equals(segments[1], "root")

\* Wrong on purpose: the range of the groups starts at one, segments[1..^1].
ParseTail ==
    /\ pc = "parse"
    /\ LET segments == [i \in 1..Len(path) |-> Trim[path[i]]] IN
       \/ IsInvalid(segments) /\ Finish("InvalidPath")
       \/ /\ ~IsInvalid(segments)
          /\ Walk([i \in 1..(Len(path) - 2) |-> segments[i + 1]],
                  segments[Len(path)])

Parse ==
    /\ pc = "parse"
    /\ LET segments == [i \in 1..Len(path) |-> Trim[path[i]]] IN
       \/ IsInvalid(segments) /\ Finish("InvalidPath")
       \/ /\ ~IsInvalid(segments)
          /\ Walk([i \in 1..(Len(path) - 1) |-> segments[i]],
                  segments[Len(path)])

\* PwGroup.Name, and ReadSafe of the title of an entry: "" if there is none.
Name(n) == IF db.title[n] = NoTitle THEN "" ELSE db.title[n]

\* The places of the Groups, or Entries, of g with this name.
Where(g, k, name) ==
    {j \in 1..Len(db.children[g]) :
        /\ db.kind[db.children[g][j]] = k
        /\ Equals(Name(db.children[g][j]), name)}

\* Wrong on purpose: LastOrDefault.
LastGroup ==
    /\ pc = "walk"
    /\ walked < Len(parsed.groups)
    /\ LET found == Where(current, "group", parsed.groups[walked + 1]) IN
       \/ found = {} /\ Finish("EntryNotFound")
       \/ \E j \in found :
            /\ \A k \in found : j >= k
            /\ current' = db.children[current][j]
            /\ walked' = walked + 1
            /\ UNCHANGED <<db, pc, path, parsed, outcome>>

FirstOrDefault ==
    /\ pc = "walk"
    /\ walked < Len(parsed.groups)
    /\ Follow(Where(current, "group", parsed.groups[walked + 1]))

Matches ==
    /\ pc = "walk"
    /\ walked = Len(parsed.groups)
    /\ Count(Where(current, "entry", parsed.title))

Next == (\E p \in Paths : Call(p)) \/ Parse \/ FirstOrDefault \/ Matches

Spec == Init /\ [][Next]_vars

----------------------------------------------------------------------------
\* The walk has the path it was given, trimmed, before it.
PathIsParsed ==
    pc = "walk" =>
        /\ \A i \in 1..(Len(path) - 1) : parsed.groups[i] = Trim[path[i]]
        /\ parsed.title = Trim[path[Len(path)]]

\* The inductive invariant behind KeepsContract.
Inv == CallInv /\ PathIsParsed

\* What Rust's parse makes of the same path.
Lowered ==
    [groups |-> [i \in 1..Len(parsed.groups) |-> Lower[parsed.groups[i]]],
     title  |-> IF parsed.title = NoTitle THEN NoTitle
                                          ELSE Lower[parsed.title]]

Rust == INSTANCE RustLookup WITH Fold <- Lower, parsed <- Lowered

\* Both libraries implement the same behaviour (csharp/README.md): every
\* lookup in C# goes the way of the one in Rust and ends like it, also in a
\* database in which neither answers for all the entries a path names.
LibrariesAgree == Rust!Spec

=============================================================================
