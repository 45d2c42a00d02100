--------------------------- MODULE CsLookupProofs ---------------------------
(***************************************************************************)
(* That `Database.Lookup` keeps LookupContract on databases whose groups   *)
(* have unique names side by side, and that it goes the way of `lookup` of *)
(* the Rust crate on every database, provided that the two case mappings   *)
(* tell the same titles apart.                                             *)
(***************************************************************************)
EXTENDS CsLookup, LookupCallProofs

\* Nothing that is looked for is empty, so a node without a title, which
\* reads as "", is not found.
LEMMA NamelessIsNotFound ==
    ASSUME NEW s \in Titles \ {""}, NEW n, db.title[n] = NoTitle
    PROVE  ~Equals(Name(n), s)
BY CsLookupAssumption DEF Equals, Name

\* The nodes the code finds are those that the contract calls named.
LEMMA FoundIsNamed ==
    ASSUME TypeOK, NEW g \in Nodes, NEW k, NEW s \in Titles \ {""}
    PROVE  Where(g, k, s) = Named(g, k, s)
<1>1. \A j \in 1..Len(db.children[g]) :
        Contract!ChildNamed(db, Fold, g, k, s, db.children[g][j])
            <=> /\ db.kind[db.children[g][j]] = k
                /\ Equals(Name(db.children[g][j]), s)
  BY NamelessIsNotFound DEF Contract!ChildNamed, Equals, Name
<1>2. QED
  BY <1>1 DEF Where, Named

\* What parse makes of a path that is not refused.
LEMMA ParsedTypes ==
    ASSUME TypeOK, pc = "parse"
    PROVE  LET segments == [i \in 1..Len(path) |-> Trim[path[i]]]
               groups   == [i \in 1..(Len(path) - 1) |-> segments[i]]
           IN  /\ groups \in Seq(Titles) /\ Len(groups) = Len(path) - 1
               /\ segments[Len(path)] \in Titles
               /\ \A i \in 1..(Len(path) - 1) : groups[i] = Trim[path[i]]
               /\ segments[Len(path)] = Trim[path[Len(path)]]
<1> DEFINE segments == [i \in 1..Len(path) |-> Trim[path[i]]]
           groups   == [i \in 1..(Len(path) - 1) |-> segments[i]]
<1>1. Len(path) - 1 \in Nat /\ Len(path) \in 1..Len(path)
  BY PathType
<1>2. \A i \in 1..(Len(path) - 1) :
        segments[i] = Trim[path[i]] /\ segments[i] \in Titles
  BY PathType
<1>3. groups \in Seq(Titles) /\ Len(groups) = Len(path) - 1
  BY <1>1, <1>2
<1>4. QED
  BY <1>1, <1>2, <1>3, PathType

----------------------------------------------------------------------------
(* The inductive invariant.                                                 *)

\* parse refuses exactly the malformed paths.
LEMMA InvalidIsMalformed ==
    ASSUME TypeOK, pc = "parse"
    PROVE  IsInvalid([i \in 1..Len(path) |-> Trim[path[i]]])
            <=> Contract!Malformed(path)
<1> DEFINE segments == [i \in 1..Len(path) |-> Trim[path[i]]]
<1>1. /\ Len(segments) = Len(path) /\ segments[1] = Trim[path[1]]
      /\ \A i \in 1..Len(path) : segments[i] = Trim[path[i]]
  BY PathType
<1>2. (\E i \in 1..Len(segments) : segments[i] = "")
        <=> \E i \in 1..Len(path) : Trim[path[i]] = ""
  BY <1>1
<1>3. Equals(segments[1], "root") <=> Trim[path[1]] \in RootNames
  <2>1. 1 \in 1..Len(path)
    BY PathType
  <2>2. Trim[path[1]] \in Titles
    BY <2>1, PathType
  <2>3. QED
    BY <1>1, <2>2, CsLookupAssumption DEF Equals
<1>4. Len(segments) < 2 <=> Len(path) < 2
  BY <1>1
<1>5. QED
  BY <1>2, <1>3, <1>4, Zenon DEF IsInvalid, Contract!Malformed

\* What the walk looks for next is what the contract calls named.
LEMMA NextIsNamed ==
    ASSUME Inv, pc = "walk"
    PROVE  /\ walked < Len(parsed.groups) =>
                Where(current, "group", parsed.groups[walked + 1])
                    = Named(current, "group", Trim[path[walked + 1]])
           /\ Where(current, "entry", parsed.title)
                = Named(current, "entry", Trim[path[Len(path)]])
<1>1. CallInv /\ TypeOK
  BY DEF Inv, CallInv
<1>2. /\ current \in Nodes /\ Len(path) \in 1..Len(path)
      /\ \A i \in 1..Len(path) : Trim[path[i]] \in Titles \ {""}
  <2>1. \A i \in 1..Len(path) : Trim[path[i]] # ""
    BY <1>1 DEF CallInv, PathIsSplit, Contract!Malformed
  <2>2. /\ current \in Nodes /\ Len(path) \in Nat /\ Len(path) \in 1..Len(path)
        /\ \A i \in 1..Len(path) : Trim[path[i]] \in Titles
    BY <1>1, WalkFacts
  <2>3. QED
    BY <2>1, <2>2
<1>3. walked < Len(parsed.groups) => /\ walked + 1 \in 1..(Len(path) - 1)
                                     /\ walked + 1 \in 1..Len(path)
  BY <1>1, WalkFacts
<1>4. walked < Len(parsed.groups) =>
        parsed.groups[walked + 1] = Trim[path[walked + 1]]
  BY <1>3 DEF Inv, PathIsParsed
<1>5. parsed.title = Trim[path[Len(path)]]
  BY DEF Inv, PathIsParsed
<1>6. QED
  BY <1>1, <1>2, <1>3, <1>4, <1>5, FoundIsNamed

LEMMA StepInv ==
    ASSUME Inv, [Next]_vars
    PROVE  Inv'
<1>1. CallInv /\ TypeOK
  BY DEF Inv, CallInv
<1>2. CASE \E p \in Paths : Call(p)
  BY <1>1, <1>2, CallKeepsInv DEF Call, Inv, PathIsParsed
<1>3. CASE Parse
  <2> DEFINE segments == [i \in 1..Len(path) |-> Trim[path[i]]]
             groups   == [i \in 1..(Len(path) - 1) |-> segments[i]]
             title    == segments[Len(path)]
  <2>1. pc = "parse"
    BY <1>3 DEF Parse
  <2>2. CASE Finish("InvalidPath")
    BY <1>1, <2>1, <2>2, ErrorKeepsInv DEF Finish, Inv, PathIsParsed
  <2>3. CASE ~IsInvalid(segments) /\ Walk(groups, title)
    <3>1. CallInv'
      BY <1>1, <2>1, <2>3, ParsedTypes, InvalidIsMalformed, WalkKeepsInv
    <3>2. PathIsParsed'
      BY <1>1, <2>1, <2>3, ParsedTypes DEF Walk, PathIsParsed
    <3>3. QED
      BY <3>1, <3>2 DEF Inv
  <2>4. QED
    BY <1>3, <2>2, <2>3 DEF Parse
<1>4. CASE FirstOrDefault
  <2>1. CallInv'
    BY <1>1, <1>4, NextIsNamed, FollowKeepsInv DEF FirstOrDefault
  <2>2. QED
    BY <1>4, <2>1 DEF FirstOrDefault, Follow, Finish, Inv, PathIsParsed
<1>5. CASE Matches
  <2>1. CallInv'
    BY <1>1, <1>5, NextIsNamed, CountKeepsInv DEF Matches
  <2>2. QED
    BY <1>5, <2>1 DEF Matches, Count, Finish, Inv, PathIsParsed
<1>6. CASE UNCHANGED vars
  BY <1>1, <1>6, StutterKeepsInv DEF vars, Inv, PathIsParsed
<1>7. QED
  BY <1>2, <1>3, <1>4, <1>5, <1>6 DEF Next

\* The loop invariant of the walk, and with it that an entry returned is one
\* the path names and an ambiguity reported is one.
THEOREM Invariant == Spec => []Inv
<1>1. Init => Inv
  BY InitKeepsInv DEF Init, Inv, PathIsParsed
<1>2. Inv /\ [Next]_vars => Inv'
  BY StepInv
<1>3. QED
  BY <1>1, <1>2, PTL DEF Spec

\* The walk holds a group exactly while it is under way, never follows more
\* groups than the path has, and returns nothing but entries and errors.
THEOREM TypeCorrect == Spec => []TypeOK
<1>1. Inv => TypeOK
  BY DEF Inv, CallInv
<1>2. QED
  BY <1>1, Invariant, PTL

\* In any database, whatever names its groups have.
THEOREM AnswersAreNamed == Spec => []AnswerIsNamed
<1>1. Inv => AnswerIsNamed
  BY DEF Inv, CallInv
<1>2. QED
  BY <1>1, Invariant, PTL

----------------------------------------------------------------------------
(* The refinement.                                                          *)

LEMMA StepSimulates ==
    ASSUME Inv, GroupsUnique(db, Fold), [Next]_vars
    PROVE  [Contract!Next]_Contract!vars
<1>1. CallInv /\ TypeOK
  BY DEF Inv, CallInv
<1>2. CASE \E p \in Paths : Call(p)
  BY <1>2, CallSimulates DEF Contract!Next
<1>3. CASE Parse
  <2> DEFINE segments == [i \in 1..Len(path) |-> Trim[path[i]]]
  <2>1. pc = "parse"
    BY <1>3 DEF Parse
  <2>2. CASE IsInvalid(segments) /\ Finish("InvalidPath")
    <3>1. Contract!Answer(db, path, "InvalidPath")
      BY <1>1, <2>1, <2>2, InvalidIsMalformed DEF Contract!Answer
    <3>2. QED
      BY <2>1, <2>2, <3>1, FinishSimulates DEF Contract!Next
  <2>3. CASE ~IsInvalid(segments)
    BY <1>3, <2>3 DEF Parse, Walk, Contract!vars
  <2>4. QED
    BY <1>3, <2>2, <2>3 DEF Parse
<1>4. CASE FirstOrDefault
  BY <1>1, <1>4, NextIsNamed, FollowSimulates DEF FirstOrDefault, Contract!Next
<1>5. CASE Matches
  BY <1>1, <1>5, NextIsNamed, CountSimulates
  DEF Matches, Contract!Next
<1>6. CASE UNCHANGED vars
  BY <1>6 DEF vars, Contract!vars
<1>7. QED
  BY <1>2, <1>3, <1>4, <1>5, <1>6 DEF Next

\* In a database without groups of the same name side by side, lookup gives
\* exactly the answer the specification of paths asks for.
THEOREM LookupKeepsContract ==
    (\A t \in Databases : GroupsUnique(t, Fold)) => (Spec => KeepsContract)
<1> SUFFICES ASSUME \A t \in Databases : GroupsUnique(t, Fold)
             PROVE  Spec => KeepsContract
  OBVIOUS
<1>1. Init => Contract!Init
  BY InitSimulates
<1>2. Init => GroupsUnique(db, Fold)
  BY DEF Init
<1>3. GroupsUnique(db, Fold) /\ [Next]_vars => GroupsUnique(db, Fold)'
  <2>1. [Next]_vars => db' = db
    BY DEF Next, Call, Parse, Walk, FirstOrDefault, Follow, Matches, Count,
           Finish, vars
  <2>2. QED
    BY <2>1, UniqueStays
<1>4. Inv /\ GroupsUnique(db, Fold) /\ [Next]_vars
        => [Contract!Next]_Contract!vars
  BY StepSimulates
<1>5. Spec => []Inv
  BY Invariant
<1>6. QED
  BY <1>1, <1>2, <1>3, <1>4, <1>5, PTL
  DEF Spec, KeepsContract, Contract!Spec

----------------------------------------------------------------------------
(* The same walk as in Rust.                                                *)

\* The two case mappings tell the same titles apart.
SameFolding == \A s, t \in Titles : Fold[s] = Fold[t] <=> Lower[s] = Lower[t]

LEMMA SameNodes ==
    ASSUME SameFolding, TypeOK, NEW g \in Nodes, NEW k,
           NEW s \in Titles \ {""}
    PROVE  Where(g, k, s) = Rust!MatchingChildren(g, k, Lower[s])
<1>1. \A j \in 1..Len(db.children[g]) :
        Equals(Name(db.children[g][j]), s)
            <=> Rust!TitleMatches(db.children[g][j], Lower[s])
  <2>1. ASSUME NEW j \in 1..Len(db.children[g])
        PROVE  Equals(Name(db.children[g][j]), s)
                <=> Rust!TitleMatches(db.children[g][j], Lower[s])
    <3> DEFINE n == db.children[g][j]
    <3>1. n \in Nodes /\ db.title[n] \in Titles \cup {NoTitle}
      BY ChildType DEF TypeOK, WellFormed, Trees
    <3>2. CASE db.title[n] = NoTitle
      BY <3>2, NamelessIsNotFound DEF Rust!TitleMatches
    <3>3. CASE db.title[n] # NoTitle
      BY <3>1, <3>3 DEF SameFolding, Equals, Name, Rust!TitleMatches
    <3>4. QED
      BY <3>2, <3>3
  <2>2. QED
    BY <2>1
<1>2. QED
  BY <1>1 DEF Where, Rust!MatchingChildren

LEMMA SameStart == Init => Rust!Init
<1> SUFFICES ASSUME Init
             PROVE  Rust!Init
  OBVIOUS
<1>1. Lowered = Rust!NotParsed
  BY DEF Init, NotParsed, Lowered, Rust!NotParsed
<1>2. QED
  BY <1>1 DEF Init, Rust!Init

\* Every return forgets the path that was parsed.
LEMMA SameFinish ==
    ASSUME NEW r, Finish(r)
    PROVE  Rust!Finish(r)
<1>1. Lowered' = Rust!NotParsed
  BY DEF Finish, NotParsed, Lowered, Rust!NotParsed
<1>2. QED
  BY <1>1 DEF Finish, Rust!Finish

LEMMA WalkLowered ==
    ASSUME NEW groups, NEW title, title # NoTitle, Walk(groups, title)
    PROVE  Lowered' = [groups |-> [i \in 1..Len(groups) |-> Lower[groups[i]]],
                       title  |-> Lower[title]]
BY DEF Walk, Lowered

LEMMA SameParse ==
    ASSUME Inv, Parse
    PROVE  Rust!Parse
<1> DEFINE segments == [i \in 1..Len(path) |-> Trim[path[i]]]
           groups   == [i \in 1..(Len(path) - 1) |-> segments[i]]
           title    == segments[Len(path)]
           lowered  == [i \in 1..(Len(path) - 1) |-> Lower[segments[i]]]
<1>1. TypeOK /\ pc = "parse"
  BY DEF Inv, CallInv, Parse
<1>2. IsInvalid(segments) <=> Rust!IsInvalid(segments)
  <2>1. 1 \in 1..Len(path)
    BY <1>1, PathType
  <2>2. Trim[path[1]] \in Titles /\ segments[1] = Trim[path[1]]
    BY <1>1, <2>1, PathType
  <2>3. Equals(Trim[path[1]], "root") <=> Trim[path[1]] \in RootNames
    BY <2>2, CsLookupAssumption DEF Equals
  <2>4. Equals(segments[1], "root") <=> segments[1] \in RootNames
    BY <2>2, <2>3
  <2>5. QED
    BY <2>4, Zenon DEF IsInvalid, Rust!IsInvalid
<1>3. CASE IsInvalid(segments)
  BY <1>1, <1>2, <1>3, SameFinish DEF Parse, Rust!Parse
<1>4. CASE ~IsInvalid(segments)
  <2>1. Walk(groups, title)
    BY <1>4 DEF Parse
  <2>2. title # NoTitle
    BY <1>1, ParsedTypes, CsLookupAssumption
  <2>3. Lowered' = [groups |-> [i \in 1..Len(groups) |-> Lower[groups[i]]],
                    title  |-> Lower[title]]
    BY <2>1, <2>2, WalkLowered
  <2>4. Lowered'.groups = lowered
    <3>1. Len(groups) = Len(path) - 1
      BY <1>1, ParsedTypes
    <3>2. [i \in 1..(Len(path) - 1) |-> Lower[groups[i]]] = lowered
      OBVIOUS
    <3>3. QED
      BY <2>3, <3>1, <3>2
  <2>5. Rust!Walk(lowered, Lower[title])
    BY <2>1, <2>3, <2>4 DEF Walk, Rust!Walk
  <2>6. QED
    BY <1>1, <1>2, <1>4, <2>5 DEF Rust!Parse
<1>5. QED
  BY <1>3, <1>4

\* What the walk looks for is never empty.
LEMMA WalkLooksForNames ==
    ASSUME Inv, pc = "walk"
    PROVE  /\ TypeOK /\ current \in Nodes
           /\ Len(Lowered.groups) = Len(parsed.groups)
           /\ parsed.title \in Titles \ {""}
           /\ Lowered.title = Lower[parsed.title]
           /\ walked < Len(parsed.groups) =>
                /\ parsed.groups[walked + 1] \in Titles \ {""}
                /\ Lowered.groups[walked + 1] = Lower[parsed.groups[walked + 1]]
<1>1. CallInv /\ TypeOK
  BY DEF Inv, CallInv
<1>2. /\ current \in Nodes /\ Len(path) \in Nat /\ Len(path) \in 1..Len(path)
      /\ walked \in Nat /\ Len(parsed.groups) = Len(path) - 1
      /\ \A i \in 1..Len(path) : Trim[path[i]] \in Titles
  BY <1>1, WalkFacts
<1>3. \A i \in 1..Len(path) : Trim[path[i]] # ""
  BY <1>1 DEF CallInv, PathIsSplit, Contract!Malformed
<1>4. parsed.title \in Titles \ {""}
  BY <1>2, <1>3 DEF Inv, PathIsParsed
<1>5. Lowered.groups = [i \in 1..Len(parsed.groups) |-> Lower[parsed.groups[i]]]
  BY DEF Lowered
<1>6. Len(Lowered.groups) = Len(parsed.groups)
  BY <1>2, <1>5
<1>7. Lowered.title = Lower[parsed.title]
  BY <1>4, CsLookupAssumption DEF Lowered
<1>8. ASSUME walked < Len(parsed.groups)
      PROVE  /\ parsed.groups[walked + 1] \in Titles \ {""}
             /\ Lowered.groups[walked + 1] = Lower[parsed.groups[walked + 1]]
  <2>1. walked + 1 \in 1..(Len(path) - 1) /\ walked + 1 \in 1..Len(path)
    BY <1>2, <1>8
  <2>2. parsed.groups[walked + 1] = Trim[path[walked + 1]]
    BY <2>1 DEF Inv, PathIsParsed
  <2>3. QED
    BY <1>2, <1>3, <1>5, <2>1, <2>2
<1>9. QED
  BY <1>1, <1>2, <1>4, <1>6, <1>7, <1>8

LEMMA SameStep ==
    ASSUME Inv, SameFolding, [Next]_vars
    PROVE  [Rust!Next]_Rust!vars
<1>1. CASE \E p \in Paths : Call(p)
  BY <1>1 DEF Call, Lowered, Rust!Call, Rust!Next
<1>2. CASE Parse
  BY <1>2, SameParse DEF Rust!Next
<1>3. CASE FirstOrDefault
  <2> DEFINE found == Where(current, "group", parsed.groups[walked + 1])
  <2>1. pc = "walk" /\ walked < Len(parsed.groups) /\ Follow(found)
    BY <1>3 DEF FirstOrDefault
  <2>2. found = Rust!MatchingChildren(current, "group",
                                      Lowered.groups[walked + 1])
    BY <2>1, WalkLooksForNames, SameNodes
  <2>3. Rust!Follow(found)
    BY <2>1, SameFinish DEF Follow, Lowered, Rust!Follow
  <2>4. QED
    BY <2>1, <2>2, <2>3, WalkLooksForNames DEF Rust!FindGroup, Rust!Next
<1>4. CASE Matches
  <2> DEFINE found == Where(current, "entry", parsed.title)
  <2>1. pc = "walk" /\ walked = Len(parsed.groups) /\ Count(found)
    BY <1>4 DEF Matches
  <2>2. found = Rust!MatchingChildren(current, "entry", Lowered.title)
    BY <2>1, WalkLooksForNames, SameNodes
  <2>3. Rust!Count(found)
    BY <2>1, SameFinish DEF Count, Rust!Count
  <2>4. QED
    BY <2>1, <2>2, <2>3, WalkLooksForNames DEF Rust!MatchingEntries, Rust!Next
<1>5. CASE UNCHANGED vars
  BY <1>5 DEF vars, Lowered, Rust!vars
<1>6. QED
  BY <1>1, <1>2, <1>3, <1>4, <1>5 DEF Next

\* Wherever the two case mappings tell the same titles apart, every lookup
\* in C# goes the way of the one in Rust and ends like it, on all trees.
THEOREM LookupAgreesWithRust == SameFolding => (Spec => LibrariesAgree)
<1> SUFFICES ASSUME SameFolding
             PROVE  Spec => LibrariesAgree
  OBVIOUS
<1>1. Init => Rust!Init
  BY SameStart
<1>2. Inv /\ [Next]_vars => [Rust!Next]_Rust!vars
  BY SameStep
<1>3. Spec => []Inv
  BY Invariant
<1>4. QED
  BY <1>1, <1>2, <1>3, PTL DEF Spec, LibrariesAgree, Rust!Spec

=============================================================================
