-------------------------- MODULE RustLookupProofs --------------------------
(***************************************************************************)
(* That `lookup` keeps LookupContract on databases whose groups have       *)
(* unique names side by side, and what it promises on any other: theorems  *)
(* for every tree, of any depth and width, and every path.                 *)
(***************************************************************************)
EXTENDS RustLookup, LookupCallProofs

\* The nodes the code finds are those that the contract calls named.
LEMMA FoundIsNamed ==
    ASSUME TypeOK, NEW g \in Nodes, NEW k, NEW s \in Titles
    PROVE  MatchingChildren(g, k, Fold[s]) = Named(g, k, s)
<1>1. \A j \in 1..Len(db.children[g]) :
        Contract!ChildNamed(db, Fold, g, k, s, db.children[g][j])
            <=> /\ db.kind[db.children[g][j]] = k
                /\ TitleMatches(db.children[g][j], Fold[s])
  BY DEF Contract!ChildNamed, TitleMatches
<1>2. QED
  BY <1>1 DEF MatchingChildren, Named

\* What parse makes of a path that is not refused.
LEMMA ParsedTypes ==
    ASSUME TypeOK, pc = "parse"
    PROVE  LET segments == [i \in 1..Len(path) |-> Trim[path[i]]]
               groups   == [i \in 1..(Len(path) - 1) |-> Fold[segments[i]]]
           IN  /\ groups \in Seq(Titles) /\ Len(groups) = Len(path) - 1
               /\ Fold[segments[Len(path)]] \in Titles
               /\ \A i \in 1..(Len(path) - 1) : groups[i] = Fold[Trim[path[i]]]
               /\ Fold[segments[Len(path)]] = Fold[Trim[path[Len(path)]]]
<1> DEFINE segments == [i \in 1..Len(path) |-> Trim[path[i]]]
           groups   == [i \in 1..(Len(path) - 1) |-> Fold[segments[i]]]
<1>1. Len(path) - 1 \in Nat /\ Len(path) \in 1..Len(path)
  BY PathType
<1>2. \A i \in 1..(Len(path) - 1) :
        segments[i] = Trim[path[i]] /\ Fold[segments[i]] \in Titles
  BY PathType
<1>3. groups \in Seq(Titles) /\ Len(groups) = Len(path) - 1
  BY <1>1, <1>2
<1>4. QED
  BY <1>1, <1>2, <1>3, PathType

----------------------------------------------------------------------------
(* The inductive invariant.                                                 *)

\* parse refuses exactly the malformed paths.
LEMMA InvalidIsMalformed ==
    ASSUME TypeOK, pc = "parse"
    PROVE  IsInvalid([i \in 1..Len(path) |-> Trim[path[i]]])
            <=> Contract!Malformed(path)
<1> DEFINE segments == [i \in 1..Len(path) |-> Trim[path[i]]]
<1>1. /\ Len(segments) = Len(path) /\ segments[1] = Trim[path[1]]
      /\ \A i \in 1..Len(path) : segments[i] = Trim[path[i]]
  BY PathType
<1>2. (\E i \in 1..Len(segments) : segments[i] = "")
        <=> \E i \in 1..Len(path) : Trim[path[i]] = ""
  BY <1>1
<1>3. segments[1] \in RootNames <=> Trim[path[1]] \in RootNames
  BY <1>1
<1>4. Len(segments) < 2 <=> Len(path) < 2
  BY <1>1
<1>5. QED
  BY <1>2, <1>3, <1>4, Zenon DEF IsInvalid, Contract!Malformed

\* What the walk looks for next is what the contract calls named.
LEMMA NextIsNamed ==
    ASSUME Inv, pc = "walk"
    PROVE  /\ walked < Len(parsed.groups) =>
                MatchingChildren(current, "group", parsed.groups[walked + 1])
                    = Named(current, "group", Trim[path[walked + 1]])
           /\ MatchingChildren(current, "entry", parsed.title)
                = Named(current, "entry", Trim[path[Len(path)]])
<1>1. CallInv /\ TypeOK
  BY DEF Inv, CallInv
<1>2. /\ current \in Nodes /\ Len(path) \in 1..Len(path)
      /\ \A i \in 1..Len(path) : Trim[path[i]] \in Titles
  BY <1>1, WalkFacts
<1>3. walked < Len(parsed.groups) => /\ walked + 1 \in 1..(Len(path) - 1)
                                     /\ walked + 1 \in 1..Len(path)
  BY <1>1, WalkFacts
<1>4. walked < Len(parsed.groups) =>
        parsed.groups[walked + 1] = Fold[Trim[path[walked + 1]]]
  BY <1>3 DEF Inv, PathIsParsed
<1>5. parsed.title = Fold[Trim[path[Len(path)]]]
  BY DEF Inv, PathIsParsed
<1>6. QED
  BY <1>1, <1>2, <1>3, <1>4, <1>5, FoundIsNamed

LEMMA StepInv ==
    ASSUME Inv, [Next]_vars
    PROVE  Inv'
<1>1. CallInv /\ TypeOK
  BY DEF Inv, CallInv
<1>2. CASE \E p \in Paths : Call(p)
  BY <1>1, <1>2, CallKeepsInv DEF Call, Inv, PathIsParsed
<1>3. CASE Parse
  <2> DEFINE segments == [i \in 1..Len(path) |-> Trim[path[i]]]
             groups   == [i \in 1..(Len(path) - 1) |-> Fold[segments[i]]]
             title    == Fold[segments[Len(path)]]
  <2>1. pc = "parse"
    BY <1>3 DEF Parse
  <2>2. CASE Finish("InvalidPath")
    BY <1>1, <2>1, <2>2, ErrorKeepsInv DEF Finish, Inv, PathIsParsed
  <2>3. CASE ~IsInvalid(segments) /\ Walk(groups, title)
    <3>1. CallInv'
      BY <1>1, <2>1, <2>3, ParsedTypes, InvalidIsMalformed, WalkKeepsInv
    <3>2. PathIsParsed'
      BY <1>1, <2>1, <2>3, ParsedTypes DEF Walk, PathIsParsed
    <3>3. QED
      BY <3>1, <3>2 DEF Inv
  <2>4. QED
    BY <1>3, <2>2, <2>3 DEF Parse
<1>4. CASE FindGroup
  <2>1. CallInv'
    BY <1>1, <1>4, NextIsNamed, FollowKeepsInv DEF FindGroup
  <2>2. QED
    BY <1>4, <2>1 DEF FindGroup, Follow, Finish, Inv, PathIsParsed
<1>5. CASE MatchingEntries
  <2>1. CallInv'
    BY <1>1, <1>5, NextIsNamed, CountKeepsInv DEF MatchingEntries
  <2>2. QED
    BY <1>5, <2>1 DEF MatchingEntries, Count, Finish, Inv, PathIsParsed
<1>6. CASE UNCHANGED vars
  BY <1>1, <1>6, StutterKeepsInv DEF vars, Inv, PathIsParsed
<1>7. QED
  BY <1>2, <1>3, <1>4, <1>5, <1>6 DEF Next

\* The loop invariant of the walk, and with it that an entry returned is one
\* the path names and an ambiguity reported is one.
THEOREM Invariant == Spec => []Inv
<1>1. Init => Inv
  BY InitKeepsInv DEF Init, Inv, PathIsParsed
<1>2. Inv /\ [Next]_vars => Inv'
  BY StepInv
<1>3. QED
  BY <1>1, <1>2, PTL DEF Spec

\* The walk holds a group exactly while it is under way, never follows more
\* groups than the path has, and returns nothing but entries and errors.
THEOREM TypeCorrect == Spec => []TypeOK
<1>1. Inv => TypeOK
  BY DEF Inv, CallInv
<1>2. QED
  BY <1>1, Invariant, PTL

\* In any database, whatever names its groups have.
THEOREM AnswersAreNamed == Spec => []AnswerIsNamed
<1>1. Inv => AnswerIsNamed
  BY DEF Inv, CallInv
<1>2. QED
  BY <1>1, Invariant, PTL

----------------------------------------------------------------------------
(* The refinement.                                                          *)

LEMMA StepSimulates ==
    ASSUME Inv, GroupsUnique(db, Fold), [Next]_vars
    PROVE  [Contract!Next]_Contract!vars
<1>1. CallInv /\ TypeOK
  BY DEF Inv, CallInv
<1>2. CASE \E p \in Paths : Call(p)
  BY <1>2, CallSimulates DEF Contract!Next
<1>3. CASE Parse
  <2> DEFINE segments == [i \in 1..Len(path) |-> Trim[path[i]]]
  <2>1. pc = "parse"
    BY <1>3 DEF Parse
  <2>2. CASE IsInvalid(segments) /\ Finish("InvalidPath")
    <3>1. Contract!Answer(db, path, "InvalidPath")
      BY <1>1, <2>1, <2>2, InvalidIsMalformed DEF Contract!Answer
    <3>2. QED
      BY <2>1, <2>2, <3>1, FinishSimulates DEF Contract!Next
  <2>3. CASE ~IsInvalid(segments)
    BY <1>3, <2>3 DEF Parse, Walk, Contract!vars
  <2>4. QED
    BY <1>3, <2>2, <2>3 DEF Parse
<1>4. CASE FindGroup
  BY <1>1, <1>4, NextIsNamed, FollowSimulates DEF FindGroup, Contract!Next
<1>5. CASE MatchingEntries
  BY <1>1, <1>5, NextIsNamed, CountSimulates
  DEF MatchingEntries, Contract!Next
<1>6. CASE UNCHANGED vars
  BY <1>6 DEF vars, Contract!vars
<1>7. QED
  BY <1>2, <1>3, <1>4, <1>5, <1>6 DEF Next

\* In a database without groups of the same name side by side, lookup gives
\* exactly the answer the specification of paths asks for.
THEOREM LookupKeepsContract ==
    (\A t \in Databases : GroupsUnique(t, Fold)) => (Spec => KeepsContract)
<1> SUFFICES ASSUME \A t \in Databases : GroupsUnique(t, Fold)
             PROVE  Spec => KeepsContract
  OBVIOUS
<1>1. Init => Contract!Init
  BY InitSimulates
<1>2. Init => GroupsUnique(db, Fold)
  BY DEF Init
<1>3. GroupsUnique(db, Fold) /\ [Next]_vars => GroupsUnique(db, Fold)'
  <2>1. [Next]_vars => db' = db
    BY DEF Next, Call, Parse, Walk, FindGroup, Follow, MatchingEntries, Count,
           Finish, vars
  <2>2. QED
    BY <2>1, UniqueStays
<1>4. Inv /\ GroupsUnique(db, Fold) /\ [Next]_vars
        => [Contract!Next]_Contract!vars
  BY StepSimulates
<1>5. Spec => []Inv
  BY Invariant
<1>6. QED
  BY <1>1, <1>2, <1>3, <1>4, <1>5, PTL
  DEF Spec, KeepsContract, Contract!Spec

=============================================================================
