-------------------------- MODULE LookupCallProofs --------------------------
(***************************************************************************)
(* What the proofs of both lookups share: facts about chains of groups,    *)
(* and, for each part of a walk, that it preserves the invariant of        *)
(* LookupCall and maps to a step of LookupContract, provided that the      *)
(* places the library finds are those that the contract calls named.       *)
(***************************************************************************)
EXTENDS LookupCall, TLAPS

\* The places among the children of g of those that are named s.
Named(g, k, s) ==
    {j \in 1..Len(db.children[g]) :
        Contract!ChildNamed(db, Fold, g, k, s, db.children[g][j])}

LEMMA NamedPlaces ==
    ASSUME NEW g, NEW k, NEW s, NEW n
    PROVE  Contract!ChildNamed(db, Fold, g, k, s, n)
            <=> \E j \in Named(g, k, s) : db.children[g][j] = n
BY DEF Contract!ChildNamed, Named

\* Children are nodes.
LEMMA ChildType ==
    ASSUME WellFormed(db), NEW g \in Nodes, NEW j \in 1..Len(db.children[g])
    PROVE  db.children[g][j] \in Nodes
BY DEF WellFormed, Trees

\* The first nodes of a chain are a chain.
LEMMA ChainPrefix ==
    ASSUME NEW t, NEW p, NEW N \in Nat, NEW c \in Contract!Chains(t, p, N),
           NEW n \in 0..N
    PROVE  [i \in 0..n |-> c[i]] \in Contract!Chains(t, p, n)
<1> DEFINE d == [i \in 0..n |-> c[i]]
<1>1. c \in [0..N -> Nodes] /\ c[0] = Root
  BY DEF Contract!Chains
<1>2. \A i \in 1..N :
        Contract!ChildNamed(t, Fold, c[i - 1], Contract!KindAt(p, i),
                            Trim[p[i]], c[i])
  BY DEF Contract!Chains
<1>3. d \in [0..n -> Nodes] /\ d[0] = Root
  BY <1>1
<1>4. \A i \in 1..n : i \in 1..N /\ d[i] = c[i] /\ d[i - 1] = c[i - 1]
  OBVIOUS
<1>5. QED
  BY <1>2, <1>3, <1>4 DEF Contract!Chains

\* Each node of a chain is a child of the one before it.
LEMMA ChainLink ==
    ASSUME NEW t, NEW p, NEW N \in Nat, NEW c \in Contract!Chains(t, p, N),
           NEW n \in 0..N, n < N
    PROVE  /\ c[n] \in Nodes /\ c[n + 1] \in Nodes
           /\ Contract!ChildNamed(t, Fold, c[n], Contract!KindAt(p, n + 1),
                                  Trim[p[n + 1]], c[n + 1])
<1>1. c \in [0..N -> Nodes]
  BY DEF Contract!Chains
<1>2. n + 1 \in 1..N /\ (n + 1) - 1 = n
  OBVIOUS
<1>3. \A i \in 1..N :
        Contract!ChildNamed(t, Fold, c[i - 1], Contract!KindAt(p, i),
                            Trim[p[i]], c[i])
  BY DEF Contract!Chains
<1>4. QED
  BY <1>1, <1>2, <1>3

\* A chain goes on with every child of its end that has the next name.
LEMMA ChainGrows ==
    ASSUME NEW t, NEW p, NEW n \in Nat, NEW c \in Contract!Chains(t, p, n),
           NEW m \in Nodes,
           Contract!ChildNamed(t, Fold, c[n], Contract!KindAt(p, n + 1),
                               Trim[p[n + 1]], m)
    PROVE  \E d \in Contract!Chains(t, p, n + 1) : d[n + 1] = m
<1> DEFINE d == [i \in 0..(n + 1) |-> IF i = n + 1 THEN m ELSE c[i]]
<1>1. c \in [0..n -> Nodes] /\ c[0] = Root
  BY DEF Contract!Chains
<1>2. d \in [0..(n + 1) -> Nodes] /\ d[0] = Root /\ d[n + 1] = m /\ d[n] = c[n]
  BY <1>1
<1>3. ASSUME NEW i \in 1..(n + 1)
      PROVE  Contract!ChildNamed(t, Fold, d[i - 1], Contract!KindAt(p, i),
                               Trim[p[i]], d[i])
  <2>1. CASE i = n + 1
    BY <1>2, <2>1
  <2>2. CASE i # n + 1
    <3>1. i \in 1..n /\ d[i] = c[i] /\ d[i - 1] = c[i - 1]
      BY <2>2
    <3>2. QED
      BY <3>1 DEF Contract!Chains
  <2>3. QED
    BY <2>1, <2>2
<1>4. d \in Contract!Chains(t, p, n + 1)
  BY <1>2, <1>3 DEF Contract!Chains
<1>5. QED
  BY <1>2, <1>4

----------------------------------------------------------------------------
(* Type correctness.                                                        *)

LEMMA PathType ==
    ASSUME TypeOK, pc = "parse"
    PROVE  /\ path \in Seq(Pieces) /\ Len(path) \in Nat \ {0}
           /\ \A i \in 1..Len(path) : /\ Trim[path[i]] \in Titles
                                      /\ Fold[Trim[path[i]]] \in Titles
<1>1. path \in Seq(Pieces) \ {<<>>}
  BY LookupAssumption DEF TypeOK
<1>2. Len(path) \in Nat \ {0} /\ \A i \in 1..Len(path) : path[i] \in Pieces
  BY <1>1
<1>3. QED
  BY <1>1, <1>2, LookupAssumption

LEMMA InitTypes == Init => TypeOK
BY LookupAssumption DEF Init, TypeOK, NotParsed

LEMMA CallTypes ==
    ASSUME TypeOK, NEW p \in Paths, Call(p)
    PROVE  TypeOK'
BY LookupAssumption DEF TypeOK, Call

LEMMA StutterTypes ==
    ASSUME TypeOK, UNCHANGED vars
    PROVE  TypeOK'
BY DEF TypeOK, vars

LEMMA FinishTypes ==
    ASSUME TypeOK, pc # "idle", NEW r \in Outcomes, Finish(r)
    PROVE  TypeOK'
BY LookupAssumption DEF TypeOK, Finish, NotParsed

LEMMA WalkTypes ==
    ASSUME TypeOK, pc = "parse",
           NEW groups \in Seq(Titles), NEW title \in Titles,
           Walk(groups, title)
    PROVE  TypeOK'
<1>1. 0 \in 0..Len(groups)
  OBVIOUS
<1>2. QED
  BY <1>1, LookupAssumption DEF TypeOK, Walk

LEMMA FollowTypes ==
    ASSUME TypeOK, pc = "walk", walked < Len(parsed.groups),
           NEW found \in SUBSET (1..Len(db.children[current])), Follow(found)
    PROVE  TypeOK'
<1>1. current \in Nodes
  BY DEF TypeOK
<1>2. CASE found = {}
  BY <1>2, FinishTypes DEF Follow, Outcomes
<1>3. CASE found # {}
  <2>1. PICK j \in found : /\ current' = db.children[current][j]
                           /\ walked' = walked + 1
                           /\ UNCHANGED <<db, pc, path, parsed, outcome>>
    BY <1>3 DEF Follow
  <2>2. current' \in Nodes
    BY <1>1, <2>1, ChildType DEF TypeOK
  <2>3. walked' \in 0..Len(parsed.groups)
    BY <2>1 DEF TypeOK
  <2>4. QED
    BY <2>1, <2>2, <2>3, LookupAssumption DEF TypeOK
<1>4. QED
  BY <1>2, <1>3

LEMMA CountTypes ==
    ASSUME TypeOK, pc = "walk",
           NEW found \in SUBSET (1..Len(db.children[current])), Count(found)
    PROVE  TypeOK'
<1>1. current \in Nodes
  BY DEF TypeOK
<1>2. PICK r \in Outcomes : Finish(r)
  BY <1>1, ChildType DEF Count, TypeOK, Outcomes
<1>3. QED
  BY <1>2, FinishTypes

----------------------------------------------------------------------------
(* The inductive invariant.                                                 *)

\* The names a tree gives are the same under the contract's definition.
LEMMA UniqueNames ==
    ASSUME GroupsUnique(db, Fold),
           NEW g \in Nodes, NEW m \in Nodes, NEW n \in Nodes, NEW s \in Titles,
           Contract!ChildNamed(db, Fold, g, "group", s, m),
           Contract!ChildNamed(db, Fold, g, "group", s, n)
    PROVE  m = n
BY DEF GroupsUnique, ChildNamed, Contract!ChildNamed

\* What the walk knows of its path.
LEMMA WalkFacts ==
    ASSUME CallInv, pc = "walk"
    PROVE  /\ Len(path) \in Nat \ {0, 1}
           /\ Len(parsed.groups) = Len(path) - 1
           /\ walked \in 0..(Len(path) - 1)
           /\ current \in Nodes
           /\ \A i \in 1..Len(path) : Trim[path[i]] \in Titles
           /\ \A i \in 1..(Len(path) - 1) :
                Contract!KindAt(path, i) = "group"
           /\ Contract!KindAt(path, Len(path)) = "entry"
<1>1. path \in Seq(Pieces)
  BY LookupAssumption DEF CallInv, TypeOK
<1>2. Len(path) \in Nat /\ \A i \in 1..Len(path) : path[i] \in Pieces
  BY <1>1
<1>3. Len(path) >= 2
  <2>1. ~Contract!Malformed(path)
    BY DEF CallInv, PathIsSplit
  <2>2. ~(Len(path) < 2)
    BY <2>1 DEF Contract!Malformed
  <2>3. QED
    BY <1>2, <2>2
<1>4. \A i \in 1..Len(path) : Trim[path[i]] \in Titles
  BY <1>2, LookupAssumption
<1>5. /\ \A i \in 1..(Len(path) - 1) : Contract!KindAt(path, i) = "group"
      /\ Contract!KindAt(path, Len(path)) = "entry"
  BY <1>2 DEF Contract!KindAt
<1>6. Len(parsed.groups) = Len(path) - 1
  BY DEF CallInv, PathIsSplit
<1>7. walked \in 0..(Len(path) - 1) /\ current \in Nodes
  BY <1>6 DEF CallInv, TypeOK
<1>8. QED
  BY <1>2, <1>3, <1>4, <1>5, <1>6, <1>7

\* The chain of the root alone.
LEMMA RootChain ==
    ASSUME NEW p
    PROVE  /\ \E c \in Contract!Chains(db, p, 0) : c[0] = Root
           /\ \A c \in Contract!Chains(db, p, 0) : c[0] = Root
<1> DEFINE c == [i \in 0..0 |-> Root]
<1>1. c \in [0..0 -> Nodes] /\ c[0] = Root
  BY LookupAssumption
<1>2. c \in Contract!Chains(db, p, 0)
  BY <1>1 DEF Contract!Chains
<1>3. QED
  BY <1>1, <1>2 DEF Contract!Chains

LEMMA InitKeepsInv == Init => CallInv
BY InitTypes, LookupAssumption
DEF Init, CallInv, PathIsSplit, WalkIsAChain, WalkIsTheChain, AnswerIsNamed

LEMMA CallKeepsInv ==
    ASSUME CallInv, NEW p \in Paths, Call(p)
    PROVE  CallInv'
BY CallTypes
DEF Call, CallInv, PathIsSplit, WalkIsAChain, WalkIsTheChain, AnswerIsNamed

LEMMA StutterKeepsInv ==
    ASSUME CallInv, UNCHANGED vars
    PROVE  CallInv'
BY StutterTypes
DEF vars, CallInv, PathIsSplit, WalkIsAChain, WalkIsTheChain, AnswerIsNamed

\* A return that is neither an entry nor an ambiguity keeps the invariant.
LEMMA ErrorKeepsInv ==
    ASSUME CallInv, pc # "idle",
           NEW r \in {"InvalidPath", "EntryNotFound"}, Finish(r)
    PROVE  CallInv'
<1>1. TypeOK'
  BY FinishTypes DEF CallInv, Outcomes
<1>2. QED
  BY <1>1, LookupAssumption
  DEF Finish, CallInv, PathIsSplit, WalkIsAChain, WalkIsTheChain, AnswerIsNamed

\* At the root the chain is the one of no names.
LEMMA WalkKeepsInv ==
    ASSUME CallInv, pc = "parse", ~Contract!Malformed(path),
           NEW groups \in Seq(Titles), Len(groups) = Len(path) - 1,
           NEW title \in Titles, Walk(groups, title)
    PROVE  CallInv'
<1>1. TypeOK'
  BY WalkTypes DEF CallInv
<1>2. PathIsSplit'
  BY DEF Walk, PathIsSplit, Contract!Malformed
<1>3. WalkIsAChain' /\ WalkIsTheChain'
  BY RootChain DEF Walk, WalkIsAChain, WalkIsTheChain
<1>4. AnswerIsNamed'
  BY DEF Walk, AnswerIsNamed
<1>5. QED
  BY <1>1, <1>2, <1>3, <1>4 DEF CallInv

\* One iteration: the group found goes on every chain that ends where the
\* walk is, and is the only one to do so if names are unique.
LEMMA FollowKeepsInv ==
    ASSUME CallInv, pc = "walk", walked < Len(parsed.groups),
           NEW found, found = Named(current, "group", Trim[path[walked + 1]]),
           Follow(found)
    PROVE  CallInv'
<1> DEFINE piece == Trim[path[walked + 1]]
<1>1. TypeOK' /\ WellFormed(db)
  BY FollowTypes DEF CallInv, TypeOK, Named
<1>2. walked < Len(path) - 1 /\ walked \in Nat
  BY WalkFacts
<1>3. /\ walked + 1 \in 1..(Len(path) - 1) /\ walked + 1 \in 1..Len(path)
      /\ Len(path) \in Nat
  BY <1>2, WalkFacts
<1>4. /\ current \in Nodes /\ piece \in Titles
      /\ Contract!KindAt(path, walked + 1) = "group"
  BY <1>3, WalkFacts
<1>5. CASE found = {}
  BY <1>5, ErrorKeepsInv DEF Follow
<1>6. CASE found # {}
  <2>1. PICK j \in found : /\ current' = db.children[current][j]
                           /\ walked' = walked + 1
                           /\ UNCHANGED <<db, pc, path, parsed, outcome>>
    BY <1>6 DEF Follow
  <2>2. current' \in Nodes
    BY <1>1, <1>4, <2>1, ChildType DEF Named
  <2>3. Contract!ChildNamed(db, Fold, current,
                            Contract!KindAt(path, walked + 1), piece, current')
    BY <1>4, <2>1 DEF Named
  <2>4. WalkIsAChain'
    <3>1. PICK c \in Contract!Chains(db, path, walked) : c[walked] = current
      BY DEF CallInv, WalkIsAChain
    <3>2. \E d \in Contract!Chains(db, path, walked + 1) :
                d[walked + 1] = current'
      BY <1>2, <2>2, <2>3, <3>1, ChainGrows
    <3>3. QED
      BY <2>1, <3>2 DEF WalkIsAChain
  <2>5. WalkIsTheChain'
    <3>1. ASSUME GroupsUnique(db, Fold),
                 NEW c \in Contract!Chains(db, path, walked + 1)
          PROVE  c[walked + 1] = current'
      <4>1. walked \in 0..(walked + 1) /\ walked + 1 \in Nat
        BY <1>2
      <4>2. [i \in 0..walked |-> c[i]] \in Contract!Chains(db, path, walked)
        BY <4>1, ChainPrefix
      <4>3. c[walked] = current
        BY <1>2, <3>1, <4>2 DEF CallInv, WalkIsTheChain
      <4>4. /\ c[walked + 1] \in Nodes
            /\ Contract!ChildNamed(db, Fold, c[walked],
                    Contract!KindAt(path, walked + 1), piece, c[walked + 1])
        BY <1>2, <4>1, ChainLink
      <4>5. QED
        BY <1>4, <2>2, <2>3, <3>1, <4>3, <4>4, UniqueNames
    <3>2. QED
      BY <2>1, <3>1 DEF WalkIsTheChain
  <2>6. PathIsSplit' /\ AnswerIsNamed'
    BY <2>1 DEF CallInv, PathIsSplit, AnswerIsNamed, Contract!Malformed
  <2>7. QED
    BY <1>1, <2>4, <2>5, <2>6 DEF CallInv
<1>7. QED
  BY <1>5, <1>6

\* At the end of the walk, the entries found are entries the path names.
LEMMA FoundIsMatch ==
    ASSUME CallInv, pc = "walk", walked = Len(parsed.groups),
           NEW j \in Named(current, "entry", Trim[path[Len(path)]])
    PROVE  /\ db.children[current][j] \in Nodes
           /\ db.children[current][j] \in Contract!Matches(db, path)
<1> DEFINE e == db.children[current][j]
           N == Len(path)
<1>1. WellFormed(db)
  BY DEF CallInv, TypeOK
<1>2. /\ current \in Nodes /\ N \in Nat \ {0, 1} /\ walked = N - 1
      /\ Contract!KindAt(path, N) = "entry"
  BY WalkFacts
<1>3. e \in Nodes
  BY <1>1, <1>2, ChildType DEF Named
<1>4. Contract!ChildNamed(db, Fold, current, "entry", Trim[path[N]], e)
  BY DEF Named
<1>5. PICK c \in Contract!Chains(db, path, walked) : c[walked] = current
  BY DEF CallInv, WalkIsAChain
<1>6. walked \in Nat /\ walked + 1 = N
  BY <1>2
<1>7. PICK d \in Contract!Chains(db, path, N) : d[N] = e
  BY <1>2, <1>3, <1>4, <1>5, <1>6, ChainGrows
<1>8. QED
  BY <1>3, <1>7 DEF Contract!Matches

LEMMA CountKeepsInv ==
    ASSUME CallInv, pc = "walk", walked = Len(parsed.groups),
           NEW found, found = Named(current, "entry", Trim[path[Len(path)]]),
           Count(found)
    PROVE  CallInv'
<1>1. TypeOK' /\ WellFormed(db) /\ current \in Nodes
  BY CountTypes DEF CallInv, TypeOK, Named
<1>2. CASE found = {} /\ Finish("EntryNotFound")
  BY <1>2, ErrorKeepsInv
<1>3. ASSUME NEW j \in found, Finish(db.children[current][j])
      PROVE  CallInv'
  <2>1. db.children[current][j] \in Contract!Matches(db, path)
        /\ db.children[current][j] \in Nodes
    BY FoundIsMatch
  <2>2. AnswerIsNamed'
    BY <1>3, <2>1, LookupAssumption DEF Finish, AnswerIsNamed
  <2>3. QED
    BY <1>1, <1>3, <2>2
    DEF Finish, CallInv, PathIsSplit, WalkIsAChain, WalkIsTheChain
<1>4. ASSUME NEW j \in found, NEW k \in found, j # k, Finish("AmbiguousEntry")
      PROVE  CallInv'
  <2> DEFINE m == db.children[current][j]
             n == db.children[current][k]
  <2>1. m \in Contract!Matches(db, path) /\ n \in Contract!Matches(db, path)
    BY FoundIsMatch
  <2>2. m # n
    BY <1>1, <1>4 DEF WellFormed, Named
  <2>3. AnswerIsNamed'
    BY <1>4, <2>1, <2>2, LookupAssumption DEF Finish, AnswerIsNamed
  <2>4. QED
    BY <1>1, <1>4, <2>3
    DEF Finish, CallInv, PathIsSplit, WalkIsAChain, WalkIsTheChain
<1>5. QED
  BY <1>2, <1>3, <1>4 DEF Count

----------------------------------------------------------------------------
(* The step simulation, on a tree whose groups have unique names.           *)

LEMMA InitSimulates == Init => Contract!Init
BY DEF Init, Contract!Init

LEMMA CallSimulates ==
    ASSUME NEW p \in Paths, Call(p)
    PROVE  Contract!Ask
BY LookupAssumption DEF Call, Contract!Ask

LEMMA FinishSimulates ==
    ASSUME pc # "idle", NEW r, Finish(r), Contract!Answer(db, path, r)
    PROVE  Contract!Return
BY DEF Finish, Contract!Return

\* Every chain a path names passes through the group the walk has come to.
LEMMA MatchIsBeyondWalk ==
    ASSUME CallInv, GroupsUnique(db, Fold), pc = "walk",
           NEW e \in Contract!Matches(db, path)
    PROVE  \E c \in Contract!Chains(db, path, Len(path)) :
                c[walked] = current /\ c[Len(path)] = e
<1>1. PICK c \in Contract!Chains(db, path, Len(path)) : e = c[Len(path)]
  BY DEF Contract!Matches
<1>2. walked \in 0..Len(path) /\ Len(path) \in Nat
  BY WalkFacts
<1>3. [i \in 0..walked |-> c[i]] \in Contract!Chains(db, path, walked)
  BY <1>2, ChainPrefix
<1>4. c[walked] = current
  BY <1>2, <1>3 DEF CallInv, WalkIsTheChain
<1>5. QED
  BY <1>1, <1>4

LEMMA FollowSimulates ==
    ASSUME CallInv, GroupsUnique(db, Fold), pc = "walk",
           walked < Len(parsed.groups),
           NEW found, found = Named(current, "group", Trim[path[walked + 1]]),
           Follow(found)
    PROVE  Contract!Return \/ UNCHANGED Contract!vars
<1> DEFINE piece == Trim[path[walked + 1]]
<1>1. /\ walked \in Nat /\ walked < Len(path) - 1 /\ Len(path) \in Nat
      /\ walked + 1 \in 1..(Len(path) - 1)
      /\ Contract!KindAt(path, walked + 1) = "group"
  BY WalkFacts
<1>2. CASE found = {}
  <2>1. ASSUME NEW e \in Contract!Matches(db, path)
        PROVE  FALSE
    <3>1. PICK c \in Contract!Chains(db, path, Len(path)) :
                c[walked] = current
      BY MatchIsBeyondWalk
    <3>2. Contract!ChildNamed(db, Fold, current, "group", piece,
                              c[walked + 1])
      BY <1>1, <3>1, ChainLink
    <3>3. QED
      BY <1>2, <3>2, NamedPlaces
  <2>2. Contract!Matches(db, path) = {}
    BY <2>1
  <2>3. ~Contract!Malformed(path)
    BY DEF CallInv, PathIsSplit
  <2>4. Contract!Answer(db, path, "EntryNotFound")
    BY <2>2, <2>3 DEF Contract!Answer
  <2>5. QED
    BY <1>2, <2>4, FinishSimulates DEF Follow
<1>3. CASE found # {}
  BY <1>3 DEF Follow, Contract!vars
<1>4. QED
  BY <1>2, <1>3

\* At the end of the walk nothing the path names is missed.
LEMMA MatchIsFound ==
    ASSUME CallInv, GroupsUnique(db, Fold), pc = "walk",
           walked = Len(parsed.groups), NEW e \in Contract!Matches(db, path)
    PROVE  \E j \in Named(current, "entry", Trim[path[Len(path)]]) :
                db.children[current][j] = e
<1> DEFINE N == Len(path)
<1>1. /\ N \in Nat \ {0, 1} /\ walked = N - 1
      /\ Contract!KindAt(path, N) = "entry"
  BY WalkFacts
<1>2. PICK c \in Contract!Chains(db, path, N) : c[walked] = current /\ c[N] = e
  BY MatchIsBeyondWalk
<1>3. walked \in 0..N /\ walked < N /\ walked + 1 = N
  BY <1>1
<1>4. Contract!ChildNamed(db, Fold, current, "entry", Trim[path[N]], e)
  BY <1>1, <1>2, <1>3, ChainLink
<1>5. QED
  BY <1>4, NamedPlaces

LEMMA CountSimulates ==
    ASSUME CallInv, GroupsUnique(db, Fold), pc = "walk",
           walked = Len(parsed.groups),
           NEW found, found = Named(current, "entry", Trim[path[Len(path)]]),
           Count(found)
    PROVE  Contract!Return
<1> DEFINE all == Contract!Matches(db, path)
<1>1. ~Contract!Malformed(path) /\ WellFormed(db) /\ current \in Nodes
  BY DEF CallInv, PathIsSplit, TypeOK
<1>2. \A j \in found : db.children[current][j] \in all \cap Nodes
  BY FoundIsMatch
<1>3. \A e \in all : \E j \in found : db.children[current][j] = e
  BY MatchIsFound
<1>4. CASE found = {} /\ Finish("EntryNotFound")
  <2>1. Contract!Answer(db, path, "EntryNotFound")
    BY <1>1, <1>3, <1>4 DEF Contract!Answer
  <2>2. QED
    BY <1>4, <2>1, FinishSimulates
<1>5. ASSUME NEW j \in found, found = {j}, Finish(db.children[current][j])
      PROVE  Contract!Return
  <2>1. all = {db.children[current][j]}
    BY <1>2, <1>3, <1>5
  <2>2. Contract!Answer(db, path, db.children[current][j])
    BY <1>1, <1>2, <2>1 DEF Contract!Answer
  <2>3. QED
    BY <1>5, <2>2, FinishSimulates
<1>6. ASSUME NEW j \in found, NEW k \in found, j # k, Finish("AmbiguousEntry")
      PROVE  Contract!Return
  <2>1. db.children[current][j] # db.children[current][k]
    BY <1>1, <1>6 DEF WellFormed, Named
  <2>2. Contract!Answer(db, path, "AmbiguousEntry")
    BY <1>1, <1>2, <2>1 DEF Contract!Answer
  <2>3. QED
    BY <1>6, <2>2, FinishSimulates
<1>7. QED
  BY <1>4, <1>5, <1>6 DEF Count

LEMMA UniqueStays ==
    ASSUME GroupsUnique(db, Fold), UNCHANGED db
    PROVE  GroupsUnique(db, Fold)'
BY DEF GroupsUnique, ChildNamed

=============================================================================
