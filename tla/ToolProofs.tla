----------------------------- MODULE ToolProofs -----------------------------
(***************************************************************************)
(* That the three programs keep ToolContract: whatever the databases, the  *)
(* paths and the field names, and however the machine changes under a run, *)
(* output and exit code are those of one instant of the run; and that the  *)
(* task of systemd connects with nothing but what such a run has found.    *)
(***************************************************************************)
EXTENDS Tool, DbTask, SequenceTheorems, TLAPS

----------------------------------------------------------------------------
(* The report of a run.                                                     *)

LEMMA PromiseType ==
    ASSUME NEW s, NEW d
    PROVE  Promise(s, d) \subseteq Outcomes
<1>1. Judged(s, d) \in Outcomes
  BY ReportAssumption DEF Judged, Outcomes, DatabaseErrors
<1>2. QED
  BY <1>1 DEF Promise, Outcomes, DatabaseErrors

LEMMA CallType ==
    ASSUME NEW a \in Calls
    PROVE  /\ a.tool \in Tools
           /\ a.shape \in Shapes
           /\ a.field \in DOMAIN Lower
BY ReportAssumption

LEMMA NamedDef ==
    ASSUME NEW a \in Calls, NEW v \in Valid
    PROVE  Named[a][v] = {n \in Nodes : /\ ~Malformed(a.path)
                                        /\ Matches(TreeOf[v], a.path) = {n}}
BY DEF Named

LEMMA ReportDef ==
    ASSUME NEW a \in Calls, NEW o \in Outcomes
    PROVE  Report[a][o] =
             IF o \in Valid /\ Named[a][o] # {}
             THEN Shown(a, FieldsOf[o][CHOOSE n \in Named[a][o] : TRUE])
             ELSE Silent(1)
BY DEF Report

\* An outcome without an entry is reported by the exit code alone.
LEMMA ReportOfNothing ==
    ASSUME NEW a \in Calls, NEW o \in Outcomes,
           o \notin Valid \/ Named[a][o] = {}
    PROVE  Report[a][o].code = 1 /\ Report[a][o].lines = <<>>
BY ReportDef DEF Silent

\* A path names at most one entry, so that the report is about that one.
LEMMA ReportOfEntry ==
    ASSUME NEW a \in Calls, NEW v \in Valid, NEW n \in Named[a][v]
    PROVE  Report[a][v] = Shown(a, FieldsOf[v][n])
<1>1. v \in Outcomes
  BY ReportAssumption DEF Outcomes
<1>2. \A m \in Named[a][v] : m = n
  BY NamedDef
<1>3. (CHOOSE m \in Named[a][v] : TRUE) = n
  BY <1>2
<1>4. QED
  BY <1>1, <1>3, ReportDef

\* What `lookup` answers is the entry that is named, or there is none.
LEMMA AnswerNames ==
    ASSUME NEW a \in Calls, NEW v \in Valid, NEW n \in Nodes,
           Answer(TreeOf[v], a.path, n)
    PROVE  n \in Named[a][v]
<1>1. n \notin {"InvalidPath", "EntryNotFound", "AmbiguousEntry"}
  BY ReportAssumption
<1>2. ~Malformed(a.path) /\ Matches(TreeOf[v], a.path) = {n}
  BY <1>1 DEF Answer
<1>3. QED
  BY <1>2, NamedDef

LEMMA ErrorNamesNothing ==
    ASSUME NEW a \in Calls, NEW v \in Valid,
           NEW e \in {"InvalidPath", "EntryNotFound", "AmbiguousEntry"},
           Answer(TreeOf[v], a.path, e)
    PROVE  Named[a][v] = {}
<1>1. e \notin Nodes
  BY ReportAssumption
<1>2. \/ Malformed(a.path)
      \/ Matches(TreeOf[v], a.path) = {}
      \/ \E m, n \in Matches(TreeOf[v], a.path) : m # n
  BY <1>1 DEF Answer
<1>3. QED
  BY <1>2, NamedDef

LEMMA FieldsType ==
    ASSUME NEW v \in Valid, NEW n \in Nodes
    PROVE  FieldsOf[v][n] \in [KeePassFields -> Texts \cup {None}]
BY ReportAssumption

LEMMA BuildEntryType ==
    ASSUME NEW f \in [KeePassFields -> Texts \cup {None}]
    PROVE  BuildEntry(f) \in Entries
BY DEF BuildEntry, Entries, KeePassFields

\* The entry has each field under the name that getfield asks for.
LEMMA BuildEntryFields ==
    ASSUME NEW f
    PROVE  /\ DOMAIN BuildEntry(f) = DOMAIN KeePassName
           /\ \A field \in DOMAIN KeePassName :
                BuildEntry(f)[field] = f[KeePassName[field]]
<1>1. DOMAIN BuildEntry(f) = {"username", "password", "url", "notes"}
  BY DEF BuildEntry
<1>2. DOMAIN KeePassName = {"username", "password", "url", "notes"}
  BY DEF KeePassName
<1>3. /\ BuildEntry(f)["username"] = f[KeePassName["username"]]
      /\ BuildEntry(f)["password"] = f[KeePassName["password"]]
      /\ BuildEntry(f)["url"] = f[KeePassName["url"]]
      /\ BuildEntry(f)["notes"] = f[KeePassName["notes"]]
  BY DEF BuildEntry, KeePassName
<1>4. QED
  BY <1>1, <1>2, <1>3

----------------------------------------------------------------------------
(* What is printed.                                                         *)

LEMMA PrefixProperties ==
    ASSUME NEW S, NEW s \in Seq(S), NEW n \in Nat, n <= Len(s)
    PROVE  /\ SubSeq(s, 1, n) \in Seq(S)
           /\ Len(SubSeq(s, 1, n)) = n
           /\ \A i \in 1..n : SubSeq(s, 1, n)[i] = s[i]
<1>1. \A i \in 1..n : s[i] \in S
  BY LenProperties, ElementOfSeq
<1>2. /\ SubSeq(s, 1, n) \in Seq(S)
      /\ Len(SubSeq(s, 1, n)) = IF 1 <= n THEN n - 1 + 1 ELSE 0
      /\ \A i \in 1..(n - 1 + 1) : SubSeq(s, 1, n)[i] = s[1 + i - 1]
  BY <1>1, SubSeqProperties
<1>3. QED
  BY <1>2

LEMMA WholeSubSeq ==
    ASSUME NEW S, NEW s \in Seq(S)
    PROVE  SubSeq(s, 1, Len(s)) = s /\ SubSeq(s, 1, 0) = <<>>
<1>1. Len(s) \in Nat
  BY LenProperties
<1> DEFINE t == SubSeq(s, 1, Len(s))
<1>2. t \in Seq(S) /\ Len(t) = Len(s) /\ \A i \in 1..Len(s) : t[i] = s[i]
  BY <1>1, PrefixProperties
<1> HIDE DEF t
<1>3. t = s
  BY <1>2, SeqEqual
<1>4. QED
  BY <1>3, SubSeqEmpty DEF t

\* A beginning of s with the next element is a beginning of s.
LEMMA AppendNext ==
    ASSUME NEW S, NEW s \in Seq(S), NEW p \in Seq(S),
           Len(p) < Len(s), p = SubSeq(s, 1, Len(p))
    PROVE  Append(p, s[Len(p) + 1]) = SubSeq(s, 1, Len(p) + 1)
<1> DEFINE k == Len(p)
           t == Append(p, s[k + 1])
           q == SubSeq(s, 1, k + 1)
<1>1. k \in Nat /\ Len(s) \in Nat /\ s[k + 1] \in S
  BY LenProperties, ElementOfSeq
<1>2. q \in Seq(S) /\ Len(q) = k + 1 /\ \A i \in 1..(k + 1) : q[i] = s[i]
  BY <1>1, PrefixProperties
<1>3. \A i \in 1..k : p[i] = s[i]
  BY <1>1, PrefixProperties
<1>4. /\ t \in Seq(S) /\ Len(t) = k + 1
      /\ \A i \in 1..k : t[i] = p[i]
      /\ t[k + 1] = s[k + 1]
  BY <1>1, AppendProperties
<1>5. \A i \in 1..(k + 1) : t[i] = q[i]
  BY <1>1, <1>2, <1>3, <1>4
<1> HIDE DEF t, q
<1>6. t = q
  BY <1>2, <1>4, <1>5, SeqEqual
<1>7. QED
  BY <1>6 DEF t, q

----------------------------------------------------------------------------
(* Type correctness.                                                        *)

LEMMA InitType == Init => TypeOK
<1>1. <<>> \in Seq(Lines)
  BY EmptySeq
<1>2. QED
  BY <1>1, ToolAssumption DEF Init, TypeOK

LEMMA EndType ==
    ASSUME TypeOK, pc # "idle", NEW code \in {0, 1, 2, 101}, End(code)
    PROVE  TypeOK'
BY ToolAssumption DEF TypeOK, End

LEMMA PrintlnType ==
    ASSUME TypeOK, pc = "entry", NEW line \in Lines,
           NEW place \in {"entry", "printed"}, Println(line, place)
    PROVE  TypeOK'
<1>1. CASE End(101)
  BY <1>1, EndType
<1>2. CASE /\ out' = Append(out, line) /\ GoOn(place)
           /\ UNCHANGED <<secret, possible, db, entry>>
  <2>1. out' \in Seq(Lines)
    BY <1>2, AppendProperties DEF TypeOK
  <2>2. QED
    BY <1>2, <2>1 DEF TypeOK, GoOn
<1>3. QED
  BY <1>1, <1>2 DEF Println

LEMMA PrintValueType ==
    ASSUME TypeOK, pc = "entry", NEW value \in Texts \cup {None},
           PrintValue(value)
    PROVE  TypeOK'
<1>1. <<"value", value>> \in Lines
  BY DEF Lines
<1>2. QED
  BY <1>1, PrintlnType, EndType DEF PrintValue

LEMMA StepType == TypeOK /\ [Next]_vars => TypeOK'
<1> SUFFICES ASSUME TypeOK, [Next]_vars PROVE TypeOK'
  OBVIOUS
<1>1. ASSUME NEW a \in Calls, Start(a) PROVE TypeOK'
  <2>1. <<>> \in Seq(Lines)
    BY EmptySeq
  <2>2. QED
    BY <1>1, <2>1, ToolAssumption DEF TypeOK, Start
<1>2. CASE Usage
  BY <1>2, EndType DEF Usage
<1>3. CASE Open
  <2>1. CASE End(1)
    BY <1>3, <2>1, EndType DEF Open
  <2>2. CASE /\ pc = "args" /\ stored \in Secrets /\ secret' = stored
             /\ possible' = Promise(stored, disk) /\ GoOn("open")
             /\ UNCHANGED <<out, db, entry>>
    BY <2>2, PromiseType DEF TypeOK, GoOn
  <2>3. QED
    BY <1>3, <2>1, <2>2 DEF Open
<1>4. CASE Opened
  <2>1. CASE End(1)
    BY <1>4, <2>1, EndType DEF Opened
  <2>2. ASSUME NEW o \in Valid, pc = "open", db' = o, GoOn("lookup"),
               UNCHANGED <<secret, possible, out, entry>>
        PROVE  TypeOK'
    BY <2>2 DEF TypeOK, GoOn
  <2>3. QED
    BY <1>4, <2>1, <2>2 DEF Opened
<1>5. CASE Lookup
  <2>1. CASE End(1)
    BY <1>5, <2>1, EndType DEF Lookup
  <2>2. ASSUME NEW n \in Nodes, pc = "lookup", GoOn("entry"),
               entry' = BuildEntry(FieldsOf[db][n]),
               UNCHANGED <<secret, possible, out, db>>
        PROVE  TypeOK'
    <3>1. entry' \in Entries
      BY <2>2, FieldsType, BuildEntryType DEF TypeOK
    <3>2. QED
      BY <2>2, <3>1 DEF TypeOK, GoOn
  <2>3. QED
    BY <1>5, <2>1, <2>2 DEF Lookup
<1>6. CASE Getpass
  <2>1. pc = "entry" /\ entry.password \in Texts \cup {None}
    BY <1>6 DEF Getpass, TypeOK, Entries
  <2>2. QED
    BY <1>6, <2>1, PrintValueType DEF Getpass
<1>7. CASE Getfield
  <2>1. pc = "entry" /\ entry \in Entries
    BY <1>7 DEF Getfield, TypeOK
  <2>2. \A field \in DOMAIN entry : entry[field] \in Texts \cup {None}
    BY <2>1 DEF Entries
  <2>3. QED
    BY <1>7, <2>1, <2>2, PrintValueType, EndType DEF Getfield
<1>8. CASE LookupTool
  <2>1. pc = "entry" /\ entry \in Entries
    BY <1>8 DEF LookupTool, TypeOK
  <2>2. {<<"OK", None>>, <<"username", entry.username>>,
         <<"url", entry.url>>, <<"password", None>>} \subseteq Lines
    BY <2>1 DEF Entries, Lines
  <2>3. QED
    BY <1>8, <2>1, <2>2, PrintlnType DEF LookupTool
<1>9. CASE Succeed
  BY <1>9, EndType DEF Succeed
<1>10. CASE HostChanges
  <2>1. possible' \subseteq Outcomes
    BY <1>10, PromiseType DEF HostChanges, TypeOK
  <2>2. QED
    BY <1>10, <2>1 DEF HostChanges, TypeOK, runVars
<1>11. CASE UNCHANGED vars
  BY <1>11 DEF TypeOK, vars, runVars
<1>12. QED
  BY <1>1, <1>2, <1>3, <1>4, <1>5, <1>6, <1>7, <1>8, <1>9, <1>10, <1>11
  DEF Next, Step

\* The programs hold a handle and an entry only where they may use them,
\* and leave none of either behind, whichever way they end.
THEOREM TypeCorrect == Spec => []TypeOK
BY InitType, StepType, PTL DEF Spec

----------------------------------------------------------------------------
(* What each program has to print of an entry.                              *)

ValueReport(value) ==
    IF value = None THEN Silent(1)
    ELSE [code |-> 0, lines |-> << <<"value", value>> >>]

LookupLines(e) ==
    << <<"OK", None>>, <<"username", e.username>>,
       <<"url", e.url>>, <<"password", None>> >>

LEMMA ShownValue ==
    ASSUME NEW a, NEW f, a.tool # "lookup", NEW field \in DOMAIN KeePassName,
           field = IF a.tool = "getpass" THEN "password" ELSE Lower[a.field]
    PROVE  Shown(a, f) = ValueReport(BuildEntry(f)[field])
<1>1. BuildEntry(f)[field] = f[KeePassName[field]]
  BY BuildEntryFields
<1>2. CASE f[KeePassName[field]] = None
  BY <1>1, <1>2 DEF Shown, ValueReport
<1>3. CASE f[KeePassName[field]] # None
  BY <1>1, <1>3 DEF Shown, ValueReport
<1>4. QED
  BY <1>2, <1>3

LEMMA ShownNoField ==
    ASSUME NEW a, NEW f, a.tool = "getfield",
           Lower[a.field] \notin DOMAIN KeePassName
    PROVE  Shown(a, f) = Silent(2)
BY DEF Shown

LEMMA ShownLookup ==
    ASSUME NEW a, NEW f, a.tool = "lookup"
    PROVE  Shown(a, f) = [code |-> 0, lines |-> LookupLines(BuildEntry(f))]
BY DEF Shown, LookupLines, BuildEntry

\* The report a run is giving, once it has its entry: that of the database
\* it has opened, an instant of the run, and of the entry it holds.
LEMMA ReportOfRun ==
    ASSUME Inv, pc \in {"entry", "printed"}
    PROVE  /\ args \in Calls /\ db \in possible
           /\ \E f : /\ entry = BuildEntry(f)
                     /\ Report[args][db] = Shown(args, f)
<1>1. args \in Calls /\ db \in Valid /\ db \in possible
  BY ToolAssumption DEF Inv, TypeOK, OfOneInstant
<1>2. PICK n \in Named[args][db] : entry = BuildEntry(FieldsOf[db][n])
  BY DEF Inv, OfOneInstant
<1>3. QED
  BY <1>1, <1>2, ReportOfEntry

LEMMA LookupReport ==
    ASSUME Inv, pc = "entry", args.tool = "lookup"
    PROVE  /\ Report[args][db] = [code |-> 0, lines |-> LookupLines(entry)]
           /\ LookupLines(entry) \in Seq(Lines)
           /\ Len(LookupLines(entry)) = 4
           /\ out = SubSeq(LookupLines(entry), 1, Len(out))
           /\ Len(out) \in 0..3
<1>1. Report[args][db] = [code |-> 0, lines |-> LookupLines(entry)]
  BY ReportOfRun, ShownLookup
<1>2. entry \in Entries /\ out \in Seq(Lines)
  BY DEF Inv, TypeOK
<1>3. LookupLines(entry) \in Seq(Lines) /\ Len(LookupLines(entry)) = 4
  <2>1. {<<"OK", None>>, <<"username", entry.username>>,
         <<"url", entry.url>>, <<"password", None>>} \subseteq Lines
    BY <1>2 DEF Entries, Lines
  <2>2. QED
    BY <2>1 DEF LookupLines
<1>4. Len(out) < 4 /\ out = SubSeq(LookupLines(entry), 1, Len(out))
  BY <1>1 DEF Inv, OfOneInstant
<1>5. QED
  BY <1>1, <1>2, <1>3, <1>4, LenProperties

\* The lookup example prints the next of its lines, and stops at the end.
LEMMA LookupPrintsNext ==
    ASSUME Inv, LookupTool
    PROVE  \/ End(101)
           \/ /\ out' = SubSeq(LookupLines(entry), 1, Len(out) + 1)
              /\ GoOn(IF Len(out) = 3 THEN "printed" ELSE "entry")
              /\ UNCHANGED <<secret, possible, db, entry>>
<1> DEFINE k == Len(out)
           s == LookupLines(entry)
<1>1. /\ s \in Seq(Lines) /\ Len(s) = 4 /\ out = SubSeq(s, 1, k)
      /\ out \in Seq(Lines) /\ k \in 0..3
  BY LookupReport DEF LookupTool, Inv, TypeOK
<1>2. Append(out, s[k + 1]) = SubSeq(s, 1, k + 1)
  <2>1. k < Len(s)
    BY <1>1
  <2> HIDE DEF s
  <2>2. QED
    BY <1>1, <2>1, AppendNext
<1>3. Println(s[k + 1], IF k = 3 THEN "printed" ELSE "entry")
  <2>1. /\ s[1] = <<"OK", None>> /\ s[2] = <<"username", entry.username>>
        /\ s[3] = <<"url", entry.url>> /\ s[4] = <<"password", None>>
    BY DEF LookupLines
  <2> HIDE DEF s
  <2>2. CASE k = 0
    BY <2>1, <2>2 DEF LookupTool
  <2>3. CASE k = 1
    BY <2>1, <2>3 DEF LookupTool
  <2>4. CASE k = 2
    BY <2>1, <2>4 DEF LookupTool
  <2>5. CASE k = 3
    BY <2>1, <2>5 DEF LookupTool
  <2>6. QED
    BY <1>1, <2>2, <2>3, <2>4, <2>5
<1>4. QED
  BY <1>2, <1>3 DEF Println

\* getpass and getfield print the value of their field, or end without one.
LEMMA GetpassReport ==
    ASSUME Inv, Getpass
    PROVE  Report[args][db] = ValueReport(entry.password)
<1>1. PICK f : entry = BuildEntry(f) /\ Report[args][db] = Shown(args, f)
  BY ReportOfRun DEF Getpass
<1>2. "password" \in DOMAIN KeePassName
  BY DEF KeePassName
<1>3. Shown(args, f) = ValueReport(BuildEntry(f)["password"])
  BY <1>2, ShownValue DEF Getpass
<1>4. QED
  BY <1>1, <1>3

LEMMA GetfieldReport ==
    ASSUME Inv, Getfield
    PROVE  IF Lower[args.field] \in DOMAIN entry
           THEN Report[args][db] = ValueReport(entry[Lower[args.field]])
           ELSE Report[args][db] = Silent(2)
<1>1. PICK f : entry = BuildEntry(f) /\ Report[args][db] = Shown(args, f)
  BY ReportOfRun DEF Getfield
<1>2. DOMAIN entry = DOMAIN KeePassName
  BY <1>1, BuildEntryFields
<1>3. CASE Lower[args.field] \in DOMAIN entry
  <2>1. Shown(args, f) = ValueReport(BuildEntry(f)[Lower[args.field]])
    BY <1>2, <1>3, ShownValue DEF Getfield
  <2>2. QED
    BY <1>1, <1>3, <2>1
<1>4. CASE Lower[args.field] \notin DOMAIN entry
  BY <1>1, <1>2, <1>4, ShownNoField DEF Getfield
<1>5. QED
  BY <1>3, <1>4

----------------------------------------------------------------------------
(* The inductive invariant.                                                 *)

LEMMA EndKeeps ==
    ASSUME NEW code, End(code)
    PROVE  OfOneInstant'
BY DEF End, OfOneInstant

LEMMA NothingPrinted ==
    ASSUME Inv,
           \/ pc \in {"args", "open", "lookup"}
           \/ pc = "entry" /\ args.tool # "lookup"
    PROVE  out = <<>>
BY DEF Inv, OfOneInstant

LEMMA PrintValueKeeps ==
    ASSUME Inv, pc = "entry", args.tool # "lookup", NEW value,
           Report[args][db] = ValueReport(value), PrintValue(value)
    PROVE  OfOneInstant'
<1>1. CASE \E code : End(code)
  BY <1>1, EndKeeps
<1>2. CASE /\ value # None /\ out' = Append(out, <<"value", value>>)
           /\ GoOn("printed") /\ UNCHANGED <<secret, possible, db, entry>>
  <2>1. out' = << <<"value", value>> >>
    BY <1>2, NothingPrinted
  <2>2. /\ Report[args][db].code = 0
        /\ Report[args][db].lines = << <<"value", value>> >>
    BY <1>2 DEF ValueReport
  <2>3. QED
    BY <1>2, <2>1, <2>2 DEF Inv, OfOneInstant, GoOn
<1>3. QED
  BY <1>1, <1>2 DEF PrintValue, Println

LEMMA LookupToolKeeps ==
    ASSUME Inv, LookupTool
    PROVE  OfOneInstant'
<1> DEFINE k == Len(out)
           s == LookupLines(entry)
<1>1. /\ Report[args][db] = [code |-> 0, lines |-> s]
      /\ s \in Seq(Lines) /\ Len(s) = 4 /\ k \in 0..3
  BY LookupReport DEF LookupTool
<1>2. \/ End(101)
      \/ /\ out' = SubSeq(s, 1, k + 1)
         /\ GoOn(IF k = 3 THEN "printed" ELSE "entry")
         /\ UNCHANGED <<secret, possible, db, entry>>
  BY LookupPrintsNext
<1> HIDE DEF k, s
<1>3. CASE End(101)
  BY <1>3, EndKeeps
<1>4. CASE /\ out' = SubSeq(s, 1, k + 1)
           /\ GoOn(IF k = 3 THEN "printed" ELSE "entry")
           /\ UNCHANGED <<secret, possible, db, entry>>
  <2>1. k + 1 \in Nat /\ k + 1 <= Len(s)
    BY <1>1
  <2>2. Len(out') = k + 1
    BY <1>1, <1>4, <2>1, PrefixProperties
  <2>3. CASE k = 3
    <3>1. out' = s
      BY <1>1, <1>4, <2>3, WholeSubSeq
    <3>2. QED
      BY <1>1, <1>4, <2>3, <3>1 DEF Inv, OfOneInstant, GoOn, LookupTool
  <2>4. CASE k # 3
    <3>1. pc' = "entry" /\ args' = args /\ db' = db
      BY <1>4, <2>4 DEF GoOn
    <3>2. Len(out') < 4 /\ out' = SubSeq(s, 1, Len(out'))
      BY <1>1, <1>4, <2>2, <2>4
    <3>3. QED
      BY <1>1, <1>4, <3>1, <3>2 DEF Inv, OfOneInstant, LookupTool
  <2>5. QED
    BY <2>3, <2>4
<1>5. QED
  BY <1>2, <1>3, <1>4

LEMMA LookupKeeps ==
    ASSUME Inv, Lookup
    PROVE  OfOneInstant'
<1>1. args \in Calls /\ db \in Valid /\ db \in possible /\ out = <<>>
  BY ToolAssumption DEF Inv, TypeOK, OfOneInstant, Lookup
<1>2. ASSUME NEW n \in Nodes, Answer(TreeOf[db], args.path, n),
             entry' = BuildEntry(FieldsOf[db][n]), GoOn("entry"),
             UNCHANGED <<secret, possible, out, db>>
      PROVE  OfOneInstant'
  <2>1. n \in Named[args][db]
    BY <1>1, <1>2, AnswerNames
  <2>2. <<>> = SubSeq(Report[args][db].lines, 1, 0) /\ Len(<<>>) = 0
    BY SubSeqEmpty
  <2>3. pc' = "entry" /\ args' = args /\ out' = out /\ db' = db
    BY <1>2 DEF GoOn
  <2>4. \/ args'.tool # "lookup" /\ out' = <<>>
        \/ /\ args'.tool = "lookup" /\ Len(out') < 4
           /\ out' = SubSeq(Report[args'][db'].lines, 1, Len(out'))
    BY <1>1, <2>2, <2>3
  <2>5. db' \in possible'
    BY <1>1, <1>2
  <2>6. \E m \in Named[args'][db'] : entry' = BuildEntry(FieldsOf[db'][m])
    BY <1>2, <2>1, <2>3
  <2>7. QED
    BY <2>3, <2>4, <2>5, <2>6 DEF OfOneInstant
<1>3. QED
  BY <1>2, EndKeeps DEF Lookup

LEMMA StepKeeps == Inv /\ [Next]_vars => OfOneInstant'
<1> SUFFICES ASSUME Inv, [Next]_vars PROVE OfOneInstant'
  OBVIOUS
<1>1. ASSUME NEW a \in Calls, Start(a) PROVE OfOneInstant'
  BY <1>1 DEF Start, OfOneInstant
<1>2. CASE Usage
  BY <1>2, EndKeeps DEF Usage
<1>3. CASE Open
  BY <1>3, EndKeeps DEF Open, Inv, OfOneInstant, GoOn
<1>4. CASE Opened
  BY <1>4, EndKeeps DEF Opened, Inv, OfOneInstant, GoOn
<1>5. CASE Lookup
  BY <1>5, LookupKeeps
<1>6. CASE Getpass
  <2>1. pc = "entry" /\ args.tool # "lookup" /\ PrintValue(entry.password)
    BY <1>6 DEF Getpass
  <2>2. QED
    BY <1>6, <2>1, GetpassReport, PrintValueKeeps
<1>7. CASE Getfield
  <2>1. CASE End(2)
    BY <2>1, EndKeeps
  <2>2. CASE /\ Lower[args.field] \in DOMAIN entry
             /\ PrintValue(entry[Lower[args.field]])
    <3>1. pc = "entry" /\ args.tool # "lookup"
      BY <1>7 DEF Getfield
    <3>2. Report[args][db] = ValueReport(entry[Lower[args.field]])
      BY <1>7, <2>2, GetfieldReport
    <3>3. QED
      BY <2>2, <3>1, <3>2, PrintValueKeeps
  <2>3. QED
    BY <1>7, <2>1, <2>2 DEF Getfield
<1>8. CASE LookupTool
  BY <1>8, LookupToolKeeps
<1>9. CASE Succeed
  BY <1>9, EndKeeps DEF Succeed
<1>10. CASE HostChanges
  <2>1. possible \subseteq possible' /\ UNCHANGED runVars
    BY <1>10 DEF HostChanges
  <2>2. QED
    BY <2>1 DEF Inv, OfOneInstant, runVars
<1>11. CASE UNCHANGED vars
  BY <1>11 DEF Inv, OfOneInstant, vars, runVars
<1>12. QED
  BY <1>1, <1>2, <1>3, <1>4, <1>5, <1>6, <1>7, <1>8, <1>9, <1>10, <1>11
  DEF Next, Step

\* At every step of a run the handle is of an instant of the run, the entry
\* is the one that the path names in it, and what was printed is the
\* beginning of the report on it.
THEOREM Invariant == Spec => []Inv
<1>1. Init => Inv
  BY InitType DEF Init, Inv, OfOneInstant
<1>2. Inv /\ [Next]_vars => Inv'
  BY StepType, StepKeeps DEF Inv
<1>3. QED
  BY <1>1, <1>2, PTL DEF Spec

\* In particular nothing printed is of one save and the handle of another.
THEOREM OneInstant == Spec => []OfOneInstant
BY Invariant, PTL DEF Inv

----------------------------------------------------------------------------
(* The refinement.                                                          *)

LEMMA PromiseOfContract ==
    ASSUME NEW s, NEW d
    PROVE  Contract!Promise(s, d) = Promise(s, d)
BY DEF Promise, Judged, DatabaseErrors,
       Contract!Promise, Contract!Judged, Contract!DatabaseErrors

\* The end of a run that has printed what there is to print of a database
\* possible in it is an end that the contract allows.
LEMMA EndFinishes ==
    ASSUME pc # "idle", TypeOK, NEW code, End(code), NEW o \in possible,
           out = Report[args][o].lines, code = Report[args][o].code
    PROVE  Contract!Finish
BY DEF End, TypeOK, Contract!Finish

\* Whatever the path names, a run that has opened no database, or found no
\* entry, has nothing to print and ends with 1.
LEMMA EndOfNothing ==
    ASSUME pc # "idle", Inv, End(1), out = <<>>, NEW o \in possible,
           o \notin Valid \/ Named[args][o] = {}
    PROVE  Contract!Finish
<1>1. args \in Calls /\ o \in Outcomes
  BY ToolAssumption DEF Inv, TypeOK
<1>2. QED
  BY <1>1, ReportOfNothing, EndFinishes DEF Inv

LEMMA PrintValueSimulates ==
    ASSUME Inv, pc = "entry", args.tool # "lookup", NEW value,
           Report[args][db] = ValueReport(value), PrintValue(value)
    PROVE  Contract!Next
<1> DEFINE line == <<"value", value>>
           s == <<line>>
<1>1. out = <<>> /\ exit = Running /\ db \in possible
  BY NothingPrinted, ReportOfRun DEF Inv, TypeOK
<1>2. CASE value = None /\ End(1)
  <2>1. Report[args][db].lines = <<>> /\ Report[args][db].code = 1
    BY <1>2 DEF ValueReport, Silent
  <2>2. QED
    BY <1>1, <1>2, <2>1, EndFinishes DEF Inv, Contract!Next
<1>3. CASE value # None /\ Println(line, "printed")
  <2>1. Report[args][db].lines = s
    BY <1>3 DEF ValueReport
  <2>2. Len(out) = 0 /\ Len(s) = 1 /\ out = SubSeq(s, 1, Len(out))
    BY <1>1, SubSeqEmpty
  <2> HIDE DEF s
  <2>3. CASE End(101)
    BY <1>1, <2>1, <2>2, <2>3 DEF End, Contract!Next, Contract!Break
  <2>4. CASE /\ out' = Append(out, line) /\ GoOn("printed")
             /\ UNCHANGED <<secret, possible, db, entry>>
    <3>1. s \in Seq({line})
      BY DEF s
    <3>2. out' = s
      BY <1>1, <2>4 DEF s
    <3>3. SubSeq(s, 1, Len(out) + 1) = s
      BY <2>2, <3>1, WholeSubSeq
    <3>4. QED
      BY <1>1, <2>1, <2>2, <2>4, <3>2, <3>3
      DEF GoOn, Contract!Next, Contract!Write
  <2>5. QED
    BY <1>3, <2>3, <2>4 DEF Println
<1>4. QED
  BY <1>2, <1>3 DEF PrintValue

LEMMA LookupToolSimulates ==
    ASSUME Inv, LookupTool
    PROVE  Contract!Next
<1> DEFINE k == Len(out)
           s == LookupLines(entry)
<1>1. /\ Report[args][db].lines = s /\ Len(s) = 4 /\ k \in 0..3
      /\ out = SubSeq(s, 1, Len(out))
  BY LookupReport DEF LookupTool
<1>2. exit = Running /\ db \in possible
  BY ReportOfRun DEF Inv, TypeOK, LookupTool
<1>3. \/ End(101)
      \/ /\ out' = SubSeq(s, 1, Len(out) + 1)
         /\ GoOn(IF k = 3 THEN "printed" ELSE "entry")
         /\ UNCHANGED <<secret, possible, db, entry>>
  BY LookupPrintsNext
<1> HIDE DEF s
<1>4. Len(out) < Len(Report[args][db].lines)
  BY <1>1
<1>5. CASE End(101)
  BY <1>1, <1>2, <1>4, <1>5 DEF End, Contract!Next, Contract!Break
<1>6. CASE /\ out' = SubSeq(s, 1, Len(out) + 1)
           /\ GoOn(IF k = 3 THEN "printed" ELSE "entry")
           /\ UNCHANGED <<secret, possible, db, entry>>
  BY <1>1, <1>2, <1>4, <1>6 DEF GoOn, Contract!Next, Contract!Write
<1>7. QED
  BY <1>3, <1>5, <1>6

LEMMA StepSimulates == Inv /\ [Next]_vars => [Contract!Next]_Contract!vars
<1> SUFFICES ASSUME Inv, [Next]_vars
             PROVE  Contract!Next \/ UNCHANGED Contract!vars
  OBVIOUS
<1>1. ASSUME NEW a \in Calls, Start(a) PROVE Contract!Next
  BY <1>1, ToolAssumption
  DEF Start, Inv, TypeOK, Contract!Ask, Contract!Next
<1>2. CASE Usage
  BY <1>2 DEF Usage, End, Inv, TypeOK, Contract!Finish, Contract!Next
<1>3. CASE Open
  <2>1. pc = "args" /\ exit = Running /\ secret = NoSecret
    BY <1>3 DEF Open, Inv, TypeOK, OfOneInstant
  <2>2. CASE stored \notin Secrets /\ End(1)
    BY <1>3, <2>1, <2>2 DEF Open, End, Contract!Finish, Contract!Next
  <2>3. CASE /\ stored \in Secrets /\ secret' = stored
             /\ possible' = Promise(stored, disk) /\ GoOn("open")
             /\ UNCHANGED <<out, db, entry>>
    BY <1>3, <2>1, <2>3, PromiseOfContract
    DEF Open, GoOn, Contract!Take, Contract!Next
  <2>4. QED
    BY <1>3, <2>2, <2>3 DEF Open
<1>4. CASE Opened
  <2>1. pc = "open" /\ out = <<>>
    <3>1. pc = "open"
      BY <1>4 DEF Opened
    <3>2. QED
      BY <3>1 DEF Inv, OfOneInstant
  <2>2. ASSUME NEW o \in possible, o \notin Valid, End(1) PROVE Contract!Next
    BY <2>1, <2>2, EndOfNothing DEF Contract!Next
  <2>3. QED
    BY <1>4, <2>2 DEF Opened, GoOn, Contract!vars
<1>5. CASE Lookup
  <2>1. /\ pc = "lookup" /\ out = <<>> /\ args \in Calls
        /\ db \in Valid /\ db \in possible
    BY <1>5, ToolAssumption DEF Lookup, Inv, TypeOK, OfOneInstant
  <2>2. ASSUME NEW e \in {"InvalidPath", "EntryNotFound", "AmbiguousEntry"},
               Answer(TreeOf[db], args.path, e), End(1)
        PROVE  Contract!Next
    BY <2>1, <2>2, ErrorNamesNothing, EndOfNothing DEF Contract!Next
  <2>3. QED
    BY <1>5, <2>2 DEF Lookup, GoOn, Contract!vars
<1>6. CASE Getpass
  <2>1. pc = "entry" /\ args.tool # "lookup" /\ PrintValue(entry.password)
    BY <1>6 DEF Getpass
  <2>2. QED
    BY <1>6, <2>1, GetpassReport, PrintValueSimulates
<1>7. CASE Getfield
  <2>1. pc = "entry" /\ args.tool # "lookup"
    BY <1>7 DEF Getfield
  <2>2. CASE Lower[args.field] \notin DOMAIN entry /\ End(2)
    <3>1. Report[args][db].lines = <<>> /\ Report[args][db].code = 2
      BY <1>7, <2>2, GetfieldReport DEF Silent
    <3>2. db \in possible /\ out = <<>>
      BY <2>1, NothingPrinted, ReportOfRun
    <3>3. QED
      BY <2>1, <2>2, <3>1, <3>2, EndFinishes DEF Inv, Contract!Next
  <2>3. CASE /\ Lower[args.field] \in DOMAIN entry
             /\ PrintValue(entry[Lower[args.field]])
    BY <1>7, <2>1, <2>3, GetfieldReport, PrintValueSimulates
  <2>4. QED
    BY <1>7, <2>2, <2>3 DEF Getfield
<1>8. CASE LookupTool
  BY <1>8, LookupToolSimulates
<1>9. CASE Succeed
  <2>1. pc = "printed" /\ End(0)
    BY <1>9 DEF Succeed
  <2>2. /\ db \in possible /\ out = Report[args][db].lines
        /\ Report[args][db].code = 0
    BY <2>1 DEF Inv, OfOneInstant
  <2>3. QED
    BY <2>1, <2>2, EndFinishes DEF Inv, Contract!Next
<1>10. CASE HostChanges
  <2>1. exit = Running <=> pc # "idle"
    BY DEF Inv, TypeOK
  <2>2. /\ possible' = IF exit = Running /\ secret # NoSecret
                        THEN possible \cup Promise(secret, disk') ELSE possible
        /\ UNCHANGED <<args, secret, out, exit>>
    <3>1. CASE pc = "idle"
      BY <1>10, <2>1, <3>1 DEF HostChanges, runVars
    <3>2. CASE pc # "idle"
      BY <1>10, <2>1, <3>2 DEF HostChanges, runVars
    <3>3. QED
      BY <3>1, <3>2
  <2>3. QED
    BY <2>2, PromiseOfContract DEF Contract!Change, Contract!Next
<1>11. CASE UNCHANGED vars
  BY <1>11 DEF vars, runVars, Contract!vars
<1>12. QED
  BY <1>1, <1>2, <1>3, <1>4, <1>5, <1>6, <1>7, <1>8, <1>9, <1>10, <1>11
  DEF Next, Step

\* What a script gets from getpass, getfield or the lookup example, output
\* and exit code together, is what one instant of the run gives.
THEOREM ToolKeepsContract == Spec => KeepsContract
<1>1. Init => Contract!Init
  BY DEF Init, Contract!Init
<1>2. Spec => []Inv
  BY Invariant
<1>3. QED
  BY <1>1, <1>2, StepSimulates, PTL DEF Spec, KeepsContract, Contract!Spec

----------------------------------------------------------------------------
(***************************************************************************)
(* The task of systemd, which takes a run of getpass by the contract that  *)
(* Tool was just shown to keep.                                            *)
(***************************************************************************)

\* The only command line of the script asks for the password.
LEMMA TheOneCall ==
    ASSUME OneCall
    PROVE  /\ TheCall \in Calls
           /\ TheCall.tool = "getpass" /\ TheCall.shape = "ok"
BY DEF OneCall

\* An open of no duration with the credential of the run, on any disk, ends
\* in an outcome, and in a database only if the credential opens it.
LEMMA TaskPromise ==
    ASSUME NEW s, NEW d
    PROVE  /\ Program!Promise(s, d) # {}
           /\ Program!Promise(s, d) \subseteq Outcomes
           /\ \A o \in Program!Promise(s, d) \cap Valid : KeyOf[o] = s
<1>1. /\ Valid \subseteq Versions
      /\ Valid \cap DatabaseErrors = {}
  BY ReportAssumption DEF DatabaseErrors
<1>2. /\ Program!Judged(s, d) \in Outcomes
      /\ Program!Judged(s, d) \in Valid
            => KeyOf[Program!Judged(s, d)] = s
  BY <1>1, ReportAssumption
  DEF Program!Judged, Outcomes, DatabaseErrors
<1>3. QED
  BY <1>1, <1>2 DEF Program!Promise, Outcomes, DatabaseErrors,
     Program!DatabaseErrors

\* What getpass has to print of an entry.
LEMMA TaskShown ==
    ASSUME OneCall, NEW f
    PROVE  Shown(TheCall, f) =
             IF f["Password"] = None THEN Silent(1)
             ELSE [code |-> 0, lines |-> << <<"value", f["Password"]>> >>]
<1>1. "password" \in DOMAIN KeePassName
      /\ KeePassName["password"] = "Password"
  BY DEF KeePassName
<1>2. CASE f["Password"] = None
  BY <1>1, <1>2, TheOneCall DEF Shown
<1>3. CASE f["Password"] # None
  BY <1>1, <1>3, TheOneCall DEF Shown
<1>4. QED
  BY <1>2, <1>3

\* The exit code is one of three, and 0 only with a password on stdout: that
\* of the entry which the path names.
LEMMA SuccessHasThePassword ==
    ASSUME OneCall, NEW o \in Outcomes
    PROVE  /\ Report[TheCall][o].code \in {0, 1}
           /\ Report[TheCall][o].code = 0 =>
                /\ o \in Valid
                /\ \E n \in Named[TheCall][o] :
                    /\ FieldsOf[o][n]["Password"] \in Texts
                    /\ Report[TheCall][o].lines =
                            << <<"value", FieldsOf[o][n]["Password"]>> >>
<1> DEFINE r == Report[TheCall][o]
           named == Named[TheCall][o]
           n == CHOOSE m \in named : TRUE
           f == FieldsOf[o][n]
<1>1. CASE o \in Valid /\ named # {}
  <2>1. r = Shown(TheCall, f)
    BY <1>1, TheOneCall, ReportDef
  <2>2. n \in named
    BY <1>1
  <2>3. n \in Nodes
    BY <1>1, <2>2, TheOneCall DEF Named
  <2>4. f \in [KeePassFields -> Texts \cup {None}]
    BY <1>1, <2>3, FieldsType
  <2>5. f["Password"] \in Texts \cup {None}
    BY <2>4 DEF KeePassFields
  <2>6. CASE f["Password"] = None
    <3>1. r = Silent(1)
      BY <2>1, <2>6, TaskShown
    <3>2. r.code = 1
      BY <3>1 DEF Silent
    <3>3. QED
      BY <3>2
  <2>7. CASE f["Password"] # None
    <3>1. r = [code |-> 0, lines |-> << <<"value", f["Password"]>> >>]
      BY <2>1, <2>7, TaskShown
    <3>2. r.code = 0 /\ r.lines = << <<"value", f["Password"]>> >>
      BY <3>1
    <3>3. QED
      BY <1>1, <2>2, <2>5, <2>7, <3>2
  <2>8. QED
    BY <2>6, <2>7
<1>2. CASE ~(o \in Valid /\ named # {})
  <2>1. r = Silent(1)
    BY <1>2, TheOneCall, ReportDef
  <2>2. r.code = 1
    BY <2>1 DEF Silent
  <2>3. QED
    BY <2>2
<1>3. QED
  BY <1>1, <1>2

\* Before the first run nothing is held.
LEMMA InitTask == OneCall /\ TaskInit => TaskInv
BY DEF OneCall, TaskInit, TaskInv, TaskTypeOK, FindsOfThisRun,
       SuccessIsReported, ConnectsWithTheEntry, Program!Init,
       Stores

\* The end of a unit, however it comes, with the run of getpass over too.
LEMMA StopKeeps ==
    ASSUME OneCall, TaskInv, NEW how, Stop(how),
           how \in {"success", "failure", "dependency", "credentials"},
           UNCHANGED hostVars, args' = args,
           exit' \in {NotRun, Killed, 0, 1, 2, 101}
    PROVE  TaskInv'
<1>1. TaskTypeOK'
  BY DEF TaskInv, OneCall, Stop, TaskTypeOK, hostVars
<1>2. unit' = "inactive"
  BY DEF Stop
<1>3. QED
  BY <1>1, <1>2 DEF TaskInv, FindsOfThisRun, SuccessIsReported,
     ConnectsWithTheEntry

\* The timer starts a unit with the credential of now, or none.
LEMMA TriggerKeeps ==
    ASSUME OneCall, TaskInv, Trigger
    PROVE  TaskInv'
<1>1. exit # Running /\ unit = "inactive" /\ loaded = NoCredential
      /\ UNCHANGED <<credstore, server, disk, args, secret, possible, out, exit>>
  BY DEF Trigger, TaskInv, TaskTypeOK, toolVars, hostVars
<1>2. ASSUME NEW how \in {"dependency", "credentials"}, Stop(how)
      PROVE  TaskInv'
  BY <1>1, <1>2, StopKeeps DEF TaskInv, TaskTypeOK, hostVars
<1>3. CASE /\ credstore # "unreadable" /\ unit' = "script"
           /\ loaded' = credstore /\ UNCHANGED <<pgpassword, result>>
  <2>1. TaskTypeOK'
    BY <1>1, <1>3 DEF TaskInv, TaskTypeOK, Stores, OneCall
  <2>2. QED
    BY <1>3, <2>1 DEF TaskInv, FindsOfThisRun, SuccessIsReported,
       ConnectsWithTheEntry
<1>4. QED
  BY <1>2, <1>3 DEF Trigger

\* A run of getpass starts with nothing of an earlier one.
LEMMA FetchKeeps ==
    ASSUME OneCall, TaskInv, Fetch
    PROVE  TaskInv'
<1>1. /\ unit = "script" /\ unit' = "getpass" /\ exit' = Running
      /\ args' = TheCall /\ secret' = NoSecret /\ possible' = {}
      /\ UNCHANGED <<credstore, server, disk, loaded, pgpassword, result>>
  BY DEF Fetch, Program!Ask
<1>2. TaskTypeOK'
  BY <1>1 DEF TaskInv, TaskTypeOK
<1>3. QED
  BY <1>1, <1>2 DEF OneCall, TaskInv, FindsOfThisRun,
     SuccessIsReported, ConnectsWithTheEntry

\* A step of getpass: the password that is taken is the one loaded, and the
\* run ends with 0 only after the report of an entry.
LEMMA RunGetpassKeeps ==
    ASSUME OneCall, TaskInv, RunGetpass
    PROVE  TaskInv'
<1>1. /\ unit = "getpass" /\ exit = Running
      /\ UNCHANGED <<credstore, server, disk, unit, loaded, pgpassword,
                     result, args>>
  BY DEF RunGetpass, Program!Take, Program!Write,
         Program!Finish
<1>2. FindsOfThisRun /\ args = TheCall /\ possible \subseteq Outcomes
  BY <1>1 DEF TaskInv, FindsOfThisRun
<1>3. ConnectsWithTheEntry'
  BY <1>1 DEF ConnectsWithTheEntry
<1>4. CASE Program!Take
  <2>1. /\ secret' = loaded /\ exit' = Running
        /\ possible' = Program!Promise(loaded, disk)
    BY <1>1, <1>4 DEF Program!Take
  <2>2. FindsOfThisRun'
    BY <1>1, <1>2, <2>1, TaskPromise DEF FindsOfThisRun
  <2>3. TaskTypeOK' /\ SuccessIsReported'
    BY <1>1, <2>1
    DEF OneCall, TaskInv, TaskTypeOK, SuccessIsReported
  <2>4. QED
    BY <1>3, <2>2, <2>3 DEF TaskInv
<1>5. CASE Program!Write
  <2>1. exit' = Running /\ UNCHANGED <<secret, possible>>
    BY <1>1, <1>5 DEF Program!Write
  <2>2. FindsOfThisRun'
    BY <1>1, <1>2, <2>1 DEF FindsOfThisRun
  <2>3. TaskTypeOK' /\ SuccessIsReported'
    BY <1>1, <2>1
    DEF OneCall, TaskInv, TaskTypeOK, SuccessIsReported
  <2>4. QED
    BY <1>3, <2>2, <2>3 DEF TaskInv
<1>6. CASE Program!Finish
  <2>1. UNCHANGED <<secret, possible, out>>
    BY <1>6 DEF Program!Finish
  <2>2. FindsOfThisRun'
    BY <1>1, <1>2, <2>1 DEF FindsOfThisRun
  <2>3. \/ exit' = 1
        \/ \E o \in possible : /\ out = Report[TheCall][o].lines
                               /\ exit' = Report[TheCall][o].code
    BY <1>2, <1>6, TheOneCall DEF Program!Finish
  <2>4. exit' \in {0, 1}
    BY <1>2, <2>3, SuccessHasThePassword
  <2>5. TaskTypeOK'
    BY <1>1, <2>4 DEF OneCall, TaskInv, TaskTypeOK
  <2>6. SuccessIsReported'
    BY <2>1, <2>3 DEF SuccessIsReported
  <2>7. QED
    BY <1>3, <2>2, <2>5, <2>6 DEF TaskInv
<1>7. QED
  BY <1>4, <1>5, <1>6 DEF RunGetpass

\* The assignment passes on what was printed, and only after a success.
LEMMA AssignKeeps ==
    ASSUME OneCall, TaskInv, Assign
    PROVE  TaskInv'
<1>1. /\ unit = "getpass" /\ exit # Running
      /\ UNCHANGED <<credstore, server, disk, args, secret, possible, out, exit>>
  BY DEF Assign, hostVars, toolVars
<1>2. CASE exit # 0 /\ Stop("failure")
  BY <1>1, <1>2, StopKeeps DEF TaskInv, TaskTypeOK, hostVars
<1>3. CASE /\ exit = 0 /\ pgpassword' = Output /\ unit' = "psql"
           /\ UNCHANGED <<loaded, result>>
  <2>1. FindsOfThisRun /\ possible \subseteq Outcomes
    BY <1>1 DEF TaskInv, FindsOfThisRun
  <2>2. PICK o \in possible : /\ Report[TheCall][o].code = 0
                              /\ out = Report[TheCall][o].lines
    BY <1>1, <1>3 DEF TaskInv, SuccessIsReported
  <2>3. o \in Valid
    BY <2>1, <2>2, SuccessHasThePassword
  <2>4. PICK n \in Named[TheCall][o] :
            /\ FieldsOf[o][n]["Password"] \in Texts
            /\ Report[TheCall][o].lines =
                    << <<"value", FieldsOf[o][n]["Password"]>> >>
    BY <2>1, <2>2, SuccessHasThePassword
  <2>5. out # <<>> /\ out[1][2] = FieldsOf[o][n]["Password"]
    BY <2>2, <2>4
  <2>6. pgpassword' = Captured[FieldsOf[o][n]["Password"]]
    BY <1>3, <2>5 DEF Output
  <2>7. pgpassword' # Unset
    BY <2>4, <2>6 DEF OneCall
  <2>8. TaskTypeOK'
    BY <1>1, <1>3, <2>7 DEF TaskInv, TaskTypeOK
  <2>9. FindsOfThisRun'
    BY <1>1, <1>3, <2>1 DEF FindsOfThisRun
  <2>10. KeyOf[o] = loaded
    BY <1>1, <2>1, <2>2, <2>3 DEF FindsOfThisRun
  <2>11. FieldsOf[o][n]["Password"] # None
    BY <2>4, ReportAssumption
  <2>12. ConnectsWithTheEntry'
    BY <1>1, <1>3, <2>2, <2>3, <2>4, <2>6, <2>10, <2>11
    DEF ConnectsWithTheEntry
  <2>13. QED
    BY <1>3, <2>8, <2>9, <2>12 DEF TaskInv, SuccessIsReported
<1>4. QED
  BY <1>2, <1>3 DEF Assign

\* A rotation adds to what a run of getpass may find, and to nothing else.
LEMMA TaskHostKeeps ==
    ASSUME OneCall, TaskInv, TaskHostChanges
    PROVE  TaskInv'
<1>1. UNCHANGED <<unit, loaded, pgpassword, result, args, secret, out, exit>>
  BY DEF TaskHostChanges, Program!Change, taskVars
<1>2. possible' = IF exit = Running /\ secret # NoSecret
                  THEN possible \cup Program!Promise(secret, disk')
                  ELSE possible
  BY DEF TaskHostChanges, Program!Change
<1>3. TaskTypeOK'
  BY <1>1 DEF TaskHostChanges, TaskInv, TaskTypeOK
<1>4. CASE exit = Running /\ secret # NoSecret
  <2>1. unit = "getpass" /\ unit' = "getpass" /\ FindsOfThisRun
    BY <1>1, <1>4 DEF TaskInv, TaskTypeOK
  <2>2. secret = loaded
    BY <1>4, <2>1 DEF FindsOfThisRun
  <2>3. /\ possible' # {} /\ possible' \subseteq Outcomes
        /\ \A o \in possible' \cap Valid : KeyOf[o] = loaded
    BY <1>2, <1>4, <2>1, <2>2, TaskPromise DEF FindsOfThisRun
  <2>4. FindsOfThisRun'
    BY <1>1, <2>1, <2>2, <2>3 DEF FindsOfThisRun
  <2>5. SuccessIsReported' /\ ConnectsWithTheEntry'
    BY <1>1, <1>4, <2>1 DEF OneCall, SuccessIsReported,
       ConnectsWithTheEntry
  <2>6. QED
    BY <1>3, <2>4, <2>5 DEF TaskInv
<1>5. CASE ~(exit = Running /\ secret # NoSecret)
  BY <1>1, <1>2, <1>3, <1>5 DEF TaskInv, FindsOfThisRun,
     SuccessIsReported, ConnectsWithTheEntry
<1>6. QED
  BY <1>4, <1>5

\* Every step of the task keeps the invariant.
LEMMA TaskStep ==
    OneCall /\ TaskInv /\ [TaskNext]_allVars => TaskInv'
<1> SUFFICES ASSUME OneCall, TaskInv, [TaskNext]_allVars
             PROVE  TaskInv'
  OBVIOUS
<1>1. CASE Trigger
  BY <1>1, TriggerKeeps
<1>2. CASE Fetch
  BY <1>2, FetchKeeps
<1>3. CASE RunGetpass
  BY <1>3, RunGetpassKeeps
<1>4. CASE Assign
  BY <1>4, AssignKeeps
<1>5. CASE Psql
  <2>1. exit' = exit /\ args' = args /\ exit # Running
        /\ UNCHANGED hostVars
    BY <1>5 DEF Psql, toolVars, TaskInv, TaskTypeOK
  <2>2. \E how \in {"success", "failure"} : Stop(how)
    BY <1>5 DEF Psql
  <2>3. QED
    BY <2>1, <2>2, StopKeeps DEF TaskInv, TaskTypeOK
<1>6. CASE Kill
  <2>1. exit' \in {NotRun, Killed, 0, 1, 2, 101}
    BY <1>6 DEF Kill, TaskInv, TaskTypeOK
  <2>2. QED
    BY <1>6, <2>1, StopKeeps DEF Kill
<1>7. CASE TaskHostChanges
  BY <1>7, TaskHostKeeps
<1>8. CASE UNCHANGED allVars
  BY <1>8 DEF allVars, hostVars, taskVars, toolVars,
     TaskInv, TaskTypeOK, FindsOfThisRun, SuccessIsReported,
     ConnectsWithTheEntry
<1>9. QED
  BY <1>1, <1>2, <1>3, <1>4, <1>5, <1>6, <1>7, <1>8
  DEF TaskNext, Script

\* At every step of the task, whatever is rotated, unmounted or restarted:
\* what getpass may find opens with the credential of this run, and an exit
\* code of 0 has the password on stdout with it.
THEOREM TaskInvariant == OneCall => (TaskSpec => []TaskInv)
<1> SUFFICES ASSUME OneCall PROVE TaskSpec => []TaskInv
  OBVIOUS
<1>1. TaskInit => TaskInv
  BY InitTask
<1>2. TaskInv /\ [TaskNext]_allVars => TaskInv'
  BY TaskStep
<1>3. QED
  BY <1>1, <1>2, PTL DEF TaskSpec

\* The types of the task; what is decrypted for a run is gone at its end.
THEOREM TaskTypes == OneCall => (TaskSpec => []TaskTypeOK)
<1> SUFFICES ASSUME OneCall PROVE TaskSpec => []TaskTypeOK
  OBVIOUS
<1>1. TaskInv => TaskTypeOK
  BY DEF TaskInv
<1>2. QED
  BY <1>1, TaskInvariant, PTL

\* psql is started only with the password of the entry that the path names,
\* from a database that was at the path in this run and opens with the
\* credential the run was given.
THEOREM TaskConnects ==
    OneCall => (TaskSpec => []ConnectsWithTheEntry)
<1> SUFFICES ASSUME OneCall
             PROVE  TaskSpec => []ConnectsWithTheEntry
  OBVIOUS
<1>1. TaskInv => ConnectsWithTheEntry
  BY DEF TaskInv
<1>2. QED
  BY <1>1, TaskInvariant, PTL

=============================================================================
