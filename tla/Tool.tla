-------------------------------- MODULE Tool --------------------------------
(***************************************************************************)
(* The three programs of the crate, run again and again on a machine that  *)
(* changes: getpass.rs, getfield.rs and lookup.rs.  They are `open`,       *)
(* `lookup` and println!, one after the other; the two calls are taken by  *)
(* what RustOpen and RustLookup are shown to promise.                      *)
(***************************************************************************)
EXTENDS ToolRun

CONSTANTS
    NoDatabase,     \* no handle is held
    NoEntry         \* no entry is held

VARIABLES
    stored,     \* what the store has for the key, as in ToolContract
    pc,         \* where the run is
    db,         \* the handle: which database was opened
    entry       \* the Entry returned by lookup

runVars == <<pc, args, secret, out, exit, db, entry>>

vars == <<stored, disk, possible, runVars>>

Contract == INSTANCE ToolContract

ASSUME ToolAssumption ==
    /\ NoSecret \notin Secrets
    /\ NoDatabase \notin Valid
    /\ Running \notin {NotRun, 0, 1, 2, 101}

Entries == [username : Texts \cup {None}, password : Texts \cup {None},
            url      : Texts \cup {None}, notes    : Texts \cup {None}]

Lines == {"OK", "username", "url", "password", "value"} \X (Texts \cup {None})

\* Types; a run holds a handle and an entry from the calls that return them
\* to its end, however it ends, and no longer.
TypeOK ==
    /\ stored \in Stores
    /\ disk \in Disks
    /\ pc \in {"idle", "args", "open", "lookup", "entry", "printed"}
    /\ exit \in {Running, NotRun, 0, 1, 2, 101}
    /\ exit = Running <=> pc # "idle"
    /\ exit # NotRun => args \in Calls
    /\ secret \in Secrets \cup {NoSecret}
    /\ possible \subseteq Outcomes
    /\ out \in Seq(Lines)
    /\ IF pc \in {"lookup", "entry", "printed"} THEN db \in Valid
                                                ELSE db = NoDatabase
    /\ IF pc \in {"entry", "printed"} THEN entry \in Entries
                                      ELSE entry = NoEntry

Init ==
    /\ stored \in Stores
    /\ disk \in Disks
    /\ pc = "idle"
    /\ args = NotRun
    /\ secret = NoSecret
    /\ possible = {}
    /\ out = <<>>
    /\ exit = NotRun
    /\ db = NoDatabase
    /\ entry = NoEntry

----------------------------------------------------------------------------
\* Wrong on purpose: the process exits at once and drops nothing.
ExitAtOnce(code) ==
    /\ exit' = code
    /\ pc' = "idle"
    /\ UNCHANGED <<stored, disk, args, secret, possible, out, db, entry>>

\* A return from main, or a panic: the locals are dropped on the way.
End(code) ==
    /\ exit' = code
    /\ pc' = "idle"
    /\ db' = NoDatabase
    /\ entry' = NoEntry
    /\ UNCHANGED <<stored, disk, args, secret, possible, out>>

GoOn(place) ==
    /\ pc' = place
    /\ UNCHANGED <<stored, disk, args, exit>>

Start(a) ==
    /\ pc = "idle"
    /\ args' = a
    /\ exit' = Running
    /\ pc' = "args"
    /\ secret' = NoSecret
    /\ possible' = {}
    /\ out' = <<>>
    /\ UNCHANGED <<stored, disk, db, entry>>

\* env::args() panics on an argument that is not Unicode.
Usage ==
    /\ pc = "args"
    /\ \/ args.shape = "not_unicode" /\ End(101)
       \/ args.shape = "count" /\ End(2)

\* `open` is called and asks the store.
Open ==
    /\ pc = "args"
    /\ args.shape = "ok"
    /\ \/ /\ stored \in Secrets
          /\ secret' = stored
          /\ possible' = Promise(stored, disk)
          /\ GoOn("open")
          /\ UNCHANGED <<out, db, entry>>
       \/ stored \notin Secrets /\ End(1)

\* `open` returns.
Opened ==
    /\ pc = "open"
    /\ \E o \in possible :
         \/ /\ o \in Valid
            /\ db' = o
            /\ GoOn("lookup")
            /\ UNCHANGED <<secret, possible, out, entry>>
         \/ o \notin Valid /\ End(1)

\* Wrong on purpose: the user name and the password change places.
BuildEntryMixed(f) ==
    [username |-> f["Password"], password |-> f["UserName"],
     url      |-> f["URL"],      notes    |-> f["Notes"]]

\* The four fields of the entry, copied out of the database.
BuildEntry(f) ==
    [username |-> f["UserName"], password |-> f["Password"],
     url      |-> f["URL"],      notes    |-> f["Notes"]]

Lookup ==
    /\ pc = "lookup"
    /\ \/ \E n \in Nodes :
             /\ Answer(TreeOf[db], args.path, n)
             /\ entry' = BuildEntry(FieldsOf[db][n])
             /\ GoOn("entry")
             /\ UNCHANGED <<secret, possible, out, db>>
       \/ /\ \E e \in {"InvalidPath", "EntryNotFound", "AmbiguousEntry"} :
                Answer(TreeOf[db], args.path, e)
          /\ End(1)

\* println!: the line is written, or nobody reads stdout and it panics.
Println(line, place) ==
    \/ /\ out' = Append(out, line)
       /\ GoOn(place)
       /\ UNCHANGED <<secret, possible, db, entry>>
    \/ End(101)

\* Wrong on purpose: an entry without the field is taken for an empty value.
PrintOrDefault(value) ==
    Println(<<"value", value>>, "printed")

PrintValue(value) ==
    \/ value # None /\ Println(<<"value", value>>, "printed")
    \/ value = None /\ End(1)

Getpass ==
    /\ pc = "entry"
    /\ args.tool = "getpass"
    /\ PrintValue(entry.password)

\* The name of the field is looked at only now.
Getfield ==
    /\ pc = "entry"
    /\ args.tool = "getfield"
    /\ LET field == Lower[args.field] IN
       \/ field \in DOMAIN entry /\ PrintValue(entry[field])
       \/ field \notin DOMAIN entry /\ End(2)

\* Four lines, none with the password.
LookupTool ==
    /\ pc = "entry"
    /\ args.tool = "lookup"
    /\ \/ Len(out) = 0 /\ Println(<<"OK", None>>, "entry")
       \/ Len(out) = 1 /\ Println(<<"username", entry.username>>, "entry")
       \/ Len(out) = 2 /\ Println(<<"url", entry.url>>, "entry")
       \/ Len(out) = 3 /\ Println(<<"password", None>>, "printed")

Succeed ==
    /\ pc = "printed"
    /\ End(0)

Step == Usage \/ Open \/ Opened \/ Lookup \/ Getpass \/ Getfield
            \/ LookupTool \/ Succeed

\* Others provision the store and save the database at any time.
HostChanges ==
    /\ \/ stored' \in Stores /\ UNCHANGED disk
       \/ disk' \in Disks /\ UNCHANGED stored
    /\ possible' = IF pc # "idle" /\ secret # NoSecret
                   THEN possible \cup Promise(secret, disk') ELSE possible
    /\ UNCHANGED runVars

Next == (\E a \in Calls : Start(a)) \/ Step \/ HostChanges

Spec == Init /\ [][Next]_vars

----------------------------------------------------------------------------
\* What lies behind KeepsContract: the handle is of an instant of the run,
\* the entry is the one the path names in it, and what was printed is the
\* beginning, in the end the whole, of what the run has to print of it.
OfOneInstant ==
    /\ pc = "args" => secret = NoSecret
    /\ pc \in {"args", "open", "lookup"} => out = <<>>
    /\ pc \in {"lookup", "entry", "printed"} => db \in possible
    /\ pc \in {"entry", "printed"} =>
          \E n \in Named[args][db] : entry = BuildEntry(FieldsOf[db][n])
    /\ pc = "entry" =>
          \/ args.tool # "lookup" /\ out = <<>>
          \/ /\ args.tool = "lookup"
             /\ Len(out) < 4
             /\ out = SubSeq(Report[args][db].lines, 1, Len(out))
    /\ pc = "printed" =>
          /\ Report[args][db].code = 0
          /\ Report[args][db].lines = out

Inv == TypeOK /\ OfOneInstant

\* What a script gets from a run, its output and its exit code together, is
\* what one instant of the run gives: no line of an earlier save with one of
\* a later, no value under an error, no success without the whole value,
\* and never the password from the lookup example.
KeepsContract == Contract!Spec

=============================================================================
