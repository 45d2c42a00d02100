------------------------------ MODULE CsSession ------------------------------
(***************************************************************************)
(* What the C# library keeps in memory: the copies of the master password  *)
(* that `Database.Open` makes, the handles, and the entries looked up on   *)
(* them, each disposed by the caller in an order of his own.  Arrays are   *)
(* cleared by the library; a string can only become unreachable, and stays *)
(* in memory until the garbage collector comes.                            *)
(***************************************************************************)
CONSTANTS
    Handles, Entries,   \* slots for those the caller holds
    Fields,             \* the four fields of an entry
    Copied,             \* those of which ReadSafe makes a new string
    NoHandle

ASSUME SessionAssumption ==
    /\ Copied \subseteq Fields
    /\ NoHandle \notin Handles
    /\ Handles \cap Entries = {}

VARIABLES
    phase,      \* where the Open under way is
    arrays,     \* the arrays that hold the master password
    heap,       \* the strings with a secret that are in memory
    handle,     \* the Database in each slot: none, open or disposed
    entry,      \* the Entry in each slot: is it in use, its handle, and the
                \* fields that are not null
    answer      \* what the last Lookup came to

sessionVars == <<phase, arrays, heap, handle, entry, answer>>

\* The string made of the array; those that a database hands out of its own,
\* and those of an entry.
Master == <<NoHandle, "master">>

Owned(h) == {h} \X (Fields \ Copied)

StringOf(h, e, f) == IF f \in Copied THEN <<e, f>> ELSE <<h, f>>

Strings == {Master} \cup (UNION {Owned(h) : h \in Handles})
                      \cup (Entries \X Copied)

\* What can still be reached from a local of Open, a handle or an entry.
Reachable ==
    {s \in {Master} : phase = "open"}
    \cup (UNION {Owned(h) : h \in {x \in Handles : handle[x] = "open"}})
    \cup (UNION {{StringOf(entry[e].of, e, f) : f \in entry[e].fields} :
                    e \in Entries})

\* Types; a Lookup ends with an entry or with a documented exception.
SessionTypeOK ==
    /\ phase \in {"idle", "bytes", "chars", "open"}
    /\ arrays \subseteq {"bytes", "chars"}
    /\ heap \subseteq Strings
    /\ handle \in [Handles -> {"none", "open", "disposed"}]
    /\ entry \in [Entries -> [used   : BOOLEAN,
                              of     : Handles \cup {NoHandle},
                              fields : SUBSET Fields]]
    /\ answer \in {"none", "Entry", "KdbxException", "ObjectDisposedException"}

SessionInit ==
    /\ phase = "idle"
    /\ arrays = {}
    /\ heap = {}
    /\ handle = [h \in Handles |-> "none"]
    /\ entry = [e \in Entries |-> [used |-> FALSE, of |-> NoHandle, fields |-> {}]]
    /\ answer = "none"

----------------------------------------------------------------------------
(* Database.Open.                                                           *)

Throw ==
    /\ phase' = "idle"
    /\ UNCHANGED <<heap, handle, entry, answer>>

ReadAllBytes ==
    /\ phase = "idle"
    /\ arrays' = arrays \cup {"bytes"}
    /\ phase' = "bytes"
    /\ UNCHANGED <<heap, handle, entry, answer>>

\* The strict decoder may throw; the bytes are cleared by the finally.
GetChars ==
    /\ phase = "bytes"
    /\ \/ /\ arrays' = (arrays \cup {"chars"}) \ {"bytes"}
          /\ phase' = "chars"
          /\ UNCHANGED <<heap, handle, entry, answer>>
       \/ arrays' = arrays \ {"bytes"} /\ Throw

NewString ==
    /\ phase = "chars"
    /\ heap' = heap \cup {Master}
    /\ phase' = "open"
    /\ UNCHANGED <<arrays, handle, entry, answer>>

\* A database comes into a slot that nothing refers to any more.
Return ==
    /\ phase' = "idle"
    /\ \E h \in Handles :
          /\ handle[h] # "open"
          /\ \A e \in Entries : entry[e].used => entry[e].of # h
          /\ handle' = [handle EXCEPT ![h] = "open"]
          /\ heap' = heap \cup Owned(h)
    /\ UNCHANGED <<entry, answer>>

\* Wrong on purpose: the array is cleared if a database is returned.
OpenThenClear ==
    /\ phase = "open"
    /\ \/ arrays' = arrays \ {"chars"} /\ Return
       \/ UNCHANGED arrays /\ Throw

\* OpenWithPassword returns or throws, and the finally clears the array.
OpenWithPassword ==
    /\ phase = "open"
    /\ arrays' = arrays \ {"chars"}
    /\ Return \/ Throw

----------------------------------------------------------------------------
(* Handles and entries.                                                     *)

\* Wrong on purpose: without a look at _disposed, RootGroup is null.
LookupUnchecked(h) ==
    /\ handle[h] = "disposed"
    /\ answer' = "NullReferenceException"
    /\ UNCHANGED <<phase, arrays, heap, handle, entry>>

LookupDisposed(h) ==
    /\ handle[h] = "disposed"
    /\ answer' = "ObjectDisposedException"
    /\ UNCHANGED <<phase, arrays, heap, handle, entry>>

\* An entry with some of the fields, in a free slot, or a typed exception.
Lookup(h) ==
    /\ handle[h] = "open"
    /\ \/ \E e \in Entries, present \in SUBSET Fields :
             /\ ~entry[e].used
             /\ entry' = [entry EXCEPT ![e] =
                            [used |-> TRUE, of |-> h, fields |-> present]]
             /\ heap' = heap \cup {StringOf(h, e, f) : f \in present}
             /\ answer' = "Entry"
       \/ answer' = "KdbxException" /\ UNCHANGED <<entry, heap>>
    /\ UNCHANGED <<phase, arrays, handle>>

\* Wrong on purpose: a handle disposes the entries it has handed out.
DisposeAll(h) ==
    /\ handle[h] = "open"
    /\ handle' = [handle EXCEPT ![h] = "disposed"]
    /\ entry' = [e \in Entries |->
                    IF entry[e].of = h THEN [entry[e] EXCEPT !.fields = {}]
                                       ELSE entry[e]]
    /\ UNCHANGED <<phase, arrays, heap, answer>>

\* Close drops the tree; a second Dispose does nothing.
Dispose(h) ==
    /\ handle[h] = "open"
    /\ handle' = [handle EXCEPT ![h] = "disposed"]
    /\ UNCHANGED <<phase, arrays, heap, entry, answer>>

\* Wrong on purpose: the notes are forgotten.
DisposeEntryButNotes(e) ==
    /\ entry[e].used
    /\ entry' = [entry EXCEPT ![e].used = FALSE,
                              ![e].fields = entry[e].fields \cap {"Notes"}]
    /\ UNCHANGED <<phase, arrays, heap, handle, answer>>

DisposeEntry(e) ==
    /\ entry[e].used
    /\ entry' = [entry EXCEPT ![e].used = FALSE, ![e].fields = {}]
    /\ UNCHANGED <<phase, arrays, heap, handle, answer>>

\* The garbage collector takes a string that nothing refers to.
Collect(s) ==
    /\ s \in heap \ Reachable
    /\ heap' = heap \ {s}
    /\ UNCHANGED <<phase, arrays, handle, entry, answer>>

Open == ReadAllBytes \/ GetChars \/ NewString \/ OpenWithPassword

SessionNext ==
    \/ Open
    \/ \E h \in Handles : Lookup(h) \/ LookupDisposed(h) \/ Dispose(h)
    \/ \E e \in Entries : DisposeEntry(e)
    \/ \E s \in Strings : Collect(s)

SessionSpec == SessionInit /\ [][SessionNext]_sessionVars

\* The garbage collector runs again and again.
SessionFairSpec == SessionSpec /\ \A s \in Strings : WF_sessionVars(Collect(s))

----------------------------------------------------------------------------
\* Which arrays hold the password follows from where Open is.
ArraysHeld ==
    arrays = CASE phase = "idle"   -> {}
               [] phase = "bytes"  -> {"bytes"}
               [] OTHER         -> {"chars"}

\* A field that is there is one of an entry that is in use, and its string
\* is in memory.
FieldsInMemory ==
    \A e \in Entries : \A f \in entry[e].fields :
        /\ entry[e].used
        /\ StringOf(entry[e].of, e, f) \in heap

\* The inductive invariant behind ArraysCleared and EntryIsItsOwn: what the
\* library holds of a secret at each point, array by array and field by field.
SessionInv == SessionTypeOK /\ ArraysHeld /\ FieldsInMemory

\* Between two calls no array holds the master password, whichever way the
\* calls before ended.
ArraysCleared == phase = "idle" => arrays = {}

\* An entry keeps its fields, and their strings stay in memory, until it is
\* disposed itself, whatever happens to its handle, to the other entries or
\* to the database whose strings it shares.
EntryIsItsOwn ==
    [][\A e \in Entries :
          /\ entry[e].used => entry'[e] = entry[e] \/ DisposeEntry(e)
          /\ \A f \in entry'[e].fields :
                StringOf(entry'[e].of, e, f) \in heap']_sessionVars

\* Once no call runs and the caller has disposed every handle and every
\* entry for good, the garbage collector gets every string with a secret:
\* no field of the library keeps one.
MemoryForgets ==
    <>[](/\ phase = "idle"
         /\ \A h \in Handles : handle[h] # "open"
         /\ \A e \in Entries : ~entry[e].used)
        => <>[](heap = {})

=============================================================================
