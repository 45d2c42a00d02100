---------------------------- MODULE ToolContract ----------------------------
(***************************************************************************)
(* What a run of kdbx-getpass, kdbx-getfield or the lookup example         *)
(* promises the script that started it: a run reads the stored password at *)
(* one instant, and its exit code together with everything it has printed  *)
(* is what a run of no duration, with that password and at some instant    *)
(* since, would have given.  Only a reader that closes its end of stdout   *)
(* can cut the output short, and the exit code then says so.               *)
(***************************************************************************)
EXTENDS OpenPromise, Naturals, Sequences

CONSTANTS
    Calls,          \* command lines
    Report,         \* what a run of no duration ends with, for each of them
                    \* and each outcome of the open
    NoSecret,       \* no password was read
    Running, NotRun \* the exit code of a run under way, and before any run

VARIABLES
    stored,     \* what the secret store holds for the key
    disk,       \* the database path: its condition and the parts of its file
    args,       \* the command line
    secret,     \* the password the run was given by the store
    possible,   \* what an instantaneous open would have returned so far
    out,        \* what was printed to stdout, line by line
    exit        \* the exit code

vars == <<stored, disk, args, secret, possible, out, exit>>

----------------------------------------------------------------------------
Init ==
    /\ secret = NoSecret
    /\ possible = {}
    /\ out = <<>>
    /\ exit = NotRun

Ask(a) ==
    /\ exit # Running
    /\ exit' = Running
    /\ args' = a
    /\ secret' = NoSecret
    /\ possible' = {}
    /\ out' = <<>>
    /\ UNCHANGED <<stored, disk>>

\* The store is asked once in a run.
Take ==
    /\ exit = Running
    /\ args.shape = "ok"
    /\ secret = NoSecret
    /\ stored \in Secrets
    /\ secret' = stored
    /\ possible' = Promise(stored, disk)
    /\ UNCHANGED <<stored, disk, args, out, exit>>

\* The machine changes at any time, also under a run.
Change ==
    /\ possible' = IF exit = Running /\ secret # NoSecret
                   THEN possible \cup Promise(secret, disk') ELSE possible
    /\ UNCHANGED <<args, secret, out, exit>>

\* One more line; all of them are of one instant.
Write ==
    /\ exit = Running
    /\ \E o \in possible :
          LET lines == Report[args][o].lines IN
          /\ Len(out) < Len(lines)
          /\ out = SubSeq(lines, 1, Len(out))
          /\ out' = SubSeq(lines, 1, Len(out) + 1)
    /\ UNCHANGED <<stored, disk, args, secret, possible, exit>>

\* The run ends: without an open, or with all that was to be printed.
Finish ==
    /\ exit = Running
    /\ \/ args.shape = "count" /\ exit' = 2
       \/ args.shape = "not_unicode" /\ exit' = 101
       \/ /\ args.shape = "ok" /\ secret = NoSecret /\ stored \notin Secrets
          /\ exit' = 1
       \/ \E o \in possible :
             /\ out = Report[args][o].lines
             /\ exit' = Report[args][o].code
    /\ UNCHANGED <<stored, disk, args, secret, possible, out>>

\* Nobody reads stdout any more.
Break ==
    /\ exit = Running
    /\ \E o \in possible :
          /\ Len(out) < Len(Report[args][o].lines)
          /\ out = SubSeq(Report[args][o].lines, 1, Len(out))
    /\ exit' = 101
    /\ UNCHANGED <<stored, disk, args, secret, possible, out>>

Next == (\E a \in Calls : Ask(a)) \/ Take \/ Change \/ Write \/ Finish \/ Break

Spec == Init /\ [][Next]_vars

=============================================================================
