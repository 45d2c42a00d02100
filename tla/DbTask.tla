------------------------------- MODULE DbTask -------------------------------
(***************************************************************************)
(* deploy/systemd: the hourly task that fetches the password of PostgreSQL *)
(* with kdbx-getpass and connects with it.  The timer starts the unit,     *)
(* systemd copies the decrypted credential for it, the script runs getpass *)
(* (by what ToolContract promises of it) and psql.  Meanwhile somebody     *)
(* rotates the master password, the entry or the password of the server,   *)
(* the share goes away, the machine restarts.                              *)
(***************************************************************************)
EXTENDS ToolRun

CONSTANTS
    Captured,       \* the text that $( ) makes of the text a program printed
    Passwords,      \* those the server may be given
    Down,           \* the server does not answer
    NoCredential,   \* there is no $CREDENTIALS_DIRECTORY
    Unset,          \* PGPASSWORD is not set
    EmptyText,
    Killed          \* the exit code of a getpass that was killed

VARIABLES
    credstore,  \* the credential in /etc/credstore.encrypted
    server,     \* the password that PostgreSQL takes
    unit,       \* where the unit is
    loaded,     \* the credential in $CREDENTIALS_DIRECTORY
    pgpassword,
    result      \* how the last run of the unit ended

toolVars == <<args, secret, possible, out, exit>>

taskVars == <<unit, loaded, pgpassword, result>>

hostVars == <<credstore, server, disk>>

allVars == <<hostVars, taskVars, toolVars>>

\* The one command line in the script.
TheCall == CHOOSE a \in Calls : TRUE

\* A getpass, which the script gives the right number of texts; what stands
\* for nothing is nothing else.
OneCall ==
    /\ Calls = {TheCall}
    /\ TheCall.tool = "getpass" /\ TheCall.shape = "ok"
    /\ Captured \in [Texts \cup {EmptyText} -> Texts \cup {EmptyText}]
    /\ Unset \notin Texts \cup {EmptyText}
    /\ NoSecret \notin Secrets
    /\ NoCredential \notin Secrets \cup {"missing"}
    /\ Running \notin {NotRun, Killed, 0, 1, 2, 101}
    /\ 0 \notin {NotRun, Killed}

Program == INSTANCE ToolContract WITH stored <- loaded

\* Types; what is decrypted for a run is gone at its end, however it ends.
TaskTypeOK ==
    /\ credstore \in Stores
    /\ server \in Passwords \cup {Down}
    /\ disk \in Disks
    /\ unit \in {"inactive", "script", "getpass", "psql"}
    /\ loaded \in Secrets \cup {"missing", NoCredential}
    /\ result \in {"none", "success", "failure", "dependency", "credentials"}
    /\ exit \in {Running, NotRun, Killed, 0, 1, 2, 101}
    /\ exit = Running => unit = "getpass"
    /\ loaded = NoCredential <=> unit = "inactive"
    /\ pgpassword = Unset <=> unit # "psql"

TaskInit ==
    /\ credstore \in Stores
    /\ server \in Passwords \cup {Down}
    /\ disk \in Disks
    /\ unit = "inactive"
    /\ loaded = NoCredential
    /\ pgpassword = Unset
    /\ result = "none"
    /\ args = TheCall
    /\ Program!Init

----------------------------------------------------------------------------
\* Wrong on purpose: the decrypted credential outlives the run.
StopLoaded(how) ==
    /\ unit' = "inactive"
    /\ pgpassword' = Unset
    /\ result' = how
    /\ UNCHANGED loaded

\* Wrong on purpose: RemainAfterExit=yes, the unit stays active on success.
StopRemaining(how) ==
    /\ unit' = IF how = "success" THEN "exited" ELSE "inactive"
    /\ loaded' = IF how = "success" THEN loaded ELSE NoCredential
    /\ pgpassword' = Unset
    /\ result' = how

\* The unit is inactive again and its credentials directory is removed.
Stop(how) ==
    /\ unit' = "inactive"
    /\ loaded' = NoCredential
    /\ pgpassword' = Unset
    /\ result' = how

\* The timer elapses; it starts a unit that is not active.  The share has to
\* be mounted, and systemd decrypts the credential.  One that is named only,
\* without a path, may be missing.
Trigger ==
    /\ unit = "inactive"
    /\ \/ disk.cond = "no_parent" /\ Stop("dependency")
       \/ /\ disk.cond # "no_parent" /\ credstore = "unreadable"
          /\ Stop("credentials")
       \/ /\ disk.cond # "no_parent" /\ credstore # "unreadable"
          /\ unit' = "script"
          /\ loaded' = credstore
          /\ UNCHANGED <<pgpassword, result>>
    /\ UNCHANGED <<hostVars, toolVars>>

\* The script comes to its $( ): a shell that reads what getpass prints.
Fetch ==
    /\ unit = "script"
    /\ Program!Ask(TheCall)
    /\ unit' = "getpass"
    /\ UNCHANGED <<credstore, server, pgpassword, result>>

\* Wrong on purpose: a pipe behind getpass, whose exit code is lost.
RunGetpassPiped ==
    /\ unit = "getpass"
    /\ \/ Program!Take \/ Program!Write
       \/ /\ exit = Running
          /\ exit' = 0
          /\ UNCHANGED <<loaded, disk, args, secret, possible, out>>
    /\ UNCHANGED <<credstore, server, unit, pgpassword, result>>

\* The shell reads to the end, so that stdout is never closed.
RunGetpass ==
    /\ unit = "getpass"
    /\ Program!Take \/ Program!Write \/ Program!Finish
    /\ UNCHANGED <<credstore, server, unit, pgpassword, result>>

\* The output without the newlines at its end, println's and others.
Output == IF out = <<>> THEN EmptyText ELSE Captured[out[1][2]]

\* Wrong on purpose: export PGPASSWORD="$( )", whose exit code is export's.
AssignAndExport ==
    /\ unit = "getpass"
    /\ exit # Running
    /\ pgpassword' = Output
    /\ unit' = "psql"
    /\ UNCHANGED <<hostVars, toolVars, loaded, result>>

\* PGPASSWORD="$( )": the exit code of getpass is that of the assignment,
\* and set -e ends the script on it.
Assign ==
    /\ unit = "getpass"
    /\ exit # Running
    /\ \/ exit # 0 /\ Stop("failure")
       \/ /\ exit = 0
          /\ pgpassword' = Output
          /\ unit' = "psql"
          /\ UNCHANGED <<loaded, result>>
    /\ UNCHANGED <<hostVars, toolVars>>

\* psql connects with PGPASSWORD; its exit code is the script's.
Psql ==
    /\ unit = "psql"
    /\ \/ pgpassword = server /\ Stop("success")
       \/ pgpassword # server /\ Stop("failure")
    /\ UNCHANGED <<hostVars, toolVars>>

\* The machine restarts, or the share is unmounted, which stops the unit.
Kill ==
    /\ unit # "inactive"
    /\ Stop("failure")
    /\ exit' = IF exit = Running THEN Killed ELSE exit
    /\ UNCHANGED <<hostVars, args, secret, possible, out>>

TaskHostChanges ==
    /\ \/ credstore' \in Stores /\ UNCHANGED <<server, disk>>
       \/ server' \in Passwords \cup {Down} /\ UNCHANGED <<credstore, disk>>
       \/ disk' \in Disks /\ UNCHANGED <<credstore, server>>
    /\ Program!Change
    /\ UNCHANGED taskVars

Script == Fetch \/ RunGetpass \/ Assign \/ Psql

TaskNext == Trigger \/ Script \/ Kill \/ TaskHostChanges

TaskSpec == TaskInit /\ [][TaskNext]_allVars

\* The timer elapses every hour, and the processes of the unit run.
TaskFairSpec == TaskSpec /\ WF_allVars(Trigger) /\ WF_allVars(Script)

----------------------------------------------------------------------------
\* psql is only ever started with the password of the entry the path names,
\* in a save that was at the path during this very run and that opens with
\* the credential this run was given: never with an empty one because
\* something failed, nor with one of an earlier run.
ConnectsWithTheEntry ==
    unit = "psql" =>
        \E o \in possible \cap Valid :
            \E n \in Named[TheCall][o] :
                /\ KeyOf[o] = loaded
                /\ FieldsOf[o][n]["Password"] # None
                /\ pgpassword = Captured[FieldsOf[o][n]["Password"]]

\* While getpass runs and after it, what it may find is in the database that
\* opens with the credential of this run; none of an earlier one is left.
FindsOfThisRun ==
    unit \in {"getpass", "psql"} =>
        /\ args = TheCall
        /\ possible \subseteq Outcomes
        /\ IF possible = {} THEN secret \in {NoSecret, loaded}
                           ELSE secret = loaded
        /\ \A o \in possible \cap Valid : KeyOf[o] = loaded

\* An exit code of 0 is that of a run that has printed all it had to.
SuccessIsReported ==
    unit = "getpass" /\ exit = 0 =>
        \E o \in possible : /\ Report[TheCall][o].code = 0
                            /\ out = Report[TheCall][o].lines

\* The inductive invariant behind ConnectsWithTheEntry.
TaskInv ==
    /\ TaskTypeOK
    /\ FindsOfThisRun
    /\ SuccessIsReported
    /\ ConnectsWithTheEntry

\* Credential, database and server agree on passwords that the shell passes
\* on as they are.
Agreed ==
    /\ disk.cond = "ok"
    /\ disk.head \in Valid /\ disk.body = disk.head
    /\ credstore = KeyOf[disk.head]
    /\ \E n \in Named[TheCall][disk.head] :
          /\ FieldsOf[disk.head][n]["Password"] = server
          /\ Captured[server] = server

\* Whatever happened before, and whatever a run left half done: once the
\* three agree for good and nothing kills the task any more, it runs again
\* and again and succeeds, without anybody's help.
TaskRecovers ==
    <>[]Agreed /\ <>[][~Kill]_allVars
        => <>[](result = "success") /\ []<>(unit = "psql")

=============================================================================
