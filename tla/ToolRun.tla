------------------------------- MODULE ToolRun -------------------------------
(***************************************************************************)
(* What a run of one of the programs is to those around it, as in          *)
(* ToolContract: shared by the modules of the programs and of the task     *)
(* that runs one of them.                                                  *)
(***************************************************************************)
EXTENDS ToolReport

CONSTANTS
    Disks,              \* states of the database path
    NoSecret,           \* no password has been taken
    Running, NotRun     \* exit, before there is a code

VARIABLES
    disk,               \* the database path
    args, out, exit,    \* the command line, the lines on stdout, the exit code
    secret, possible    \* the password taken for the run and what an open of
                        \* the path with it may have come to since: history

\* What the store has for the key.
Stores == Secrets \cup {"missing", "unreadable"}

=============================================================================
