---------------------------- MODULE Provisioning ----------------------------
(***************************************************************************)
(* provision-credential.ps1: an administrator puts the master password in  *)
(* a file and runs the script, which writes it to the vault of the account *)
(* and shreds the file.  The script may be stopped before any of its       *)
(* steps, each of which may fail, and run again.                           *)
(***************************************************************************)
EXTENDS WindowsStore

CONSTANTS NoFile, NoPassword, NoExit

ASSUME ScriptAssumption ==
    /\ {NoFile, NoPassword} \cap Texts = {}
    /\ NoExit \notin {0, 1}

VARIABLES
    file,       \* the password file
    vault,      \* what the credential manager answers for the key
    pc,         \* the next step of the script
    pw,         \* $pw
    exit,       \* $exit, and the exit code of the last run
    warned,     \* the run has logged that it could not shred the file
    given,      \* history: what the administrator put in the file
    unshredded  \* history: a run has since left the file half shredded

vars == <<file, vault, pc, pw, exit, warned, given, unshredded>>

Zeroed == [word |-> Zeros, newlines |-> 0]

\* Types; an empty password is never written.
TypeOK ==
    /\ file \in Texts \cup {NoFile}
    /\ vault \in Texts \cup {Absent, NotText}
    /\ pc \in {"idle", "test", "read", "write", "confirm",
               "shred", "overwrite", "remove"}
    /\ pw \in (Texts \ {EmptyText}) \cup {NoPassword}
    /\ exit \in {0, 1, NoExit}
    /\ warned \in BOOLEAN
    /\ given \in Texts
    /\ unshredded \in BOOLEAN
    /\ pc \in {"write", "confirm"} => pw # NoPassword

Init ==
    /\ file = NoFile
    /\ vault = Absent
    /\ pc = "idle"
    /\ pw = NoPassword
    /\ exit = NoExit
    /\ warned = FALSE
    /\ given = EmptyText
    /\ unshredded = FALSE

----------------------------------------------------------------------------
(* The administrator and other programs.                                    *)

PutFile(text) ==
    /\ pc = "idle"
    /\ file' = text
    /\ given' = text
    /\ exit' = NoExit
    /\ unshredded' = FALSE
    /\ UNCHANGED <<vault, pc, pw, warned>>

TakeFileBack ==
    /\ file' = NoFile
    /\ UNCHANGED <<vault, pc, pw, exit, warned, given, unshredded>>

ChangeVault ==
    /\ vault' \in {Absent, NotText}
    /\ UNCHANGED <<file, pc, pw, exit, warned, given, unshredded>>

----------------------------------------------------------------------------
(* The script.                                                              *)

Start ==
    /\ pc = "idle"
    /\ pc' = "test"
    /\ exit' = NoExit
    /\ warned' = FALSE
    /\ UNCHANGED <<file, vault, pw, given, unshredded>>

\* Wrong on purpose: without finally, a failed run leaves the file.
FailUnshredded ==
    /\ exit' = 1
    /\ pc' = "idle"
    /\ pw' = NoPassword
    /\ UNCHANGED <<file, vault, warned, given, unshredded>>

\* catch, then finally.
Fail ==
    /\ exit' = 1
    /\ pc' = "shred"
    /\ UNCHANGED <<file, vault, pw, warned, given, unshredded>>

\* Log and Test-Path.  A log file that cannot be written ends the try too.
TestPath ==
    /\ pc = "test"
    /\ \/ Fail
       \/ /\ file # NoFile
          /\ pc' = "read"
          /\ UNCHANGED <<file, vault, pw, exit, warned, given, unshredded>>

\* -replace '(\r?\n)\z', '': one newline, if there is one.
Chomp(text) ==
    [text EXCEPT !.newlines = IF text.newlines = 0 THEN 0
                                                   ELSE text.newlines - 1]

\* Wrong on purpose: an empty password is not looked for.
ReadAny ==
    /\ pc = "read"
    /\ \/ Fail
       \/ /\ file # NoFile
          /\ pw' = Chomp(file)
          /\ pc' = "write"
          /\ UNCHANGED <<file, vault, exit, warned, given, unshredded>>

\* Get-Content may fail, also on a file that is gone by now.
Read ==
    /\ pc = "read"
    /\ \/ Fail
       \/ /\ file # NoFile
          /\ Chomp(file) # EmptyText
          /\ pw' = Chomp(file)
          /\ pc' = "write"
          /\ UNCHANGED <<file, vault, exit, warned, given, unshredded>>

\* A command line ends at its first NUL character: of zeros nothing arrives.
Stored(text) == IF text.word = Zeros THEN EmptyText ELSE text

\* Wrong on purpose: the exit code of cmdkey is not looked at.
WriteUnchecked ==
    /\ pc = "write"
    /\ vault' \in {vault, Stored(pw)}
    /\ pc' = "confirm"
    /\ UNCHANGED <<file, pw, exit, warned, given, unshredded>>

\* cmdkey /generic writes the credential or fails.
Write ==
    /\ pc = "write"
    /\ \/ Fail
       \/ /\ vault' = Stored(pw)
          /\ pc' = "confirm"
          /\ UNCHANGED <<file, pw, exit, warned, given, unshredded>>

\* cmdkey /list names the key if there is a credential.  It may do so if
\* there is none, in a heading; and it may fail, or Log behind it, although
\* there is one.
Confirm ==
    /\ pc = "confirm"
    /\ \/ Fail
       \/ /\ exit' = 0
          /\ pc' = "shred"
          /\ UNCHANGED <<file, vault, pw, warned, given, unshredded>>

\* The end of the process, and of what it holds.
Exit(code) ==
    /\ pc' = "idle"
    /\ exit' = code
    /\ pw' = NoPassword
    /\ UNCHANGED <<vault, given>>

\* The catch of finally: the warning is on the console, and if the log file
\* cannot be written, the script ends there.
Warn ==
    /\ warned' = TRUE
    /\ \E code \in {exit, 1} : Exit(code)

TestShred ==
    /\ pc = "shred"
    /\ \/ file = NoFile /\ Exit(exit) /\ UNCHANGED <<file, warned, unshredded>>
       \/ /\ file # NoFile
          /\ pc' = "overwrite"
          /\ UNCHANGED <<file, vault, pw, exit, warned, given, unshredded>>

\* WriteAllBytes truncates the file and then fills it; a failure leaves it as
\* it was, or empty.
Overwrite ==
    /\ pc = "overwrite"
    /\ \/ /\ file # NoFile
          /\ file' = IF file = EmptyText THEN file ELSE Zeroed
          /\ pc' = "remove"
          /\ UNCHANGED <<vault, pw, exit, warned, given, unshredded>>
       \/ /\ file' \in IF file = NoFile THEN {NoFile} ELSE {file, EmptyText}
          /\ unshredded' = TRUE
          /\ Warn

\* Wrong on purpose: the failure is not logged.
RemoveSilently ==
    /\ pc = "remove"
    /\ \/ file # NoFile /\ file' = NoFile /\ UNCHANGED <<warned, unshredded>>
       \/ unshredded' = TRUE /\ UNCHANGED <<file, warned>>
    /\ Exit(exit)

\* The warning may also be about a file that is gone, but for the log.
Remove ==
    /\ pc = "remove"
    /\ \/ /\ file # NoFile
          /\ file' = NoFile
          /\ UNCHANGED <<warned, unshredded>>
          /\ Exit(exit)
       \/ /\ \/ file # NoFile /\ file' = NoFile /\ UNCHANGED unshredded
             \/ unshredded' = TRUE /\ UNCHANGED file
          /\ Warn

\* The script is stopped, at the worst while it overwrites the file.
Stop ==
    /\ pc # "idle"
    /\ pc' = "idle"
    /\ pw' = NoPassword
    /\ exit' = NoExit
    /\ \/ UNCHANGED file
       \/ pc = "overwrite" /\ file # NoFile /\ file' = EmptyText
    /\ unshredded' = (unshredded \/ pc \in {"overwrite", "remove"})
    /\ UNCHANGED <<vault, warned, given>>

Step ==
    \/ Start \/ TestPath \/ Read \/ Write \/ Confirm
    \/ TestShred \/ Overwrite \/ Remove

Next ==
    \/ \E text \in Texts : text.word # Zeros /\ PutFile(text)
    \/ TakeFileBack
    \/ ChangeVault
    \/ Step
    \/ Stop

Spec == Init /\ [][Next]_vars

----------------------------------------------------------------------------
\* provision-credential.ps1, "Exit code 0 = credential written" and "the
\* stored secret must match the database password exactly": after a run that
\* says so, no reader in either library is given anything else, whatever
\* the vault held before and however often the script was stopped and run
\* again; but not after a run that left the file half shredded, since the
\* next one takes what is left for the password.
ReadersGetThePassword ==
    pc = "idle" /\ exit = 0 /\ ~unshredded /\ vault # NotText =>
        {RustMasterPassword(vault), CsMasterPassword(vault)}
            \subseteq {Chomp(given), SecretNotFound}

\* "That file is shredded afterwards": no run that comes to its end leaves
\* the password in the file, whichever step failed, unless it says so.
PlaintextIsGone ==
    pc = "idle" /\ exit # NoExit /\ ~warned => file = NoFile

\* What $pw, $exit and the vault have to do with each other on the way.
Inv ==
    /\ TypeOK
    /\ given.word # Zeros
    /\ ~unshredded /\ pc # "remove" => file \in {given, NoFile}
    /\ ~unshredded /\ pc \in {"write", "confirm"} => pw = Chomp(given)
    /\ ~unshredded /\ (pc = "confirm" \/ exit = 0) =>
            vault \in {Chomp(given), Absent, NotText}
    /\ pc \in {"test", "read", "write", "confirm"} => exit = NoExit
    /\ pc # "idle" => ~warned
    /\ PlaintextIsGone

=============================================================================
