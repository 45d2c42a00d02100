------------------------------- MODULE CsOpen -------------------------------
(***************************************************************************)
(* `Database.Open` of the C# library, one action per call it makes of the  *)
(* system, in the order of Database.cs.  The password it holds is the      *)
(* char[] of Open.                                                         *)
(***************************************************************************)
EXTENDS OpenCall, CsLinuxStore

\* The C# store has one directory, and refuses a key with a backslash.
ASSUME CsCallAssumption ==
    /\ Env.cd = "set"
    /\ Key[1] \notin BackslashNames

\* File.Exists: true of a file, false of a directory and on any error.
FileExists == [c \in AllConds |-> StatAnswer[c] = "file"]

\* new FileStream: the exceptions of .NET for the errors of open().  It
\* looks for the parent directory of a file it cannot find, and refuses to
\* open a directory.
FileStream ==
    [c \in AllConds |->
        CASE c = "ok"                                   -> "file"
          [] c \in {"no_search", "no_read", "directory"}
                                        -> "UnauthorizedAccessException"
          [] c = "no_file"              -> "FileNotFoundException"
          [] c = "no_parent"            -> "DirectoryNotFoundException"
          [] OTHER                      -> "IOException"]

\* What KeePassLib throws when Decrypt fails.
KeePassException(answer) ==
    IF answer = "Key" THEN "InvalidCompositeKeyException"
                      ELSE "InvalidDataException"

----------------------------------------------------------------------------
\* Wrong on purpose: what is not caught by name leaves the taxonomy.
CatchByName(exception) ==
    CASE exception = "InvalidCompositeKeyException" -> "AuthenticationFailed"
      [] exception = "UnauthorizedAccessException"  -> "PermissionDenied"
      [] exception = "FileNotFoundException"        -> "DatabaseNotFound"
      [] OTHER                                      -> exception

\* The catch clauses around PwDatabase.Open, in their order.
Catch(exception) ==
    CASE exception = "InvalidCompositeKeyException" -> "AuthenticationFailed"
      [] exception = "UnauthorizedAccessException"  -> "PermissionDenied"
      [] exception = "FileNotFoundException"        -> "DatabaseNotFound"
      [] OTHER                                      -> "DatabaseCorrupt"

\* The store is asked first; its exceptions pass through.
Fetch ==
    /\ pc = "idle"
    /\ LET answer == CsGetMasterPassword(Env, Key) IN
       \/ answer \in Secrets /\ Hold(answer)
       \/ answer \notin Secrets /\ Refuse(answer)
    /\ UNCHANGED hostVars

\* Wrong on purpose: it is left to PwDatabase.Open to find the file.
ExistsSkipped ==
    /\ pc = "check"
    /\ Checked
    /\ UNCHANGED hostVars

Exists ==
    /\ pc = "check"
    /\ \/ FileExists[cond] /\ Checked
       \/ ~FileExists[cond] /\ Finish("DatabaseNotFound")
    /\ UNCHANGED hostVars

OpenStream ==
    /\ pc = "open"
    /\ LET answer == FileStream[cond] IN
       \/ answer = "file" /\ Opened(inode)
       \/ answer # "file" /\ Finish(Catch(answer))
    /\ UNCHANGED hostVars

\* Wrong on purpose: the header is read from what is at the path by now.
ReadHeaderAtPath ==
    /\ pc = "head"
    /\ head' = file[inode].head
    /\ pc' = "body"
    /\ UNCHANGED <<hostVars, secret, fd, outcome, possible>>

ReadHeader ==
    /\ pc = "head"
    /\ \/ ReadFails /\ Finish(Catch("IOException"))
       \/ ~ReadFails /\ HeadRead
    /\ UNCHANGED hostVars

ReadBlocks ==
    /\ pc = "body"
    /\ \/ ReadFails /\ Finish(Catch("IOException"))
       \/ /\ ~ReadFails
          /\ LET answer == Decrypt(secret, head, file[fd].body) IN
             Finish(IF answer \in Versions THEN answer
                    ELSE Catch(KeePassException(answer)))
    /\ UNCHANGED hostVars

Call == Fetch \/ Exists \/ OpenStream \/ ReadHeader \/ ReadBlocks

----------------------------------------------------------------------------
Next == Call \/ HostChanges

Spec == Init /\ [][Next]_vars

\* The call makes progress, and a caller asks again.
FairSpec == Spec /\ WF_vars(Call)

----------------------------------------------------------------------------
\* Past File.Exists the path is one that FileStream may still fail on, but
\* with an exception that is mapped to the documented error.
ErrorIsMapped ==
    pc = "open" => cond \notin {"directory", "no_parent", "not_a_dir"}

\* The inductive invariant behind KeepsContract: as in RustOpen, what the
\* call will return is among what an open that took no time could have
\* returned since it began.
Inv == CallInv /\ AFileIsOpen /\ ErrorIsMapped

\* What OpenWithPassword ends with is promised, or it is an error of the
\* path where another error of the path is promised.
PromisedOrPathError(result) ==
    \/ result \in possible
    \/ /\ result \in Contract!DatabaseErrors
       /\ possible \cap Contract!DatabaseErrors # {}

\* File.Exists and the stream may see different things at the path, and the
\* first says no on every error.  Whatever they see, a caller gets at worst
\* one error of the path for another: a database or a rejected password is
\* always that of an instant of the call.
AtWorstAnotherError ==
    [][pc # "idle" /\ pc' = "idle" => PromisedOrPathError(outcome')]_vars

=============================================================================
