------------------------------ MODULE RustOpen ------------------------------
(***************************************************************************)
(* `open` of the Rust crate, one action per system call, in the order of   *)
(* lib.rs.                                                                 *)
(***************************************************************************)
EXTENDS OpenCall

MapIoError(kind) ==
    CASE kind = "NotFound"          -> "DatabaseNotFound"
      [] kind = "PermissionDenied"  -> "PermissionDenied"
      [] OTHER                      -> "DatabaseCorrupt"

MapOpenError(e) ==
    CASE e = "Key"                  -> "AuthenticationFailed"
      [] e = "PermissionDenied"     -> "PermissionDenied"
      [] OTHER                      -> "DatabaseCorrupt"

\* The store is asked first; without a password the call ends there.
Fetch ==
    /\ pc = "idle"
    /\ LET answer == GetMasterPassword(Env, Key) IN
       \/ answer \in Secrets /\ Hold(answer)
       \/ answer \notin Secrets /\ Refuse(answer)
    /\ UNCHANGED hostVars

\* Wrong on purpose: the file is opened without a look at what it is.
MetadataSkipped ==
    /\ pc = "check"
    /\ Checked
    /\ UNCHANGED hostVars

Metadata ==
    /\ pc = "check"
    /\ LET answer == StatAnswer[cond] IN
       \/ answer = "file" /\ Checked
       \/ answer = "dir" /\ Finish("DatabaseNotFound")
       \/ answer \notin {"file", "dir"} /\ Finish(MapIoError(answer))
    /\ UNCHANGED hostVars

OpenFile ==
    /\ pc = "open"
    /\ LET answer == OpenAnswer[cond] IN
       \/ answer = "file" /\ Opened(inode)
       \/ answer = "dir" /\ Opened("dir")
       \/ answer \notin {"file", "dir"} /\ Finish(MapIoError(answer))
    /\ UNCHANGED hostVars

\* Wrong on purpose: the head is read from what is at the path by now.
ReadHeadAtPath ==
    /\ pc = "head"
    /\ head' = file[inode].head
    /\ pc' = "body"
    /\ UNCHANGED <<hostVars, secret, fd, outcome, possible>>

\* The file is read from its beginning.
ReadHead ==
    /\ pc = "head"
    /\ \/ ReadFails /\ Finish(MapOpenError("Other"))
       \/ ~ReadFails /\ HeadRead
    /\ UNCHANGED hostVars

\* The rest is read, and the whole is decrypted.
ReadBody ==
    /\ pc = "body"
    /\ \/ ReadFails /\ Finish(MapOpenError("Other"))
       \/ /\ ~ReadFails
          /\ LET answer == Decrypt(secret, head, file[fd].body) IN
             Finish(IF answer \in Versions THEN answer ELSE MapOpenError(answer))
    /\ UNCHANGED hostVars

Call == Fetch \/ Metadata \/ OpenFile \/ ReadHead \/ ReadBody

----------------------------------------------------------------------------
Next == Call \/ HostChanges

Spec == Init /\ [][Next]_vars

\* The call makes progress, and a caller asks again: the hourly timer.
FairSpec == Spec /\ WF_vars(Call)

----------------------------------------------------------------------------
\* Past the metadata check the path is not a directory.
NoDirectory == pc = "open" => cond # "directory"

\* The inductive invariant behind KeepsContract: at every step of `open`,
\* what the call will return is among what an open that took no time could
\* have returned since it began.
Inv == CallInv /\ AFileIsOpen /\ NoDirectory

----------------------------------------------------------------------------
\* What open_with_password returns is promised, but for a path that was no
\* file at an instant of the call, which it may call corrupt.
PromisedOrCorrupt(result) ==
    \/ result \in possible
    \/ result = "DatabaseCorrupt" /\ "DatabaseNotFound" \in possible

\* The check by metadata and the open by File::open may see different things
\* at the path, a directory or a component that is no directory among them.
\* Whatever they see, the worst a caller gets is DatabaseCorrupt in place of
\* DatabaseNotFound: a database, a rejected password or a refused access is
\* always that of an instant of the call.
AtWorstCorrupt ==
    [][pc # "idle" /\ pc' = "idle" => PromisedOrCorrupt(outcome')]_vars

\* error.rs: DatabaseCorrupt is a file that "exists and is readable but
\* cannot be parsed", so the call that returns it has read the file.
CorruptMeansUnparsable ==
    [][pc # "idle" /\ pc' = "idle" /\ outcome' = "DatabaseCorrupt"
        => pc = "body" /\ ~ReadFails]_vars

=============================================================================
