------------------------------ MODULE OpenCall ------------------------------
(***************************************************************************)
(* The frame of a call of `open`, in either library, on a machine that     *)
(* other programs change under it: one caller that opens the configured    *)
(* database again and again.  RustOpen and CsOpen add the system calls.    *)
(***************************************************************************)
EXTENDS LinuxStore

CONSTANTS
    Env,            \* the environment of the process
    Key,            \* the configured secret_store_key
    NoSecret,       \* no password is held
    NoFile,         \* no file is open
    NoOutcome       \* no call has returned yet

ASSUME CallAssumption ==
    /\ Env \in Environments
    /\ CredentialsDir(Env) \in Dirs
    /\ \E n \in Names \ NulNames : Key = <<n>>
    /\ NoSecret \notin Secrets
    /\ {NoFile, "dir"} \cap Inodes = {}
    /\ NoFile # "dir"

VARIABLES
    pc,         \* the next system call
    secret,     \* the master password held by the call
    fd,         \* the open file
    head,       \* the part of it already read
    outcome,    \* what the last call returned
    possible    \* history: what an instantaneous open could have returned

callVars == <<pc, secret, fd, head, outcome>>

vars == <<hostVars, callVars, possible>>

\* What the documentation says the store holds for this environment and key:
\* the file <key> of the directory, none other.
Stored == creds[CredentialsDir(Env)][Key[1]]

Disk == [cond |-> cond, head |-> file[inode].head, body |-> file[inode].body]

Contract == INSTANCE OpenContract
    WITH stored <- Stored, disk <- Disk, running <- (pc # "idle")

\* Types; a call holds the password exactly while it runs, and a file exactly
\* while it reads.
TypeOK ==
    /\ HostTypeOK
    /\ pc \in {"idle", "check", "open", "head", "body"}
    /\ secret \in Secrets \cup {NoSecret}
    /\ fd \in Inodes \cup {"dir", NoFile}
    /\ head \in Parts
    /\ outcome \in Contract!Outcomes \cup {NoOutcome}
    /\ possible \subseteq Contract!Outcomes
    /\ secret = NoSecret <=> pc = "idle"
    /\ fd = NoFile <=> pc \notin {"head", "body"}

Init ==
    /\ HostInit
    /\ pc = "idle"
    /\ secret = NoSecret
    /\ fd = NoFile
    /\ head = NoPart
    /\ outcome = NoOutcome
    /\ possible = {}

----------------------------------------------------------------------------
\* Wrong on purpose: a return that leaves the password in the process.
FinishKeepingSecret(result) ==
    /\ outcome' = result
    /\ pc' = "idle"
    /\ fd' = NoFile
    /\ head' = NoPart
    /\ possible' = {}
    /\ UNCHANGED secret

\* Wrong on purpose: a rejected password is tried again, without asking the
\* store for the one of now.
FinishOrRetry(result) ==
    /\ outcome' = result
    /\ fd' = NoFile
    /\ head' = NoPart
    /\ \/ /\ result = "AuthenticationFailed"
          /\ pc' = "check"
          /\ UNCHANGED <<secret, possible>>
       \/ /\ result # "AuthenticationFailed"
          /\ pc' = "idle"
          /\ secret' = NoSecret
          /\ possible' = {}

\* Every return drops the password and closes the file.
Finish(result) ==
    /\ outcome' = result
    /\ pc' = "idle"
    /\ secret' = NoSecret
    /\ fd' = NoFile
    /\ head' = NoPart
    /\ possible' = {}

\* What a step that does not return leaves behind: the password is held ...
Hold(password) ==
    /\ secret' = password
    /\ pc' = "check"
    /\ possible' = Contract!Promise(password, Disk)
    /\ UNCHANGED <<fd, head, outcome>>

\* ... or there is none, and nothing was held yet; ...
Refuse(error) ==
    /\ outcome' = error
    /\ UNCHANGED <<pc, secret, fd, head, possible>>

\* ... the path was found to be a file; ...
Checked ==
    /\ pc' = "open"
    /\ UNCHANGED <<secret, fd, head, outcome, possible>>

\* ... it is open; ...
Opened(descriptor) ==
    /\ fd' = descriptor
    /\ pc' = "head"
    /\ UNCHANGED <<secret, head, outcome, possible>>

\* ... and its head was read, from the descriptor, whatever is at the path
\* by now.
HeadRead ==
    /\ head' = file[fd].head
    /\ pc' = "body"
    /\ UNCHANGED <<secret, fd, outcome, possible>>

\* A read of a directory, or of a device that fails, is an I/O error.
ReadFails == fd = "dir" \/ cond = "io_error"

----------------------------------------------------------------------------
\* A condition outside Volatile sets in between two calls only, and a file
\* that is open is not reused for a save.
HostStep ==
    \/ \E d \in Dirs, n \in Names, c \in CredStates : Provision(d, n, c)
    \/ \E c \in Conds : (pc = "idle" \/ c \in Volatile) /\ ChangeCond(c)
    \/ \E i \in Inodes \ {fd}, v \in Versions : Replace(i, v)
    \/ Truncate
    \/ \E v \in Versions : WriteHead(v)
    \/ WriteBody

HostChanges ==
    /\ HostStep
    /\ possible' = IF pc = "idle" THEN possible
                   ELSE possible \cup Contract!Promise(secret, Disk')
    /\ UNCHANGED callVars

----------------------------------------------------------------------------
(* What holds at every step of a call, in either library.                   *)

\* While a call runs, what an open of this very instant would return counts
\* among what the call may return.
ThisInstantCounts ==
    pc # "idle" => Contract!Promise(secret, Disk) \subseteq possible

\* A directory that is open was at the path during the call.
DirectoryWasSeen == fd = "dir" => "DatabaseNotFound" \in possible

\* The open file, possibly gone from the path since, holds nothing that an
\* instant of the call did not show at the path.
OpenFileWasSeen ==
    pc \in {"head", "body"} /\ fd \in Inodes
        => Contract!Judged(secret, file[fd]) \in possible

\* What the head already read decides is accounted for; a head that is good
\* is still the head of the file, or the file was seen broken since.
HeadWasSeen ==
    pc = "body" =>
        /\ head \notin Valid => "DatabaseCorrupt" \in possible
        /\ head \in Valid /\ KeyOf[head] # secret
                => "AuthenticationFailed" \in possible
        /\ head \in Valid /\ KeyOf[head] = secret /\ fd \in Inodes
                => file[fd].head = head \/ "DatabaseCorrupt" \in possible

CallInv ==
    /\ TypeOK
    /\ WrittenInOrder
    /\ ThisInstantCounts
    /\ DirectoryWasSeen
    /\ OpenFileWasSeen
    /\ HeadWasSeen

\* Past the open, the descriptor is one of a file.
AFileIsOpen == pc \in {"head", "body"} => fd \in Inodes

\* `open` keeps the promise of OpenContract: what it puts together from a
\* password, a check, an open and two reads at different instants is what one
\* instant would have given.
KeepsContract == Contract!Spec

\* Everything between the store and the file is as it should be.
Settled ==
    /\ cond = "ok"
    /\ file[inode].head \in Valid
    /\ file[inode].body = file[inode].head
    /\ Stored = KeyOf[file[inode].head]

\* Nothing of an earlier failure or of an earlier password survives in the
\* process: once provisioning and the database agree for good, every call
\* but the one under way returns a database that is open.
Recovers == <>[]Settled => <>[](outcome \in Valid)

=============================================================================
