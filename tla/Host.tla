------------------------------- MODULE Host -------------------------------
(***************************************************************************)
(* The machine a call of the libraries runs on: the file at the database   *)
(* path, and the credential files the Linux secret stores read.  None of   *)
(* it is code of the repository; it is modelled from the calls the         *)
(* libraries make (stat, open, read, the KDBX decryption) and from what    *)
(* they distinguish in the answers.                                        *)
(*                                                                         *)
(* A database file is a head (the KDBX4 header, its hash and its HMAC) and *)
(* a body (the encrypted blocks), read and written in that order.  A       *)
(* version is one complete save; a part that is not written yet is NoPart. *)
(***************************************************************************)
EXTENDS Naturals

CONSTANTS
    Secrets,        \* master passwords
    Versions,       \* complete saves that may lie at the database path
    Valid,          \* those among them that are KDBX4 databases
    KeyOf,          \* the master password each version was saved under
    NoPart,         \* the part of a file that has not been written
    Inodes,         \* files on the disk: a rename puts another one in place
    Conds,          \* the conditions of the database path the host may meet
    Volatile,       \* those among them that may set in during a call
    Dirs,           \* directories that hold credential files
    Names           \* names of credential files

AllConds == {"ok", "no_file", "no_parent", "not_a_dir", "directory",
             "no_search", "no_read", "io_error"}

(***************************************************************************)
(* The conditions: the file is in place and readable; its last component   *)
(* or its parent directory is missing; a component before the last is not  *)
(* a directory; a directory is in its place; a directory on the way cannot *)
(* be searched; the file cannot be read; the device fails.                 *)
(***************************************************************************)
ASSUME HostAssumption ==
    /\ Valid \subseteq Versions
    /\ KeyOf \in [Versions -> Secrets]
    /\ NoPart \notin Versions
    /\ Versions \cap {"DatabaseIntegrity", "Key"} = {}
    /\ Conds \subseteq AllConds
    /\ Volatile \subseteq Conds

CredStates == Secrets \cup {"missing", "unreadable"}

Parts == Versions \cup {NoPart}

Contents == [head: Parts, body: Parts]

VARIABLES
    cond,           \* the condition of the database path
    inode,          \* the file at the path
    file,           \* what each file holds
    creds           \* what each credential file holds

hostVars == <<cond, inode, file, creds>>

HostTypeOK ==
    /\ cond \in Conds
    /\ inode \in Inodes
    /\ file \in [Inodes -> Contents]
    /\ creds \in [Dirs -> [Names -> CredStates]]

Saved(v) == [head |-> v, body |-> v]

Truncated == Saved(NoPart)

\* A body is never there without the head it was written after.
WrittenInOrder == \A i \in Inodes : file[i].body \in {NoPart, file[i].head}

HostInit ==
    /\ cond \in Conds
    /\ inode \in Inodes
    /\ \E v \in Versions : file = [i \in Inodes |-> Saved(v)]
    /\ creds \in [Dirs -> [Names -> CredStates]]

----------------------------------------------------------------------------
(* What the system calls answer.                                            *)

\* metadata(): the type of the file, or the kind of the error.
StatAnswer ==
    [c \in AllConds |->
        CASE c \in {"ok", "no_read"}         -> "file"
          [] c = "directory"                 -> "dir"
          [] c \in {"no_file", "no_parent"}  -> "NotFound"
          [] c = "no_search"                 -> "PermissionDenied"
          [] c = "not_a_dir"                 -> "NotADirectory"
          [] OTHER                           -> "Other"]

\* open() for reading: a directory can be opened, only reading it fails.
OpenAnswer ==
    [c \in AllConds |->
        CASE c = "ok"                           -> "file"
          [] c = "directory"                    -> "dir"
          [] c \in {"no_file", "no_parent"}     -> "NotFound"
          [] c \in {"no_search", "no_read"}     -> "PermissionDenied"
          [] c = "not_a_dir"                    -> "NotADirectory"
          [] OTHER                              -> "Other"]

\* Decryption of the bytes read.  The header is checked first: its format,
\* then, with the password, its HMAC; a body that does not belong to the
\* header fails the integrity check of its blocks.
Decrypt(secret, head, body) ==
    CASE head \notin Valid                          -> "DatabaseIntegrity"
      [] head \in Valid /\ KeyOf[head] # secret     -> "Key"
      [] head \in Valid /\ KeyOf[head] = secret
                        /\ body # head              -> "DatabaseIntegrity"
      [] OTHER                                      -> head

----------------------------------------------------------------------------
(* What other programs do to the machine.                                   *)

\* An administrator writes or removes one credential file.
Provision(d, n, c) ==
    /\ creds' = [creds EXCEPT ![d][n] = c]
    /\ UNCHANGED <<cond, inode, file>>

\* The condition of the path changes: a mount goes away, a mode is changed.
ChangeCond(c) ==
    /\ cond' = c
    /\ UNCHANGED <<inode, file, creds>>

\* A save to a temporary file that is then renamed over the database.
Replace(i, v) ==
    /\ cond = "ok"
    /\ i # inode
    /\ inode' = i
    /\ file' = [file EXCEPT ![i] = Saved(v)]
    /\ UNCHANGED <<cond, creds>>

\* A save in place: the file is truncated, then its parts are written in
\* order.  The program that saves may stop after any of the steps.
Truncate ==
    /\ cond = "ok"
    /\ file' = [file EXCEPT ![inode] = Truncated]
    /\ UNCHANGED <<cond, inode, creds>>

WriteHead(v) ==
    /\ cond = "ok"
    /\ file[inode] = Truncated
    /\ file' = [file EXCEPT ![inode] = [head |-> v, body |-> NoPart]]
    /\ UNCHANGED <<cond, inode, creds>>

WriteBody ==
    /\ cond = "ok"
    /\ file[inode].head # NoPart
    /\ file[inode].body = NoPart
    /\ file' = [file EXCEPT ![inode] = Saved(file[inode].head)]
    /\ UNCHANGED <<cond, inode, creds>>

=============================================================================
