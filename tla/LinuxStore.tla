----------------------------- MODULE LinuxStore -----------------------------
(***************************************************************************)
(* The Linux secret store of the Rust crate: which directory is searched,  *)
(* which keys are accepted, and what reading the credential file returns.  *)
(*                                                                         *)
(* A key is the sequence of pieces its text has between slashes: "k" is    *)
(* <<"k">>, "k/" is <<"k", "">>, "/k" is <<"", "k">>, "" is <<"">>.        *)
(***************************************************************************)
EXTENDS Host, Sequences

CONSTANT NulNames   \* the names among Names that contain a NUL byte

\* What lies between two separators that follow each other.
EmptyPiece == ""

KeyPieces == {EmptyPiece, ".", ".."} \cup Names

ASSUME StoreAssumption ==
    /\ NulNames \subseteq Names
    /\ Names \cap {EmptyPiece, ".", ".."} = {}
    /\ Secrets \cap {"missing", "unreadable", "NotFound", "NotADirectory",
                     "Other", "SecretNotFound", "PermissionDenied"} = {}

\* What an environment variable of the process may be.
Settings == {"unset", "empty", "set"}

\* $CREDENTIALS_DIRECTORY and $KDBX_CREDENTIALS_DIR.
Environments == [cd: Settings, kd: Settings]

\* An empty directory name joined with a key is the key itself, which the
\* system resolves in the working directory.
DirOf(setting, dir) == IF setting = "empty" THEN "cwd" ELSE dir

\* var_os distinguishes unset only: a variable set to "" is used.
CredentialsDir(env) ==
    CASE env.cd # "unset"                       -> DirOf(env.cd, "systemd")
      [] env.cd = "unset" /\ env.kd # "unset"   -> DirOf(env.kd, "override")
      [] OTHER                                  -> "etc"

HasRoot(key) == Len(key) > 1 /\ key[1] = EmptyPiece

\* std::path::Path::components: repeated separators, a separator at the end
\* and every "." but a leading one disappear; a root is a component.
Components(key) ==
    {i \in 1..Len(key) : \/ key[i] \notin {EmptyPiece, "."}
                         \/ i = 1 /\ (key[1] = "." \/ HasRoot(key))}

\* Wrong on purpose: only the last component is looked at.
EndsInName(key) ==
    \E i \in Components(key) : /\ \A j \in Components(key) : j <= i
                              /\ key[i] \in Names \ NulNames

\* The first component is a normal one, and there is no second.
IsSafeCredentialId(key) ==
    \E i \in 1..Len(key) : /\ Components(key) = {i}
                           /\ key[i] \in Names \ NulNames

\* read_to_string(dir.join(key)) for an accepted key, whose first piece is
\* the name of the file: what follows it makes the system treat the file as
\* a directory.
ReadToString(dir, key) ==
    LET c == creds[dir][key[1]] IN
    CASE c = "missing"                          -> "NotFound"
      [] c # "missing" /\ Len(key) > 1          -> "NotADirectory"
      [] c = "unreadable" /\ Len(key) = 1       -> "Other"
      [] OTHER                                  -> c

ReadFromDir(dir, key) ==
    IF ~IsSafeCredentialId(key) THEN "SecretNotFound"
    ELSE LET answer == ReadToString(dir, key) IN
         CASE answer = "NotFound"       -> "SecretNotFound"
           [] answer \in Secrets        -> answer
           [] OTHER                     -> "PermissionDenied"

\* Wrong on purpose: the file store stands in for a missing credential.
GetMasterPasswordAnywhere(env, key) ==
    LET answer == ReadFromDir(CredentialsDir(env), key) IN
    IF answer = "SecretNotFound" THEN ReadFromDir("etc", key) ELSE answer

GetMasterPassword(env, key) == ReadFromDir(CredentialsDir(env), key)

=============================================================================
