---------------------------- MODULE CsLinuxStore ----------------------------
(***************************************************************************)
(* The Linux secret store of the C# library.  It knows the systemd         *)
(* directory only, and looks at the text of the key where the Rust crate   *)
(* looks at its path components.                                           *)
(***************************************************************************)
EXTENDS LinuxStore

CONSTANT BackslashNames \* the names among Names that contain a backslash

ASSUME BackslashAssumption == BackslashNames \subseteq Names

\* Wrong on purpose: the NUL byte is not looked for.
CsAcceptsNul(key) == Len(key) = 1 /\ key[1] \in Names \ BackslashNames

\* Not empty, not "." or "..", and neither separator nor NUL byte in it.
CsIsSafeCredentialId(key) ==
    /\ Len(key) = 1
    /\ key[1] \in Names \ (NulNames \cup BackslashNames)

\* Wrong on purpose: only a missing file is caught.
CsReadFromDirUncaught(dir, key) ==
    IF ~CsIsSafeCredentialId(key) \/ creds[dir][key[1]] = "missing"
    THEN "SecretNotFound" ELSE creds[dir][key[1]]

\* File.ReadAllBytes, then strict UTF-8.
CsReadFromDir(dir, key) ==
    IF ~CsIsSafeCredentialId(key) THEN "SecretNotFound"
    ELSE LET c == creds[dir][key[1]] IN
         CASE c = "missing"     -> "SecretNotFound"
           [] c \in Secrets     -> c
           [] OTHER             -> "PermissionDenied"

\* string.IsNullOrEmpty: a variable set to "" counts as unset.
CsGetMasterPassword(env, key) ==
    IF env.cd \in {"unset", "empty"} THEN "PermissionDenied"
    ELSE CsReadFromDir("systemd", key)

=============================================================================
