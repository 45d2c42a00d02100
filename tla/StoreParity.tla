----------------------------- MODULE StoreParity -----------------------------
(***************************************************************************)
(* The two Linux stores side by side: one process asks both for the same   *)
(* key in the same environment, for every environment, every key of a set  *)
(* and every content of the credential directories.                        *)
(***************************************************************************)
EXTENDS CsLinuxStore, Integers

CONSTANTS
    Keys,           \* the keys asked for
    SecretIn,       \* the secret each directory has, if it has one
    NoAnswer

\* The directories of both stores are among those modelled; a key is a
\* sequence of pieces; an answer tells that the stores have been asked.
TwoStores ==
    /\ {"systemd", "override", "etc", "cwd"} \subseteq Dirs
    /\ "ok" \in Conds
    /\ SecretIn \in [Dirs -> Secrets]
    /\ Keys \subseteq Seq(KeyPieces)
    /\ NoAnswer \notin Secrets

VARIABLES env, key, rust, cs

parityVars == <<hostVars, env, key, rust, cs>>

ParityInit ==
    /\ cond = "ok"
    /\ inode \in Inodes
    /\ \E v \in Versions : file = [i \in Inodes |-> Saved(v)]
    /\ \E state \in [Dirs -> {"missing", "unreadable", "secret"}] :
            creds = [d \in Dirs |-> [n \in Names |->
                        IF state[d] = "secret" THEN SecretIn[d] ELSE state[d]]]
    /\ env \in Environments
    /\ key \in Keys
    /\ rust = NoAnswer
    /\ cs = NoAnswer

Ask ==
    /\ rust = NoAnswer
    /\ rust' = GetMasterPassword(env, key)
    /\ cs' = CsGetMasterPassword(env, key)
    /\ UNCHANGED <<hostVars, env, key>>

ParityNext == Ask

ParitySpec == ParityInit /\ [][ParityNext]_parityVars

----------------------------------------------------------------------------
\* Types: the stores answer with a secret or one of their two errors.
ParityTypeOK ==
    /\ HostTypeOK
    /\ env \in Environments
    /\ key \in Keys
    /\ {rust, cs} \subseteq
            Secrets \cup {"SecretNotFound", "PermissionDenied", NoAnswer}

\* How deep below the directory the first i pieces of a key lead: the
\* system's own walk of dir/key, piece by piece.
Depth(k) ==
    LET f[i \in 0..Len(k)] ==
            IF i = 0 THEN 0
            ELSE f[i - 1] + (CASE k[i] = ".."   -> -1
                               [] k[i] \in Names -> 1
                               [] OTHER         -> 0)
    IN  f

\* secret_store.rs: an accepted key "stays inside the credentials directory":
\* it is relative, and its walk ends at an entry of the directory without
\* having left it.  Keys that either library accepts are meant.
StaysInside ==
    IsSafeCredentialId(key) \/ CsIsSafeCredentialId(key) =>
        /\ ~HasRoot(key)
        /\ \A i \in 0..Len(key) : Depth(key)[i] \in {0, 1}
        /\ Depth(key)[Len(key)] = 1

\* The directory systemd names is the only one asked when it is named: a
\* secret of another directory never stands in for one that is missing or
\* unreadable there.  A variable that is set to the empty string names the
\* working directory in the Rust store and none in the C# store; the file
\* store does not stand in then either.
NoOtherDirectory ==
    /\ env.cd # "unset" /\ rust \in Secrets
            => rust = SecretIn[DirOf(env.cd, "systemd")]
    /\ cs \in Secrets => env.cd = "set" /\ cs = SecretIn["systemd"]

\* What the C# store answers under systemd, the Rust store answers too, but
\* for the keys with a backslash, which only C# refuses, and those with a
\* separator behind the name, which only Rust accepts.
StoresAgree ==
    env.cd = "set" /\ key \notin {<<n>> : n \in BackslashNames}
        => \/ rust = cs
           \/ /\ Len(key) > 1
              /\ <<rust, cs>> = <<"PermissionDenied", "SecretNotFound">>

=============================================================================
