---------------------------- MODULE OpenPromise ----------------------------
(***************************************************************************)
(* What an open of no duration promises (SPEC.md and ERRORS.md).           *)
(***************************************************************************)
CONSTANTS Secrets, Versions, Valid, KeyOf

DatabaseErrors == {"DatabaseNotFound", "DatabaseCorrupt", "PermissionDenied"}

Outcomes == Versions \cup DatabaseErrors
                     \cup {"AuthenticationFailed", "SecretNotFound"}

\* What an instantaneous open with password s promises on a path in state d.
\* The header is judged before the body.  About a device that fails, the
\* documentation promises no more than an error of the database.
Judged(s, d) ==
    CASE d.head \notin Valid                        -> "DatabaseCorrupt"
      [] d.head \in Valid /\ KeyOf[d.head] # s      -> "AuthenticationFailed"
      [] d.head \in Valid /\ KeyOf[d.head] = s
                          /\ d.body # d.head        -> "DatabaseCorrupt"
      [] OTHER                                      -> d.head

Promise(s, d) ==
    CASE d.cond = "ok"                                         -> {Judged(s, d)}
      [] d.cond \in {"no_file", "no_parent", "not_a_dir", "directory"}
                                                    -> {"DatabaseNotFound"}
      [] d.cond \in {"no_search", "no_read"}        -> {"PermissionDenied"}
      [] OTHER                                      -> DatabaseErrors

SecretError(c) ==
    IF c = "missing" THEN "SecretNotFound" ELSE "PermissionDenied"

=============================================================================
