---------------------------- MODULE WindowsStore ----------------------------
(***************************************************************************)
(* The secret stores of the two libraries on Windows: what each makes of   *)
(* what the credential manager answers for the key, which is the text of   *)
(* the credential or one of Absent, NotText and Failed.                    *)
(***************************************************************************)
EXTENDS Naturals

CONSTANTS
    Words,          \* what a text consists of besides its last newlines
    Empty,          \* the word without a character
    Zeros,          \* a word overwritten with zeros
    MaxNewlines,    \* bound of the newlines behind a word
    Absent,         \* there is no credential
    NotText,        \* its blob is not UTF-16
    Failed,         \* access denied, or another error
    Replaced,       \* a text of replacement characters
    SecretNotFound, PermissionDenied

Texts == [word : Words \cup {Empty, Zeros}, newlines : 0..MaxNewlines]

EmptyText == [word |-> Empty, newlines |-> 0]

ASSUME StoreAssumption ==
    /\ Empty \notin Words \cup {Zeros}
    /\ MaxNewlines \in Nat
    /\ Texts \cap {Absent, NotText, Failed, SecretNotFound} = {}
    /\ Absent \notin {NotText, Failed}

\* get_password and map_error: a blob that is not text is an error.
RustMasterPassword(answer) ==
    CASE answer = Absent              -> SecretNotFound
      [] answer \in {NotText, Failed} -> PermissionDenied
      [] OTHER                        -> answer

\* Encoding.Unicode replaces what it cannot decode.
CsMasterPassword(answer) ==
    CASE answer = Absent  -> SecretNotFound
      [] answer = Failed  -> PermissionDenied
      [] answer = NotText -> Replaced
      [] OTHER            -> answer

=============================================================================
