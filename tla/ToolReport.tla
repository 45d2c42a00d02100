----------------------------- MODULE ToolReport -----------------------------
(***************************************************************************)
(* What a run of one of the three programs has to end with: its exit code  *)
(* and the lines on its stdout, for every command line and every outcome   *)
(* of the open (the usage texts and README of the programs).               *)
(***************************************************************************)
EXTENDS OpenPromise, PathNames

CONSTANTS
    Calls,          \* command lines: the program, whether the arguments are
                    \* the right number of Unicode texts, and the path and
                    \* the field among them
    TreeOf,         \* the tree of each database
    FieldsOf,       \* what each of its entries holds under each KeePass name
    Lower,          \* to_lowercase, on the field names given to getfield
    Texts,          \* the values of fields
    None            \* a field that an entry does not have

Tools == {"getpass", "getfield", "lookup"}

Shapes == {"ok", "count", "not_unicode"}

KeePassFields == {"UserName", "Password", "URL", "Notes"}

ASSUME ReportAssumption ==
    /\ Valid \subseteq Versions
    /\ KeyOf \in [Versions -> Secrets]
    /\ Versions \cap (DatabaseErrors \cup {"AuthenticationFailed"}) = {}
    /\ Nodes \cap {"InvalidPath", "EntryNotFound", "AmbiguousEntry"} = {}
    /\ Calls \subseteq [tool  : Tools,        shape : Shapes,
                        path  : Seq(Pieces),  field : DOMAIN Lower]
    /\ TreeOf \in [Valid -> Trees]
    /\ FieldsOf \in [Valid -> [Nodes -> [KeePassFields -> Texts \cup {None}]]]
    /\ None \notin Texts

\* Each field that may be asked for, under the name KeePass has for it.
KeePassName ==
    [username |-> "UserName", password |-> "Password",
     url      |-> "URL",      notes    |-> "Notes"]

Silent(code) == [code |-> code, lines |-> <<>>]

Shown(a, f) ==
    LET field == IF a.tool = "getpass" THEN "password" ELSE Lower[a.field] IN
    CASE a.tool = "lookup" ->
            [code  |-> 0,
             lines |-> << <<"OK", None>>, <<"username", f["UserName"]>>,
                          <<"url", f["URL"]>>, <<"password", None>> >>]
      [] a.tool # "lookup" /\ field \notin DOMAIN KeePassName -> Silent(2)
      [] a.tool # "lookup" /\ field \in DOMAIN KeePassName
            /\ f[KeePassName[field]] = None -> Silent(1)
      [] OTHER -> [code  |-> 0,
                   lines |-> << <<"value", f[KeePassName[field]]>> >>]

\* The entries that the path of a call names in a database, if it is one.
Named ==
    [a \in Calls |-> [v \in Valid |->
        LET matches == Matches(TreeOf[v], a.path) IN
        {n \in Nodes : ~Malformed(a.path) /\ matches = {n}}]]

\* What a run ends with on each outcome of the open.
Report ==
    [a \in Calls |-> [o \in Outcomes |->
        IF o \in Valid /\ Named[a][o] # {}
        THEN Shown(a, FieldsOf[o][CHOOSE n \in Named[a][o] : TRUE])
        ELSE Silent(1)]]

=============================================================================
