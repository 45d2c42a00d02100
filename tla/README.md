# A verification of the KeePass access libraries

The repository holds two libraries, a Rust crate and a C# package, that read
one entry of a KeePass (KDBX4) database with a master password kept in the
secret store of the operating system. This directory holds TLA+ models of what
the two libraries do, the TLC runs that check them on small instances, and
proofs, checked by TLAPS, of what the core promises for every instance.

## 1. The system

### Components

| component | source | state it keeps | operations |
|---|---|---|---|
| Rust `open` | `rust/kdbx-credentials/src/lib.rs:97-131,204-228`, `error.rs` | the password in `Zeroizing` and the open `File`, for the length of the call | `open`, `open_with_password` |
| Rust Linux store | `secret_store.rs:40-116` | none; reads two environment variables and one file | `get_master_password` |
| Rust `lookup` | `lib.rs:133-202`, `path.rs` | the handle's tree (read only) | `lookup`, `parse` |
| C# `Database` | `csharp/src/KdbxCredentials/Database.cs`, `PathParser.cs`, `Exceptions.cs` | the `PwDatabase`, `_disposed`; during `Open` three copies of the password | `Open`, `Lookup`, `Dispose` |
| C# Linux store | `SecretStore/LinuxSecretStore.cs` | none | `GetMasterPassword` |
| Windows stores | `secret_store.rs:173-199`, `WindowsSecretStore.cs` | none | one credential manager read |
| `Entry` (both) | `lib.rs:50-85`, `Entry.cs` | copies of four fields | drop or `Dispose`, redacted printing |
| provisioning | `provision-credential.ps1`, `provision-*.bat` | the password file, the vault | write, confirm, shred |
| programs | `rust/kdbx-credentials/examples/*.rs` | handle and entry, for one run; stdout and exit code | `getpass`, `getfield`, `lookup` |
| task | `deploy/systemd/*` | the unit, the decrypted credential, `PGPASSWORD` | fetch a password, run `psql`, every hour |

The caller, a program of a script or of a user's own, calls `open` with a path and a key; `open` asks the store for the
password and then stats, opens, reads and decrypts the file. `lookup` walks the
decrypted tree. Nothing is shared between two calls but what lies outside of the
process: the credential files, written by administrators, and the database,
saved by KeePass programs at any time, by rename or in place.

### What is hard

* `open` is not atomic. Between any two of its system calls the credential may
  be rotated, the file replaced, truncated or half written (for good, if the
  saving program stops), the mount may go away. Each error it reports must still
  name a condition that really held, and a database it returns must be one
  complete save that was at the path.
* The password is looked up *before* the database; what is returned has to make
  sense for that password, and no later call may reuse it.
* Errors are the interface: callers branch on the variant, and the documentation
  gives each variant a meaning and an action of the administrator.
* The two libraries are to accept the same keys and paths but are written with
  different means.
* A tree may hold groups and entries of equal names, which KeePass does not
  forbid.
* A script sees exit code and stdout only. The two have to fit together when the
  machine changes under the run, when a field is absent, and when the reader of
  stdout goes away between two lines.
* Master password, entry and the server's own password are rotated one by one,
  and the task runs in between; whatever a run makes of it, the next must not
  depend on it. `set -e` and `$( )` have rules of their own.
* In .NET only an array can be cleared. A string stays as long as something refers
  to it, and who does depends on the order in which handles and entries are
  disposed.

The hazards, each at the line where it bites and with the property that covers
it, are in `PROJECT.json`.

### What makes each component correct

* `open`: linearizability in the sense of `OpenContract`; the password and the
  file live no longer than the call; recovery without restart.
* stores: a key never leads out of the directory; only the documented directory
  is searched; both libraries agree.
* `lookup`: it answers for *all* entries the path names.
* programs: linearizability once more (`ToolContract`), of all that is printed
  together with the exit code.
* task: `psql` is never started with anything but the password of the entry, and
  the task recovers by itself.
* handle and entry: arrays cleared on every way out, an entry outlives its
  handle, nothing keeps a secret reachable once the caller has disposed all.
* provisioning: the credential is the one of the file, and the plaintext is gone
  at the end of every run that does not warn that it is not.

## 2. The modules

```
Host ── LinuxStore ──┬── OpenCall ──┬── RustOpen ── MCRustOpen, RustOpenProofs
 (external)          │      │       └── CsOpen ──── MCCsOpen, CsOpenProofs
                     │      │ INSTANCE      │
     OpenPromise ── OpenContract            │
          │          └── CsLinuxStore ──────┴── StoreParity ── MCStoreParity, CsOpenProofs
          │
          │   KeePassTree ── LookupCall ──┬── RustLookup ── MCRustLookup, RustLookupProofs
          │    (external)       │         │       ^ INSTANCE (refinement)
          │        │            │         └── CsLookup ──── MCCsLookup, CsLookupProofs
          │    PathNames ── LookupContract        (MCTrees: the trees of the MC modules)
          │        │
          ├────────┴── ToolReport ── ToolRun ──┬── Tool ──── MCTool, ToolProofs
          │                                    │    │ INSTANCE
          └─────────────────── ToolContract ───┼────┘
                                    ^ INSTANCE │
                                    └───────── DbTask ── MCDbTask, ToolProofs

WindowsStore ── Provisioning ── ProvisioningProofs
CsSession ── CsOpenProofs
```

The contracts compose. `RustOpen` implements `OpenContract`, whose promise is
`OpenPromise`; `RustLookup` implements `LookupContract`, whose answer is that of
`PathNames`; `Tool` is built from these two promises in place of the two calls and
implements `ToolContract`; `DbTask` runs `ToolContract` in place of `kdbx-getpass`.
Each level is checked against the one below by its promise, so that no run has to
hold the system calls of `open` and the states of the unit at the same time.

`OpenCallProofs` and `LookupCallProofs` hold the lemmas that both libraries'
proofs cite. `CsOpenProofs` also proves what stands behind `Database.Open`, the
store it asks (`StoreParity`) and the memory it leaves secrets in (`CsSession`), and
`ToolProofs` the task that runs a program (`DbTask`). Names that two of the
modules would share carry a prefix there: `ParityTypeOK`, `SessionInv`, `TaskNext`.

**Host** is the machine, modelled from the calls `src/` makes. A database path
has a condition (in place and readable, missing, a directory, unreadable, the
device fails, …), an inode and the contents of every inode. A file is a head
(header, its hash and HMAC) and a body, read and written in that order; a version
is one complete save, of which `Valid` are KDBX4 and `KeyOf` gives the password.
`StatAnswer` and `OpenAnswer` say what the two system calls answer in each
condition, `Decrypt` what the KDBX library answers for a password, a head and a
body. Its actions are what others do: `Provision`, `ChangeCond`, `Replace` (save by
rename), and `Truncate`, `WriteHead`, `WriteBody` (save in place, which may stop
after any of the three).

**OpenPromise** and **OpenContract** are the abstract specification of `open`, from
`SPEC.md` and `ERRORS.md`: a call reads the stored password at one instant (`Begin`, or
`Refuse` without one) and returns (`Return`) something that an open of no duration
would have returned with it at some instant since. `Promise(s, d)` is what such
an open may return on a path in state `d`.

**LinuxStore** and **CsLinuxStore** are the two Linux stores as operators on the
credential files. A key is the sequence of its pieces between slashes, so that
what `Path::components` does with repeated separators, trailing separators and
dots is there to be checked. Where each looks is a function of the environment: a
variable set to the empty string is used by Rust and taken as unset by C#.

**StoreParity** asks both stores the same question.

**OpenCall** is what a call of `open` has in both libraries: the locals `pc`,
`secret`, `fd`, `head`, the last `outcome`, what each kind of step leaves behind
(`Hold`, `Checked`, `Opened`, `HeadRead`, `Finish` on every return), and
`HostChanges`, a step of Host between any two steps of the call. `possible` is a
history variable of what an open of no duration could have returned since the
call began. It changes nothing and is what the refinement mapping to
`OpenContract` needs. **RustOpen** and **CsOpen** add the system calls, in the
order of the code, and how each error is mapped:

| RustOpen | code (`lib.rs`) | CsOpen | code (`Database.cs`) | what it may do |
|---|---|---|---|---|
| `Fetch` | 111 | `Fetch` | 43 | read the credential; return its error, or hold the password |
| `Metadata` | 120-123 | `Exists` | 61 | go on, or return `DatabaseNotFound` (Rust: or the mapped error) |
| `OpenFile` | 125 | `OpenStream` | 72 | hold a descriptor (in Rust also on a directory) or return |
| `ReadHead`, `ReadBody` | 127-128 | `ReadHeader`, `ReadBlocks` | 72-96 | read from the descriptor; decrypt and return |

`FileExists` and `FileStream` are what .NET makes of the same system calls,
`Catch` the catch clauses in their order.

**KeePassTree** is the decrypted tree (external), **PathNames** and
**LookupContract** the abstract specification of paths: a path names every entry that a chain of groups of these
names leads to, `Answer` is by the number of these. **LookupCall** is the frame of
a lookup: `Walk` starts at the root, `Follow` commits to the first of the
subgroups found (one action per iteration of the loop), `Count` judges the entries
found. **RustLookup** and **CsLookup** say how a path is parsed and which children
match: Rust lowers the path once and each title as it meets it, C# compares by
upper case and reads a missing title as the empty one. `Trim`, `Fold` and `Lower`
are functions on an alphabet of titles, and case and white space are therefore in
the instances. An entry handed out is the node; the copy of its four fields is
`BuildEntry` of `Tool`.

**ToolReport** says what each of `getpass`, `getfield` and `lookup` has to end with
on a command line and an outcome of the open: its exit code and its lines
(`Report`). **ToolContract** is the promise of a run while the machine changes: it
takes the password at one instant (`Take`), and output and exit code are those of
`Report` for one outcome that an open with it could have had since (`Write`,
`Finish`); only a reader that goes away cuts the output short (`Break`, 101, the
exit code of a panic). **ToolRun** declares what `Tool` and `DbTask` both have of a run.
**Tool** is the three `main` functions:

| Tool | code (`examples/`) | what it may do |
|---|---|---|
| `Start`, `Usage` | `getpass.rs:20-25` and the like | 101 on an argument that is not Unicode, 2 on a wrong number |
| `Open`, `Opened` | `getpass.rs:27-33` | ask the store; hold a handle, or end with 1 |
| `Lookup` | `getfield.rs:35-41`, `lib.rs:193-202` | hold an entry, or end with 1 |
| `Getpass`, `Getfield`, `LookupTool` | `getpass.rs:35-51`, `getfield.rs:43-64`, `lookup.rs:35-47` | print, one `println!` per step, or end with 1, 2 or, by a panic, 101 |
| `Succeed` | | end with 0 |

`End` is every way out of `main`: it drops handle and entry. `secret` and `possible`
are history, as in `OpenCall`.

**DbTask** is `deploy/systemd`: `Trigger` is the timer and what systemd does before
the script (the mount, the credential), `Fetch` the start of `$( )`, `RunGetpass` a
step of `ToolContract` with the decrypted credential as its store, `Assign` the
assignment under `set -e`, `Psql` the connection, `Stop` every end of the unit, which
takes the decrypted credential with it, `Kill` a restart or an unmount at any
point. `TaskHostChanges` rotates the credential, the entry, the master password of the
database and the password of the server, one at a time and in any order.

**CsSession** is what the C# library keeps in memory. `ReadAllBytes`, `GetChars`,
`NewString`, `OpenWithPassword` are the copies of the password that `Database.Open`
makes, each of which may be the last; `Lookup`, `LookupDisposed`, `Dispose` and
`DisposeEntry` are the caller's, on several handles and entries; `Collect` is the
garbage collector. Of an entry's fields some are new strings, made from a protected
value, and some are the database's own, shared with every entry of the handle
(`Copied` says which).

**WindowsStore** is what both Windows stores make of an answer of the credential
manager, **Provisioning** the script `provision-credential.ps1`, one action per
command that can fail: `TestPath` (54), `Read` (61-62), `Write` (68-69), `Confirm`
(72-76), `Fail` (the `catch`), `TestShred` (84), `Overwrite` (86-89), `Remove` (90),
`Warn` (93-95, the `catch` of the shredding), `Exit` (97). Each step may also fail
because the log cannot be written: before the shredding this leads to `Fail`, after
the removal to `Warn`, and a log that fails in a `catch` ends the run with 1. `Stop` is the process being killed before any of these, or in the
middle of the overwriting; `Start` runs it again. A text is a word with a number
of newlines behind it, since the script takes one off.

Definitions marked *wrong on purpose* are plausible mistakes in the definition
that follows them; no specification uses them. `PROJECT.json` pairs each with the
property that finds it.

## 3. The runs

| run | checks | bounds |
|---|---|---|
| `rust_open` | `TypeOK`, `Inv`, refinement `KeepsContract` | 2 passwords, 3 versions (one of each password, one not KDBX4), 2 files, 5 conditions |
| `cs_open` | the same of the C# call | the same |
| `rust_open_recovery` | `Recovers` under fairness, `AtWorstCorrupt` | 2 passwords, 2 versions, 2 files, conditions `ok`, `not_a_dir`, `directory`, `no_read`, `io_error`, each of which may set in during a call |
| `store_parity` | `ParityTypeOK`, `StaysInside`, `NoOtherDirectory`, `StoresAgree` | every key of up to 3 pieces over empty, `.`, `..` and 3 names; 9 environments; 4 directories, each with a secret, without, or unreadable |
| `rust_lookup` | `Inv`, refinement `KeepsContract` | every tree of 4 nodes, titles `a`, `A`, `b` or none, where no group has two subgroups of one name; 24 paths of 2 or 3 segments with each way to be malformed |
| `cs_lookup` | `Inv`, `AnswerIsNamed`, refinement `LibrariesAgree` of `RustLookup` | the same paths on every tree of 4 nodes |
| `tools` | `TypeOK`, `OfOneInstant`, refinement `KeepsContract` | 4 versions (3 valid, of 2 passwords), 6 states of the path, 11 command lines: each program, each shape, paths that name an entry, none or two depending on the save, fields present, absent and unknown |
| `db_task` | `TaskTypeOK`, `TaskInv`, `ConnectsWithTheEntry`, `TaskRecovers` under fairness | 2 master passwords, 3 saves, 5 states of the path, 2 passwords of the server and a server that is down, a password that ends in a newline |
| `cs_session` | `SessionTypeOK`, `SessionInv`, `ArraysCleared`, `EntryIsItsOwn`, `MemoryForgets` under fairness | 2 handles, 2 entries, one field of each kind of string, any number of calls |
| `provisioning` | `TypeOK`, `Inv`, `ReadersGetThePassword`, `PlaintextIsGone` | 2 passwords, 0 to 2 newlines, any number of runs |

Why the bounds are enough. Two files suffice because a call holds one descriptor
and sees one other file at the path; three versions are a version the password
opens, one it does not, and one nobody opens, and a fourth would repeat one of
these roles. The conditions of `rust_open` are one of each answer of the two
system calls; `no_parent` and `no_search` answer like `no_file` and `no_read` but
for metadata, and the proofs cover all of them. A tree of four nodes has two
subgroups of one name with an entry below either, an entry beside a group of its
title, and a chain of two groups; and the proofs cover all trees.
A key of three pieces has every pattern of name, separator and dot before, at and
behind a name, and the proofs cover keys of any length. Two passwords are the one of an earlier provisioning and the one of
this; of two newlines one stays.

A handle and an entry can be confused with at most one other, so that two of each
suffice in `cs_session`, and two fields are one of either kind of string. `tools`
needs two saves that open with one password, to confuse one with the other, and one
that does not; `db_task` needs an entry's password before and after a rotation of
it, and a third save for the master password.

Two more runs are expected to fail, each because of a disagreement between the
code and what its documentation says:

| run | shows |
|---|---|
| `rust_open_io` | a device or share that fails gives `DatabaseCorrupt`, documented as "exists and is readable but cannot be parsed" |
| `rust_lookup_duplicates` | only the first of two groups of one name is searched |

Other disagreements that the models contain, which have no run of their own:

* A directory put in place of the file between the metadata check and the open gives
  `DatabaseCorrupt` in Rust (`lib.rs:125`, `lib.rs:221`), documented as
  `DatabaseNotFound` (`error.rs:22`). `Documented` excludes it from the refinement;
  `AtWorstCorrupt`, which excludes nothing, says that this is the worst that happens.
* Below a directory that may not be searched the C# library says
  `DatabaseNotFound` (`Database.cs:61`), documented as `PermissionDenied`
  (`Exceptions.cs:74`). `Documented` of `CsOpen` excludes it; `AtWorstAnotherError`
  says, without exclusions, that no more than one error of the path stands for
  another.
* A title that ends in a final sigma is found by the C# library, which compares by
  upper case (`Database.cs:119`), in paths in which the Rust crate, which compares by
  lower case (`lib.rs:189`), does not find it. `SameFolding` excludes it.
* `getfield` of Rust looks at the name of the field after the open and the lookup
  (`getfield.rs:43`), the C# one before (`GetField/Program.cs:28`): with a wrong name
  and a wrong database the first ends with 1, the second with 2.
* `keepass-spec/SECURITY.md:9` says that all credential material is actively zeroed.
  In the C# library the `char[]` is; the string made of it (`Database.cs:46`) and those
  of an entry only become unreachable, which `csharp/README.md:101` says too.
  `MemoryForgets` states what does hold.
* `$( )` takes newlines off the end of a password (`kdbx-db-task.sh:32`): an entry
  whose password ends in one never connects.
* A path through a file (`not_a_dir`) gives `DatabaseCorrupt` in Rust
  (`lib.rs:209`), documented as `DatabaseNotFound`.
* A directory removed after `File.Exists` gives `DatabaseCorrupt` in C#
  (`Database.cs:91`), since `DirectoryNotFoundException` is not caught by name.
* Without `$CREDENTIALS_DIRECTORY` the Rust store reads the file store
  (`secret_store.rs:73`); `RUST-NOTES.md:94` says `PermissionDenied`, which is what
  C# answers. With the variable set to the empty string Rust looks below the working
  directory, and the file store does not stand in; `NoOtherDirectory` covers both.
* The keys `k/` and `k/.` are accepted by Rust and answered with `PermissionDenied`;
  `secret_store.rs:107` says "no separators".
* A provisioning run that is stopped, or fails, between overwriting the file and
  removing it leaves zeros. The next run takes them for the password, gives them
  to `cmdkey` and may end with exit code 0 and a wrong credential.
  `ReadersGetThePassword` therefore excludes the runs after one that left the
  file half shredded (`unshredded`), until a new file is put in place.
* `provision-credential.ps1:26` says that the file is shredded on success; it is
  shredded on failure too, `cmdkey` failing included.

### Fairness

Three properties need it, each under a `FairSpec` of its own.

* `Recovers`: weak fairness of `Call`, the disjunction of the steps of `open`. A call
  that runs makes its next system call, and a caller asks again, which is what
  `kdbx-db-task.timer` does every hour.
* `TaskRecovers`: weak fairness of `Trigger` (`OnCalendar=hourly`) and of `Script`, the
  steps of the processes of the unit.
* `MemoryForgets`: weak fairness of `Collect` for each string, the garbage collector.

Nothing is assumed of the host, of the caller or of restarts: provisioning and
saves may go on for ever or stop, and the properties speak of behaviours in
which they come to agree, no more restarts happen, or the caller has disposed all.
`rust_open_io` uses `FairSpec` too. No deadlock can arise in the models that run
for ever; `StoreParity` asks one question and stops, so deadlock is not checked
there.

## 4. What is proved

All for every value of the constants that satisfies the assumptions named in the
modules, which TLC evaluates on each run.

`RustOpenProofs` and `CsOpenProofs`:

* `TypeCorrect`: the password is held exactly while a call runs, the file exactly
  while it reads, and only documented outcomes are returned.
* `Invariant`: `Inv` holds, if `Documented`. For Rust: no component of the path is a
  file (`not_a_dir`), and no directory is put in place of the database *during* a
  call. For C#: no directory on the way is unsearchable (`no_search`), and neither a
  directory nor `no_parent` nor `not_a_dir` sets in *during* a call. These are the
  disagreements above; without them the theorems are false.
* `OpenKeepsContract`: the call implements `OpenContract`, under the same
  assumption.
* `WorstIsCorrupt` (Rust) and `WorstIsAnotherError` (C#): without any assumption on
  what may set in during a call, what is returned is promised, or it is
  `DatabaseCorrupt` where `DatabaseNotFound` is promised (Rust), or an error of the
  path where another is promised (C#). A database or a rejected password is
  always that of an instant of the call.

The argument. `TypeOK` does not say enough: what the last read returns depends on a
password fetched, a head read and a descriptor opened at earlier instants. `CallInv`
adds what each of these guarantees. `ThisInstantCounts`: an open of this very
instant is accounted for. `DirectoryWasSeen`: a directory that was opened was at the path during the
call. `OpenFileWasSeen`: what the open file holds was
at the path at an instant of the call; a save in place to it keeps this true since
the file is then at the path, and a save by rename since it goes to another file.
`HeadWasSeen`: what the head that was read decides alone is accounted for, and if it
decides nothing, then the file still has that head or was seen broken since.
`WrittenInOrder` excludes a body without its head. None of this depends on a condition of the path. `Inv` is this with
`AFileIsOpen`, that what is read is a file, and one conjunct of the library's own:
what its check of the path has excluded when the file is opened. Each action of the call maps to `Begin`, `Refuse`, `Return` or a stutter,
each of the host to `Change`. The steps that do not depend on the library are
lemmas of `OpenCallProofs`.

`RustLookupProofs` and `CsLookupProofs`, for all trees, paths and case mappings:

* `TypeCorrect` and `Invariant`: the group the loop has come to is reached by a
  chain of groups of the names followed so far (`WalkIsAChain`), and by no other
  chain when names are unique side by side (`WalkIsTheChain`).
* `AnswersAreNamed`: in any tree an entry returned is one that the path names and an
  ambiguity reported is one.
* `LookupKeepsContract`: the lookup implements `LookupContract` where no group has
  two subgroups of one name; without this the theorem is false, see
  `rust_lookup_duplicates`.
* `LookupAgreesWithRust` (C# only): `CsLookup` implements `RustLookup`, on all trees
  and also where names repeat, if lower and upper case tell the same titles apart
  (`SameFolding`). The mapping lowers the parsed path; each place found by one
  comparison is one found by the other. Without the assumption the theorem is
  false, as a final sigma shows.

`ToolProofs`, for all databases, paths, fields, command lines and changes of the
machine:

* `TypeCorrect`: a run holds a handle and an entry from the calls that return them
  to its end, however it ends.
* `Invariant`, `OneInstant`: the handle is one that an instant of the run accounts
  for, the entry is the one the path names in it, and what was printed is the
  beginning of the report on that entry.
* `ToolKeepsContract`: the programs implement `ToolContract`.

The argument. A line printed has to be a line of the same report as the one
before, although `possible` grows at every change of the machine: the invariant
says which of its members the run has committed to, `db`. The lemmas on `Report`
and `Named` say that a path names at most one entry of it, and that the fields of
`BuildEntry` are those of the report under their KeePass names; `AppendNext` that a
beginning with the next line is a beginning. Each ending of `main` is then `Finish`
or `Break`, each `println!` is `Write`.

`ProvisioningProofs`: `Invariant`, and from it `TypeCorrect`, `PlaintextGone` and
`ReadersServed`.
`ReadersGetThePassword` is not inductive: it needs to know that the file is the one
put there as long as it is not being removed, that `$pw` is its text while it is
written and confirmed, and that a success already noted in `$exit` keeps holding
while the file is shredded. That is `Inv`.

`CsOpenProofs` on the two Linux stores, for keys of any length, all names, secrets,
environments and contents of the directories (`TwoStores` says only that the four
directories are there and that keys are sequences of pieces):

* `ParityTypes`: either store answers with a secret or with one of its two errors.
* `KeysStayInside`: an accepted key leads to an entry of the directory and, on the
  way, never out of it.
* `NoOtherDirectoryAsked`: where `$CREDENTIALS_DIRECTORY` is set, be it to the empty
  string, no secret of another directory is returned.
* `BothStoresAgree`: the stores differ on keys with a backslash, and on keys with a
  separator behind the name in the one way stated, and on no others.

The argument is by what each validation accepts. `AcceptedByRust`: a key with one
component, a name, whose text does not begin with a separator, is that name with
only empty pieces and dots behind it, since a first piece that is no component
would make it absolute. `AcceptedByCs`: it is the name alone. `WalkOfAName`: the walk
of such a key is at depth 1 from the first piece on. The walk, `Depth`, is a recursive
function; that it has the values claimed is shown without induction, by the least
place at which it would not (`LeastNumber`). Two keys that pass one check and not
the other have a backslash or a piece too many. What the stores return then depends
on the same file.

`CsOpenProofs` on the memory of the C# library, for any number of handles, entries
and fields:

* `SessionInvariant`, `SessionTypes`: `SessionInv`, and lookups end as documented.
* `ArraysAreCleared`: no array holds the master password between two calls.
* `EntriesAreTheirOwn`: an entry keeps its fields and their strings until it is
  disposed itself. An action property.

`ArraysCleared` speaks of the idle state only; `ArraysHeld` says which array is held at
each place of `Open`, so that the ways out, a return and two kinds of exceptions, can
be seen to clear it. `EntryIsItsOwn` needs `FieldsInMemory`: the strings of all
fields are in memory, and since the entry reaches them the collector takes none,
not even one that belongs to a database which is closed.

`ToolProofs` on the task, for all credentials, databases, passwords and rules of `$( )`,
where the script has one command line, a `getpass` with the right number of texts
(`OneCall`):

* `TaskInvariant`, `TaskTypes`: `TaskInv`; what is decrypted for a run, and
  `PGPASSWORD`, are gone at its end.
* `TaskConnects`: `psql` is started only with the password of the entry that the path
  names, in a database which was at the path during this run and opens with the
  credential of this run.

`ConnectsWithTheEntry` is about the instant when `psql` runs, and what makes it true
happened earlier. `FindsOfThisRun`: from the start of `getpass` on, what it may find is of
databases that open with the credential of this run, also after a rotation.
`SuccessIsReported`: an exit code of 0 goes with a report on stdout whose code is 0.
`SuccessHasThePassword` says that such a report is the password of the entry named.
The proof takes `getpass` by `ToolContract`, which `ToolKeepsContract` shows it to keep.

Only model-checked: `Recovers`, `TaskRecovers` and `MemoryForgets`, since liveness is
out of the prover's reach. Every safety invariant, action property and refinement
that a run checks and finds to hold has its theorem; where one is false without an
assumption, the assumption is named in it and explained above. `AtWorstAnotherError` is only proved;
no run repeats it.

## 5. What is assumed

* Saves happen while the path is in the condition `ok`; a file that a call holds
  open is not reused for another save (the file system does not reuse it).
* The file is read in two reads that matter, head and body. Further reads fall
  into one of the two, as the integrity check of the blocks rejects any body that
  does not belong to its head.
* The environment of a process does not change during its life.
* Conditions in `Conds` but not in `Volatile` set in between two calls only.
* The master password alone is the key, and KDBX decryption is correct.
* `.NET`: `File.Exists` is false on any error; `FileStream` refuses a directory with
  `UnauthorizedAccessException`; `OrdinalIgnoreCase` maps character by character.
* `Tool` takes `open` and `lookup` by their contracts, hence under what these need:
  `Documented`, and no two subgroups of one name.
* `DbTask`: a credential that is named without a path may be missing without the
  unit failing, and `$CREDENTIALS_DIRECTORY` is set all the same; the shell reads
  the output of `$( )` to its end; no read of the share hangs for ever.
* `CsSession`: `ReadSafe` makes a new string of a protected value and hands out the
  database's own of any other; the `PwDatabase` refers to these until `Close`, and
  `KcpPassword` keeps no reference to the string it is made from.
* Provisioning: one run at a time, and a password file is put in place between runs
  only (it may be taken away at any time); `cmdkey` writes all or nothing, and of a
  text with NUL characters what is before the first; it lists a credential that
  exists, and may mention the key also if there is none.

## 6. Plan

Done: both halves of both libraries, the Linux stores, provisioning and the Windows
stores as its readers, the Rust programs, the task, and the memory of the C#
library; and the proofs of every safety property that a passing run checks. Next:

1. The proof of `Tool` over the open and the lookup themselves, in place of their
   promises: that what `OpenContract` returns is in `possible` of `Tool`, and that
   `LookupContract` answers as `Lookup` takes it to.
2. Two provisioning runs on one file (see the hazard at
   `provision-credential.ps1:84`).

## 7. What is not modelled

* The C# programs: the same steps over the C# package, but for the order of
  the field check noted above. No script of the repository runs them.
* The rendering of errors, the redacted `Debug` and `ToString`, and what is printed
  on stderr: no state, no caller depends on it.
* What the derived `ZeroizeOnDrop` and `Zeroizing` write over the memory: generated
  code; that the drops happen on every way out is in `RustOpen` and `Tool`.
* The cryptography and the XML of KDBX: external packages.
* The choice of a store by platform, which is made by the compiler or once at the
  start, and the clearing of the blob in `WindowsSecretStore`: one call without
  another step in between.
* The script of the task run by hand: as in `DbTask`, with the file store in place
  of the decrypted credential, which `StoreParity` and `RustOpen` cover.
* A panic of `eprintln!` in the programs, when stderr is closed: the exit code would
  be 101 in place of 1 or 2, and nothing else of a run differs.
* Build and install scripts and tests: not part of the running system.

## Running it

`tlc -config MCRustOpen.cfg MCRustOpen`, and likewise for the other configurations:
each is named after its module, with a suffix where a module has several.
`tlapm` on `OpenCallProofs.tla`, `RustOpenProofs.tla`, `CsOpenProofs.tla`,
`LookupCallProofs.tla`, `RustLookupProofs.tla`, `CsLookupProofs.tla`, `ToolProofs.tla`
and `ProvisioningProofs.tla`.
