# TLA+ for TigerSetup

TigerSetup builds Windows installers and is what they run. Its engine
installs, upgrades, repairs and removes a product in a journalled transaction:
every change is written down before it is made, and a run that dies is
finished or undone by the next one. Its promise is that an installation is
atomic towards crashes, power cuts, failing steps and other people's edits.
These modules model the engine from the plan to the recovery, the programs it
runs and the applications around it, the resources it shares with the machine,
the dependencies it installs first, the processes and the wizard it runs in,
the loader in front of it, and the installer file from its manifest to its
reader. TLC checks them on small instances, and for all of them TLAPS proves
the invariants of the transaction, of what runs around it, of the dependency
phase, the processes and the loader.

Paths below are relative to `src/crates/tigersetup-engine/src/` unless they
begin with `src/`; TigerSetup-Design.md is the design document at the
repository's root.

## 1. The system

### Components and how they interact

A developer's manifest is **built** (`src/crates/tigersetup-build`) into one
file: loader, engine, metadata, payload, footer (`src/crates/tigersetup-format`).
Started, the **loader** verifies the file, unpacks the engine into a directory
of its own and runs it. The **client** (`src/crates/tigersetup-setup`) decides
which installation the run is about, elevates or copies itself where it must,
and runs the engine itself or behind the **wizard**.

A run of the engine (`lib.rs`) is one process. It installs the **dependencies**
the product requires (`dependency/`), which it finds through the signed
**catalog** (`src/crates/tigersetup-catalog`); takes the exclusive lock of the
product's database (`state/db.rs`), **recovers** an open transaction of an
earlier run (`txn/recovery.rs`), **plans** the difference between the package's
desired state, the ownership rows and the machine (`plan.rs`), stops
applications (`quiescence.rs`, `restart.rs`), **begins** the transaction with
every operation row in one commit (`state/journal.rs`), **walks** it in commit
groups (`txn/executor.rs`), and **commits** by rewriting the ownership rows; or
it **rolls back** in reverse (`txn/rollback.rs`). Then it cleans up and settles
with the applications. Everything meets in the database and on the disk: what
is only in memory (what was stopped, what was closed, whether a restart is due)
dies with the process.

| component | state | operations | what is hard | what makes it correct |
|---|---|---|---|---|
| journal (`state/journal.rs`) | transaction row, operation rows, undo records, ownership rows | begin, mark a group applying / applied, mark a unit, commit | every transition is one durable commit; which facts a commit may already claim | a terminal transaction is never walked again; ownership rows are true of the disk |
| forward walk (`txn/executor.rs`) | operations in hand | prepare, mutate, reconcile, commit, clean up | a crash between the records and the mutations of a group | undo state durable before the mutation; applied only what is on disk |
| reverse walk (`txn/rollback.rs`) | unit in hand | undo, mark | undo of a half-done mutation, undo of an undo | a rollback once begun ends rolled back; nobody else's change is overwritten |
| recovery (`txn/recovery.rs`) | none | direction, sweep, walk | which backups may be swept; another package continues | converges; forward only with the same package |
| file protocol (`win/fs.rs`) | temporaries, backups, targets | stage, replace, move or copy to the backup, restore | copies where a rename cannot; `ReplaceFileW` in two halves | the previous content is always somewhere |
| plan (`plan.rs`), what a package wants (`resource/*.rs`) | ownership rows, recorded options | reconcile, verify | what the rows say, what the machine holds and what the package wants all differ, over any number of versions | the result is what the installed version alone would have made; others' resources stand |
| shared resources (`resource/*.rs`, `win/*.rs`) | the registry, PATH, variables, links, rules, profiles; the rows that say what to put back | create, set, remove, append, undo | others edit the same places at any time, before and behind the block or the entry | the product takes away only its own, and puts back what preceded |
| custom actions (`txn/actions.rs`, `state/action.rs`, `action.rs`, `win/process.rs`) | evidence rows, job object | start, wait, classify, re-run, settle | a program's end nobody saw; no undo | ended runs are not repeated; a commit means all ran |
| action store (`txn/actions.rs`, `state/installation.rs`) | stored programs by hash | extract, undo, sweep | versions share programs; a sweep after a failure | what the installed version owns is stored |
| quiescence (`quiescence.rs`), Restart Manager (`restart.rs`) | what was stopped, what was closed | stop, resolve, resume; acquire, shut down, release | every way out of a run; programs that are gone or do not start | what was stopped is started again, or the report says that it was not |
| dependencies (`dependency/*.rs`), catalog | outcome rows, downloads, the machine's versions | detect, resolve, acquire, run, verify | forged and stale documents, exit codes that lie, reboots, crashes | only verified installers run; the product opens only over what was found |
| client, elevation, scope and target (`src/crates/tigersetup-setup/src/main.rs`, `elevation.rs`, `target.rs`, `legacy.rs`) | the processes of a chain, the result document, state directories | decide, relaunch, stage a copy, run, delete | a child that dies; concurrent chains; what is deleted after the lock is gone | the caller learns the run's end; an installation keeps its uninstaller |
| wizard (`src/crates/tigersetup-setup/src/ui`) | page, choices, boxes, worker thread, inbox | go, cancel, ask, relaunch, launch | nested message loops; cancel racing the end | it does what was chosen and reports its end |
| loader (`src/crates/tigersetup-loader`) | its lock on the file, directory, root | verify, unpack, run, remove, sweep | other launches and helpers remove the shared root; the file is replaced | what runs was verified; launches do not disturb each other |
| builder and format | the build in hand; the file | load, resolve, compose, verify, publish; open, seek, read | sources edited between hash and stream; damaged files | what is published is what it says; a reader gives that or an error |

`PROJECT.json` lists every component with its status, and every hazard found
in this code with its line and the properties that would catch it.

### Modules

| module | models |
|---|---|
| `AtomicInstall` | what an installation promises of a product's files, with no journal, crash or rollback |
| `FileTransaction` | journal, walk, rollback, recovery and file protocol over files; implements `AtomicInstall` |
| `Actions` | custom actions of a transaction and their evidence |
| `ActionStore` | the programs an installed version keeps; also the abstract specification of `Quiescence` |
| `Quiescence` | stop and resume, and the Restart Manager, composed with `ActionStore` |
| `Integrations` | a registry value, its key and a PATH entry, with other writers |
| `Resources` | profile blocks, links, firewall rules and variables of two installations in places people edit |
| `Catalog`, `Dependencies` | what the catalog client believes of a server; the dependency phase on top of it |
| `Session` | what a start is about: target, elevation, pages |
| `Wizard`, `Client` | the interactive process over `Session`; the unattended chains of processes over `Session` |
| `Loader` | several launches of one installer file |
| `Metadata`, `Manifest` | the rules of the metadata; the manifest's, and the metadata made of it |
| `Package` | build, delivery, reading and the uninstaller copy, over `Manifest` |
| `DesiredState` | what a package wants of a machine, over `Metadata` |
| `Installation` | plan, effect and verify of every kind of resource over many runs, over `DesiredState` |
| `Processes_proofs` | the theorems of `Actions` and of `Loader` |
| `Sessions_proofs` | the theorems of `Quiescence` (those of `ActionStore` with it) and of `Wizard` |
| `*_proofs` | the theorems of `FileTransaction`, `Integrations`, `Resources`, `Dependencies`, `Client`, `Package` (with `Metadata` and `Manifest`, and those of `Installation`) |
| `MC*` | instances for TLC; each extends the component's module or its proofs module, so that TLC evaluates the assumptions proved from |

`map` in `PROJECT.json` gives, for every definition, the lines it translates.

**FileTransaction.** Variables are split into what is on disk (`disk`, `temp`,
`backup`, the rows) and the memory of the one running process (`pc`, `unit`,
`todo`, `again`, `step`). A path is one element of `Files` and carries at most
one operation; content is one opaque value and a hash comparison is equality.
`StartGroup` writes the undo records of a group, `StageFile`, `ReplaceFile`,
`StartCopy`, `FinishCopy`, `RemoveFile` and the rest are the filesystem steps
between which a crash may fall, `FinishGroup` the applied records. `Recover`
chooses the direction as `direction()` does: forward only for a running
transaction of the same package. The sweeps and the cleanup take what they can:
a file of `Locked` may be held open and stay, and `stale` is the staging area of
an earlier transaction that did. `SameVolume`, `LateError` and `ExposedFiles`
select the three circumstances the theorems depend on.

**Actions.** A run of a program is start row, `CreateProcess`, assignment to
the job, end, verdict, and settlement by the policy; the undo marks the lost run
(`GiveUpRun`) and the operation in two commits. `Crash` closes the job and so
kills the program in it, and leaves a program outside a job alive (`loose`).

**ActionStore, Quiescence.** The store holds hashes. `Quiescence` extends it
with the stages of a run before and after its transaction and with the
applications: `owed` and `closed` are the run's memory, `owing` and `shut` the
histories of what it took away, and `unstarted` why an application was not
started again: its program is gone, Windows refused it, the transaction is open,
or it was never resolved. All but the last are in the run's report.

**Integrations.** The plan (`Plan`) and the opening of the journal (`Begin`)
are two steps, as in the code, where dialogs and the quiescence lie between
them. A value's row carries its data and what to put back (`valRow.restore`);
PATH is a sequence of segments among which `mine` and `alike` are two spellings
of the entry. Others write, delete and share the key, the value and PATH at any
time. `theirs`, `ours` (whether the engine's entry is there, gone or was never
appended), `origin` and `before` are histories.

**Resources.** One behaviour is about one kind of place and two installations
that plan, prepare, mutate, commit, undo, crash and recover over it, while
people edit it. A profile is a sequence of lines, line breaks and blocks, so
that the separators the engine adds and takes out are explicit; it may be
read-only, locked or have no directory. A link, a rule list and a variable hold
the product's content or a `Stranger`'s. Kind `shared` is two scopes of one
product, whose block has one marker; they run one after the other.

**Catalog, Dependencies.** `Catalog` gives the verdict on a source package
(signature, block map, identity, age), a version list and a manifest, whatever
a server hands out, and the selection of an installer. `Dependencies` is the
phase as steps of a process: detect, consent, acquire (hint, catalog, payload),
launch, detect again, event rows and download directory; others install or
remove a dependency, and servers answer genuinely or not at each request. A
version is a number whose tens are its major component.

**Session, Wizard, Client.** `Session` is pure: what `decide`, `required`,
`Session::build` and `main` make of a start. In `Wizard`, `ui` is the window
thread's memory, a box is a handler that is still open (`ui.boxes` is the stack
of nested loops), `inbox` the posted messages; `engine`, `child` and `launcher`
are the other threads and processes. In `Client` a chain is up to three
processes (`first`, `elevated`, `copy`) and a helper; each has its `pc`, and
`state` holds the two scopes' state directories with their database, uninstaller
and open transaction, `lock` who holds which, `result` the result documents.

**Loader.** A file is its identity, which the file system gives again once the
last name and handle are gone. `folder` is what is in each launch's directory,
`launch` and `engine` the two processes of each; `Replace`, `Kill`, `Age` and
`Help` are the world: the installer replaced, a launch killed, a day passed, an
uninstallation's helper removing the root.

**Metadata, Manifest, Package.** `Valid` is `Metadata::validate`, `Accepted`
the manifest's rules, `MetadataFor` the conversion; a declaration is a record
with the fields the rules look at. `Package` composes them with the build, one
action per step that reads a source, writes or renames (`Load`, `ResolveFiles`,
… `Measure`, `Write`, `RemoveOld`, `Rename`, `Verify`), with `Edit` and `Crash`
between; `Deliver` damages the file, `Open`, `ReadEntry`, `RunEngine` and
`KeepUninstaller` are the engine's use of it. Lengths laid end to end (`Ends`),
the batches of a file list (`Batches`) and the stream order (`InStreamOrder`)
are recursive functions, which the provers can be told about. `NoFile`, `Torn`,
`Garbled` and `Error` are records no content, block or file can equal;
`PackageAssumption` says so of what the instance chooses, and that the sources
and the entries a manifest may name are known (`SourcesOf`, `EntriesOf`).

**DesiredState, Installation.** A machine is a partial function from resources
`<<kind, place, name>>` to what they hold. `Desired` compiles the metadata, the
options in effect and the scope to typed resources, as `plan::desired` does
through `resource/*.rs`. `Plan` is `reconcile`, kind by kind and in its order:
each resource becomes keep, put or take with what preceded it, from the rows,
the machine and what is wanted. `After` carries it out, `Findings` is `verify`.
A run is one step here: that it is one, is what `FileTransaction`,
`Integrations` and `Resources` show for their kinds. `InstallationAssumption`
says what decoding makes of a metadata block's tables (`Typed`), and nothing
else.

## 2. Runs

`SPECIFICATION Spec` unless liveness is checked. Every bound is a constant of
the configuration; no state constraint is used.

| run | question | instance |
|---|---|---|
| `file_transaction` | is the undo state always usable, are journal and ownership rows true, does only what was held open stay behind, is a run atomic? | 3 files: one changed, one dropped and one added by the upgrade, two in a shared batch, groups of one batch; user content before and between transactions; others may hold open what belongs to the first; setup and uninstaller of two versions |
| `file_volumes` | is what is applied on disk with copied backups and edits of an open transaction; does recovery converge? | 2 files, `SameVolume = FALSE`, one file edited by others meanwhile, fair |
| `actions` | what does a commit mean, does it converge? | 3 actions of both policies, every verdict, two packages, fair |
| `quiescence` | does every run give back what it took or say that it did not, and does the installed version keep its programs? | 2 versions, 2 applications (packaged and command programs), 1 holder; stops and starts that fail |
| `integrations` | does others' data survive, is the machine left as found, does the engine take only its own PATH entry? | 3 products: one changes its value, one drops it, one drops its PATH entry; 1 user datum |
| `resources` | do two installations and their users leave each other's lines, links, rules and values alone? | 2 installations of 2 versions, each kind of place from each state it may be found in, 4 transactions and edits |
| `dependencies` | does only what was verified run, and does the product open only over what was found? | a catalog dependency whose hint may be stale and an embedded one, 2 publications and a forgery, 3 attempts, 2 runs, 1 change by others |
| `wizard` | does it do what was chosen, watch what it started and tell how it ended? | starts of the installer and of the uninstaller copy, also of one left behind, with none, one and both scopes installed, offered and writable; 1 question |
| `client` | does the caller learn the end, and is what is installed usable? | 2 chains out of 5 commands, a machine with no installation or one, a predecessor or none, 1 kill |
| `loader` | does what runs come from the verified file, whatever other launches do? | 2 launches, 2 files, 1 directory somebody else made, 1 helper, 3 attempts |
| `package` | is a published installer what it says, and what does a reader get of a damaged one? | manifests with something in every table that reads a file and their faulty variants; 4 contents, 5 sources, 2 edits, 2 builds, 9 damages, batch limits 2 files and 3 bytes |
| `installation` | is the machine what the installed version alone would have made it, does a repair heal, do others' resources stand? | 3 products in 5 cases, below |

Why the bounds are enough. An undo or a re-application concerns one resource,
and its interference with another is only in the order (group, unit, batch),
which two or three resources exhaust; two versions give every pair (same,
newer, older) of what was installed and what recovers; a third adds no
difference the code compares. In `file_transaction`, `file_volumes`, `actions`,
`quiescence` and `integrations` the number of crashes, errors, runs and edits is
not bounded: the state graphs are finite without counters. `MaxEvents` of
`resources` lets both installations install, one upgrade or go, and an edit
fall anywhere between. In `dependencies` the first run can end in any way and
the second meets what it left. `EnoughAttempts` of `Loader` says that the
loader's retries exceed what others can do to it: 16 in the code.
`installation`: the **tool** (files, directories, options and predicates, PATH,
variables, registry values and nested keys) on a machine where some of them
were found; the **viewer** (associations, schemes, verbs, app paths) on an empty
machine and on one where another program has the scheme; the **server**
(firewall, completions, shortcuts) in both scopes, from several accounts and
elevations. Runs are unbounded; others make at most one change in the tool's
case, whose edits are many, and two in the other cases, so that something
changed and something deleted meet.

Distinct states: `file_transaction` 1,011,430, `file_volumes` 463,601,
`actions` 81,577, `quiescence` 798,133, `integrations` 454,642, `resources`
1,383,424, `dependencies` 1,950,157, `wizard` 160,414, `client` 1,683,722,
`loader` 2,755,256, `package` 233,527, `installation` 4,583 (of whole runs, each
of which evaluates a plan); the longest take about three minutes.

`CHECK_DEADLOCK` stays on where somebody can always run an installer again. It
is off in `dependencies`, `wizard`, `client`, `loader`, `package` and
`resources`: their processes end, or their bounded events run out, and the
system stops there.

### Fairness

- `FairSpec` of `FileTransaction` and `Actions`. `WF(EngineStep)`: a process
  that has not died keeps running, and a program ends at its deadline at the
  latest (`win/process.rs` terminates it). `WF(\E exe : Start(exe))`: somebody
  runs an installer or uninstaller of the product again, since nothing in the
  code restarts a dead run by itself. `Converges` further assumes that faults
  cease, and edits while a transaction is open: a disk that fails for ever
  defeats any recovery. It excuses a file somebody deleted after an interrupted
  undo had moved it back (section 4).
- `FairWizardSpec` of `Wizard`. The window thread dispatches what is posted, a nested
  loop returns once its box is answered, the run of the engine ends, and
  whoever a box is open for answers it. A person need not press anything else.

## 3. Proofs

The theorems hold for every value of the constants.

- **FileTransaction_proofs.** `IInv` joins the type invariant with `ProcessOK`
  (what `pc` says of the transaction), `WalkerOK` (what finished members of a
  group or unit left), `RecordsOK` (what the rows of an open transaction say of
  staging and disk), `PlanOK` and `OwnedOK`. `Restorable` alone is not
  inductive: that an undo record can be honoured after a step rests on the
  group's finished members being on disk and on backups of planned operations
  not existing. `TypeCorrect`, `RollbackFinality`, `TerminalFinality` and
  `RunsStartSwept` need nothing more: a finished transaction is final for every
  process but the one that committed it, which rolls it back after an error
  behind the SQL commit (section 4). `Restorability`, `AppliedDurability`,
  `OwnershipTruth` and `Refinement` assume `Sheltered`: backups on the same volume, no late
  error, no file exposed to edits of an open transaction. The first two are
  divergences (section 4); an edit of an open transaction's file is a change
  no record can be true of.
  `Refinement` proves that the engine implements `AtomicInstall` under the
  mapping `tree[f] <- Before(f)`, the file as a rollback started now would
  leave it: only the commit moves it. `RunsStartSwept` (`LeftoversAreHeld`)
  rests on `Tidy`, which says whose the temporaries are: the one of the member
  in hand, those a crash left under an open transaction, which recovery sweeps
  before it walks, or those of files in `Locked`, which any sweep may leave.
- **Processes_proofs.** Of `Actions`: `IInv` says for each `pc` and `step` what
  the row, the job and the operation's state are; `Supervised` (a program in
  the job is awaited by a live engine) is proved over it. Results:
  `TypeCorrect`, `CommittedActionsDone`, `EvidenceClosed`,
  `SupervisedIsEvidenced`, `EndedFinality` (what ended is not run again).
  Of `Loader`, `LInv`: where a launch is and whose directory it has
  (`Placed`, `Owned`); the file an engine reads is the one its launch verified
  and holds (`Verified`), which gives `EngineIsTheVerified`; what a launch over
  could not remove (`Left`, `Minded`), which gives `LaunchesLeaveNothing`.
  `LaunchesFailAlone` counts: a launch's lost attempts never exceed the other
  launches that ended, the helpers that ran and the taken names it met
  (`Spent`), and `EnoughAttempts` grants one more than those.
- **Sessions_proofs.** Of `ActionStore` first: `OwnedIsStored` is not
  inductive, as a commit changes what is owned. `SInv` adds to the types and to
  `Standing` (`pc` against the transaction) that an installing transaction
  stores every entry (`Complete`), that what is applied is stored (`Applied`),
  and that what is being applied is stored or still to do (`Applying`).
  `ProgramsSurvive` assumes `ReadErrors = FALSE`: the sweep takes an unreadable
  list for an empty one (`txn/actions.rs:468`). Of `Quiescence` around it,
  `QInv` ties the stage to the transaction.
  `Refinement` proves `Quiescence => ActionStore`; `Settled` that no run ends
  owing; `Restarting` that what the Restart Manager closed is restarted;
  `NoneInSilence` (`NoneLeftSilently`) that no run ends with an application
  stopped that its report does not name, whatever failed and whichever resume
  programs are gone or do not start, but for the one whose resolution failed
  (section 4). Its invariant `Given` says where at each
  stage what was stopped is: owed, in hand, or told.
  Of `Wizard`, `PagesSound` and `BuildSound` say what every session the client may
  show is (`Sound`): the run's page is the last but one, the licence is asked
  for once, the scope first, and where no page asks for the scope the process
  can write the one it is about, or is the uninstaller copy of the user's
  installation and finds only the machine's. `WInv` is the invariant: the page
  tells how far the run is (`Flow`), and so does the engine's thread but for the
  one message that tells its end (`Running`); a relaunch holds the page of the
  scope with no box over it until its one message comes (`Elevating`); which
  boxes can be open at each stage (`Boxed`); the exit code is that of the end,
  or there is none yet (`Answers`); what the pages behind this one chose
  (`Chosen`). `NobodyRunsUnwatched` and `AnswersForTheRun` hold for any starts,
  any nesting of boxes and any order of messages.
- **Integrations_proofs.** `OthersDataKept` rests on `IInv`: `Control` and
  `Journalled` (where the process is and what the value's journal row then
  holds), `Typed`, `Planned` (how the operation's columns were made from the
  ownership row), `Adopted` (data others gave a package's own value to is what
  its row restores) and `Tracked` (at each state of the operation, where
  others' data is: in the value, in the row, or in the undo record).
  `TakesOnlyItsOwn` (`TakesItsOwn`) rests on `Faithful` and `Claimed`, which
  follows the PATH entry's operation from its plan to its row. Both assume
  `~LateEdits`.
  `RolledBackAsPlanned` (`RollbackRestores`) and `GoneAsFound` (`LeftAsFound`)
  rest on `Faithful` and need no such assumption, as an edit ends the history
  they follow. Neither property is inductive: that an undo gives back what the
  plan found rests on what each undo record holds at each state of its
  operation, and that the last removal does on what the rows have kept since
  the first plan. `Formed` and `Ordered` say which operations a plan can have
  made and in which order they run; `Restorable` relates the machine to
  `before`, per operation not begun, made or undone; `Accounted` relates rows
  and machine to `origin` (`Settled`), of the machine between transactions and
  of `before` inside one. What appending and removing an entry do to the other
  segments of PATH (`AddedKeeps`, `RemovedKeeps`, `AppendedRemoved`) follows
  from the least index of the entry (`Least`), in place of induction.
  `IntegrationsAssumption` keeps user data apart from package data, and
  `Absent` and `None` apart from what they are not.
- **Resources_proofs.** `Common` (`ResourcesProtocol`) holds whatever others do:
  a profile keeps each product's block at most once (`WellFormed`), what an
  operation, row or undo record holds is its installation's own, and each `pc`
  has its stage of the transaction. The first lemmas say what adding, replacing
  and taking out a block do to lines, blocks and separation of a text, from the
  least and greatest positions of the `LET` functions. `LinesStay`, that no step
  of an engine adds, drops, changes or reorders a user's line, needs only
  `Common` and holds of any profile found. `UndoneAsBegun` (`UndoneAsBefore`)
  rests on `Undoing`: for each kind of place, where the place may stand at each
  stage of an operation nobody interfered with, over crashes in the middle of a
  mutation, attempts repeated, mutations skipped and undos repeated, so that the
  undo record leads back; for a block, that the separator recorded is the one
  that was or would be put in front of it (`BlockStage`). `StrangersStay`
  (`StrangersKept`) joins `Common`, `Undoing` and `EndedLines`: a profile whose
  last line is ended never gets a separator that ends it, so that no removal
  takes a line's own break. It assumes `FoundEnded`, profiles found with their
  last line ended, which three products need (section 4).
  `FoundAgain` (`LeftAsFound`) rests on `Traced` as well, which leads every
  place back to the one found. A link is the one found or an installation's
  where there was none (`LinksTraced`); a variable or a rule is its one owner's,
  and the row or the open operation has what was found (`VariablesTraced`,
  `RulesTraced`). Of a profile (`BlocksTraced`), each block is what a row or
  the undo record says (`BlockTrace`), so that the blocks are gone with the
  rows; and while one installation alone has changed the profile, it is the one
  found with at most its block put into it, and row, operation and undo record
  say what putting it there created (`BlockExact`), so that taking it out
  leaves exactly what was found (`PutIntoTaken`). Two scopes of one product
  share a marker: what another installation's step does to a block is followed
  through the rows of both (`ElsewhereTraced`). It holds for any number of
  installations and any profile found. TLC found `Traced` to hold of the instance
  of the run before it was proved.
- **Dependencies_proofs.** `Leads` says once where each of the phase's steps
  takes a run, and the invariants are proved over it. `RInv` adds to the types
  what is behind a run (`Behind`): a dependency whose turn is over was detected
  or somebody removed it since. `AInv` adds that a restart asked for is pending
  or told (`Told`), and that runs are numbered apart. `HInv` relates the events in
  hand (`Noted`) and the stored rows (`Stored`, `TableInv`) to what ran. All
  three hold of any number of installers at once: `RequirementsComeFirst`,
  `QuietAndTold`, `RowsTellWhatHappened`. `OnlyTheVerifiedRuns` and
  `OnlyHistoryStays` rest on `VInv` and `DInv`: what a run asks for is what it
  may trust, and a file made ready is that one or gone (`Trusted`, `Sought`).
  They assume `Alone`, one installer at a time, as two share the download
  directory (section 4). What the catalog's operators find in a document (the least of
  the versions, the first matching installer) follows from `LeastNumber` and
  `GreatestNumber`, which stand in for induction over its length.
- **Client_proofs.** Five invariants over one decomposition of the steps.
  `Placed` says what a process has at each `pc` and who holds a lock, which
  scope a chain is about (`AimedAt`: an uninstaller's processes all decide for
  the one on the command line), and who can have started whom (`BornAt`).
  `Preceded` carries the predecessor's absence from the verdict to the walk.
  `Kept`, of scopes outside `history.met`: at most one open transaction, an
  installation or an open transaction has the uninstaller, and while a removal
  is going on nobody holds the lock and nothing is installed. `Answered`, of
  chains nobody killed: exactly one process of a chain runs the engine and the
  others wait, whose exit code and document pass up through `Lingers`,
  `ChildAt` and `Collected`. `Tidy` says what each temporary file waits for and
  that a removed scope is empty, locked by another, or left to a helper.
  Results: `TypeCorrect`, `InstalledStaysUsable`, `PredecessorFirst`,
  `AnswersTheCaller`, `NothingIsLeft` (what a helper that gave up leaves is named
  in the property), with any number of chains and kills.
- **Package_proofs.** `PackageInvariance`: `BuildOK` says what the build has
  resolved at each stage, from sources and under entries that exist; `FilesOK`
  that the partial file from its writing on, and the installer from its renaming
  on, is `Sound`, composed of the blocks it maps, an index of what its payload
  holds and metadata that passed validation; `ReaderOK` where the reader of the
  copy stands. `ComposedIsSound` is the step that matters: whatever became of
  the sources since they were described, what the second pass composed either
  fails the validation or is `Sound`. `SoundOpens` then gives `PublishedStands`
  (`KeepsWhatStood`), since the two steps that touch the installer follow it.
  `SoundDelivers` gives `DeliversWhatIsBuilt` (`DeliversWhatItSays`); its last
  part, that the declared batches are the only ones the files can be cut into,
  is `OneWayToCut`: two valid ways start alike, and where they agree up to a
  batch, one that closed it earlier could have taken the next file.
  `ReadsBack` (`ReadsWhatWasBuilt`) rests on what a damaged copy of a sound file
  opens (`OpenCopy`), extracts (`EngineOfCopy`) and reads (`ReadOfCopy`), and on
  `KeptOpens` for the uninstaller made of it.
  What a recursive function yields is proved with a least counterexample
  (`Least`, from the well-foundedness of `<`): `EndsExist` and `BatchesExist`
  that the function is there, then that it obeys its equation, is typed, and
  rises.
  `RefusedOnlyForCause` (`RefusedForCause`) compares the two sets of rules.
  `Foreseen` says of each stage what the manifest's rules and the step that
  resolved it make certain: distinct files at paths the rules accept or at a
  completion script's, predicates that are declared, programs and dependencies
  as the metadata may hold them. `MetadataMade` then goes through
  `Metadata::validate` rule by rule: each follows from what is foreseen, or from
  the absence of one of the causes in `Unforeseen`. The batches are those the
  rules ask for whatever the files (`BatchesValid`), and the stream has no path
  twice (`StreamDistinct`). The attempt found causes the model had missed, which
  the code does have (section 4), and a hash the model gave WinGet dependencies
  where only a URL has one; both are corrected, and instances were added in
  which each cause is the only one.
  `PackageAssumption`, `ManifestAssumption` and `MetadataAssumption` are all that
  is assumed: what the instance chooses is as deserializing leaves it
  (`WellFormed`), a path stands in the order once, and a script's name is one.

  Of the product over its runs, `OthersStand` (`TheirsStand`) holds for any
  versions, options, accounts, machine and edits. `PlanStands` says of every
  operation of a plan what it may be (`OpStands`): a take is of an owned resource
  that is still as written, or of a key, directory or shortcut; a put of a
  changed value, variable or rule is a repair's or the registration's; a key or
  value is put in where a wanted value needs it. That goes kind by kind, over
  what flattening, enumerating and sorting by depth leave of a list
  (`Flattened`, `EnumeratedHolds`, `ByDepthHolds`, each from a least
  counterexample or an explicit witness in place of induction). `AfterHolds`
  says what carrying a plan out leaves: what no operation touches is as it was,
  and every row comes from an operation. For schemes neither is enough.
  `InstallationInvariance` adds that the installation owns nothing below a
  plain scheme's class (`PlainSchemes`: one the versions register in no other way)
  unless its rows say that it created the class (`Claims`): a run
  writes there only where it may claim the scheme (`PlanClaims`, over the keys
  of every kind of integration), and then its plan has the class too. So no run
  puts or takes anything in a class that is another's (`ForeignStays`).
  TLC found the invariant to hold of the instance of the run before it was
  proved.

The type theorem of each module, `RollbackFinality`, `TerminalFinality`,
`EvidenceClosed`, `SupervisedIsEvidenced`, `EndedFinality`, `Restarting`,
`RowsTellWhatHappened`, `PredecessorFirst`, `LinesStay`, `PackageInvariance`
and `InstallationInvariance` hold for every instance and have no run of their
own; every other theorem states a property a run checks.

Only model-checked: liveness (`Converges`, `RunEnds`), which is beyond the
prover here; `ResumedUnlessLost` of `Quiescence`, which what is stored where the
resumes begin decides; and of `Installation` `FollowsThePackage` and
`RepairHeals`, which are about what all the operations of a plan come to
together, where `TheirsStand` is about what none of them does. The library's
induction theorems take an operator as parameter and cannot be instantiated
here; a least counterexample stands in for them where one fact about a recursive
function is wanted, as in `Package_proofs` and `Dependencies_proofs`.

## 4. Divergences met

Places where the code does other than a comment or the design document says,
or than somebody might expect. Where a definition and the constants are named,
TLC finds the behaviour by setting them in the run's configuration.

### Transaction

- A crash inside the copy that keeps a previous file leaves a partial backup,
  which the repeated apply takes for the original (`win/fs.rs:170` and 263):
  `SameVolume = FALSE` violates `Restorable`.
- Statements behind the SQL commit may fail (`txn/executor.rs:1427`), and the
  run then rolls back a transaction the database says is committed, which
  `state/journal.rs:10` excludes. `TerminalIsFinal` allows that to the process
  that committed, while it runs, and to no other.
- The sweeps of a recovery and the cleanup of a run are best effort
  (`txn/recovery.rs:186` and 208, `txn/executor.rs:1453`), so that a run may
  begin beside temporaries and a staging area that were held open
  (`LeftoversAreHeld`), where `txn/recovery.rs:5` says that a crash "leaves
  nothing behind".
- The file judged by the plan is not looked at again before it is replaced or
  removed (`plan.rs:1663`): a change in between is lost.
- A rollback is stuck where the user deletes a file an interrupted undo had
  moved back from its backup (`win/fs.rs:243`).
- A recovery changes files before the run stops anything (`txn/recovery.rs:57`).
- A program started but not yet assigned to its job survives its engine and
  runs on beside the recovery (`win/process.rs:649`; TigerSetup-Design.md 1085):
  `NeverOrphaned` of `Actions`.
- The restart an applied action asked for is forgotten by the run that recovers
  and commits (`txn/actions.rs:299`; design 1092): `RestartReported`.
- `action_not_reverted` is not recorded where the last attempt of an action
  that ran before could not be launched (`txn/actions.rs:452`);
  `NotRevertedRecorded` in `Actions` states it and
  `NotRevertedUnlessLaunchFailed` what does hold.
- A list of stored programs that cannot be read counts as empty, so that the
  sweep takes what the installed version owns (`txn/actions.rs:468`, against its
  comment 461): `ReadErrors = TRUE` violates `OwnedIsStored`.

### Applications

- After a rollback the sweep removes a resume program the previous version does
  not own before it is started, so that the application stays stopped, though
  reported (`quiescence.rs:332`, against its comment 329–330): with a resume
  program only the new version packages, `ResumedUnlessLost` is violated.
- Where the resolution of a resume program, or the row of a stop, fails, the
  application just stopped is not among those the run owes: it stays stopped and
  nothing says so (`quiescence.rs:332`; design 776 and 779). `NoneLeftSilently`
  and `ResumedUnlessLost` excuse that one (`"unresolved"`).
- A resume program that is gone or does not start leaves its application stopped
  (`quiescence.rs:509`), reported as `quiescence_resume_failed`, where design 779
  has it started again.
- A refusal of the Restart Manager's shutdown, or a failure to open the
  transaction after it, leaves closed applications closed (`restart.rs:465`).
- `release` restarts applications also when the transaction stays open
  (`lib.rs:1346`), unlike the declared quiescence.

### Shared resources

- A value written between the plan and the write (`LateEdits = TRUE` violates
  `DataKept`): `SetRegistryValue` writes without looking
  (`txn/executor.rs:933`), where `txn/executor.rs:1362` says "Every other
  mutation inspects its target before it acts". For a value owned already the
  old restore is carried, and the overwritten data is remembered nowhere once
  committed. In the same window an equivalent PATH entry of somebody else is
  found present, not appended, and yet recorded as added
  (`state/journal.rs:867`), and removed with the product: `TakesItsOwn` fails
  with `LateEdits`.
- The removal of a PATH entry falls back to a normalized match
  (`resource/path.rs:82`). Where the product's own is gone, by somebody else's
  hand, an equivalent another program put there goes in its place. And an append
  or a removal is not told from its repetition after a crash
  (`txn/executor.rs:984` and 1370): a removal that is undone or repeated takes a
  second segment where an equivalent is in PATH as well, though
  `resource/path.rs:8` has it remove "exactly one segment". The undo of an append
  that never was takes an equivalent added meanwhile (`txn/rollback.rs:217`).
  `TakesItsOwn` has `ours = "gone"` for the first two.
- The undo of a removal cannot tell the data it restored from the same data
  written by somebody else meanwhile (`Echoes`), and puts the product's back.
- A user who sets an owned value to what the next version wants has it kept as
  owned, with the old restore, so the uninstall takes it (`plan.rs:1569`).
- Removing the last entry deletes a `Path` that was empty before
  (`resource/path.rs:162`); after a rolled back removal the entry is not
  appended where an equivalent has come meanwhile, and a later uninstall takes
  that one, as removal falls back to a normalized match.
- `without_block` (`resource/profile.rs:432`) takes out the separator in front
  of a block and the line break behind it. Where the file ended inside a line,
  the first break of the separator ends the user's own last line: with a line
  appended behind the block since, the removal joins the two, "u" and "v"
  become "uv", although "everything outside the markers stays byte for byte as
  it was" (`resource/profile.rs:13`, design 1254). `Unended = TRUE` violates
  `StrangersKept`; `resources` runs without such edits. Three products do the
  same without anybody's edit: each recorded at its preparation the separator
  that would end the line, the second and third appended theirs behind the
  first's block, and the third's removal joins the user's last line with the
  next block's marker. `StrangersStay` therefore assumes that profiles are found
  with their last line ended; with two products, as in the run, it holds.
- Two products in one profile: a start marker can be glued to a user's line
  once a blank line was removed; "u" ends as "u" and a break; a file one of them
  created survives empty when the other goes last; overlapping or repeated
  rollbacks of removals leave more and more blank lines. A rolled back removal
  puts the block at the end (`txn/rollback.rs:236`: "back as it was").
- An upgrade over a read-only or locked profile skips the block and drops its
  row, though the old block stays. A profile that cannot be read is prepared as
  absent, so that it counts as created. A crash between the directory and the
  file leaves the directory after a rollback. A removal does not look again at
  a block that was edited since the plan.
- A shortcut replaces a stranger's link of its name, which the commit drops;
  its undo removes or overwrites what is there. A firewall rule of a
  stranger's that appeared since the plan is rewritten (`txn/executor.rs:1362`,
  `win/firewall.rs:10`), and a repair rewrites one that stands alone under an
  owned name.
- Two products that set one variable, removed in the order they came: the
  second puts back the first's value, and the user's is lost. Overlapping
  transactions of two scopes of one product, which share a profile's marker,
  can orphan a block. `MayStart` excludes both.

### Plan

- Two declarations that claim one registry value (two associations of one
  extension, a ProgID that is a scheme, an entry twice) pass both validators.
  The value is set twice and has one row (`plan.rs:1560`); after a repair row
  and machine differ, so that the uninstall preserves the leftover.
- An upgrade in which a file becomes a directory, or the reverse, never
  succeeds. Neither validator refuses a file whose path is a directory's.
- A rebuilt package of the same version is a no-op for an install.
- A default once recorded outlives a later version's changed default.
- `equals = "on"` is accepted of a boolean option's predicate, but `enabled`
  compares with "true", so that it never holds.
- A class the installation created for a URL scheme, and that was deleted and
  made again by another program, is still the product's by its row: a repair
  overwrites it, and even an upgrade writes missing values into it, where
  `resource/integration.rs:24` says that another application's is "left exactly
  as it is" and 265 that a scheme is written only where nothing else owns it.
  `TheirsStand` takes a class for another's only where no row says it was created.
- Neither validator keeps a ProgID, or the key of a `[[registry]]` value, apart
  from the class of a scheme the package declares. Such a package writes into
  the class of a scheme another application registered, which the check in
  `resource/integration.rs:265` is there to prevent. `TheirsStand` is of the
  `PlainSchemes`; for a version whose association has the ProgID of its scheme it
  is violated if taken for every scheme.
- Files and links found at a package's paths are replaced and not put back.
- A PATH entry that was there before, and was removed since, is not made again
  by a repair (`plan.rs:829`), whose documentation (`lib.rs:1017`) says that
  every missing resource is. An uninstall without elevation leaves the firewall
  rules it may not delete and drops their rows.
- A repair trusts the rows of files whose size and time are unchanged
  (`plan.rs:725`), and so keeps a file damaged without those changing.

### Dependencies and catalog

- The restart an installer asked for is not in the outcome of a failing run.
- A download whose flush fails stays, unverified, until the directory goes
  (`src/crates/tigersetup-catalog/src/http.rs:376`); on a machine with no
  database two runs share the directory without a lock
  (`dependency/acquire.rs:3`: "and never an unverified download"). One of them
  alone runs only what it verified (`RunsOnlyVerified`); of two, the second may
  create the file again after the first has verified it, and the first runs what
  is left when the second dies.
- A manifest that does not have its hash makes the resolution fall to the next
  older version. A version without dependencies never removes what a crashed
  run of an earlier one downloaded (`dependency/mod.rs:466`).

### Client, wizard, loader

- An install that saw no database opens the one another made since, and begins
  over its open transaction (`lib.rs:952`; against 857 and 890):
  `NeverOverOpenTransaction` of `Client`.
- The helper deletes the uninstaller up to half a minute after the run, so that
  an installation made at once loses its own; the state directory is removed
  after the lock is dropped. `history.met` excuses both in `HasUninstaller`.
- Two transactions left open in one database, by an install that began over
  another's, can outlast an uninstall whose directory stays: a later run takes
  the lower one forward, and an installation has no uninstaller. `history.met`
  excuses that too.
- The helper that deletes the uninstaller and its copy is given half a minute,
  and a start of it that fails is ignored
  (`src/crates/tigersetup-setup/src/main.rs:374` and 414): both may stay, where
  `lib.rs` says that an uninstalled product leaves nothing of TigerSetup's behind.
  `LeavesNothing` excuses them where the helper ended so (`Unfinished`).
- A result document that cannot be written is ignored
  (`src/crates/tigersetup-setup/src/main.rs:764`): the parent reports
  `elevated_result_missing`, with the right exit code.
- An elevated child that is refused early writes no result document, so that
  the parent reports `elevated_result_missing` instead of the reason
  (`src/crates/tigersetup-setup/src/main.rs:44`).
- Concurrent installs in different scopes make two installations; so does a
  killed user install, a machine install, and a repair of the user scope, which
  recovers forward (`target.rs:165`).
- A copy that was staged stays when the relaunch fails; a repair of a product
  that is not installed leaves a database.
- A wizard whose window is hidden for a relaunch stays hidden where a box still
  open takes its quit message (`src/crates/tigersetup-setup/src/ui/dialog.rs:168`
  against `elevation.rs:41`): `NeverInvisible` of `Wizard`.
- The uninstaller copy of the user's installation, left behind without it, is
  started without elevation and decides for the machine's, which it cannot write
  (`src/crates/tigersetup-setup/src/main.rs:518`): `StartedAsChosen` excuses it.
- With both scopes installed, the uninstaller copy of one asks which to remove,
  and takes either (`src/crates/tigersetup-setup/src/ui/session.rs:226` against
  `main.rs:518`): `ServesItsScope`.
- A launch with elevation that was killed leaves its directory for ever, and one
  that was held up for a day before it wrote into its own loses it to a sweep,
  which goes by age alone. The
  engine's own relaunch (`elevation.rs:280`) creates root and file without the
  loader's retry.

### Building

- `verify` pins the hashes of actions and dependencies, not of the programs of
  quiescence entries: one whose source was edited, at equal size, between hash
  and stream passes, and its installer cannot stop the application.
- A file is verified after the rename, so that a bad one stays at its path; a
  rename that fails has deleted the previous one already, and a crash between
  the two leaves only the partial file, which the next build deletes first.
- The loader block has no hash: a damaged loader goes into the uninstaller. The
  uninstaller of a signed installer has the signed loader's header and no
  certificate table.
- The manifest's rules accept what the metadata's refuse (`Unforeseen`):
  ProgIDs, schemes, app paths, verbs or rule names declared twice, a launch of
  what is not packaged, TigerSetup's own directories, a completion for a command
  whose script has a device's name, an empty WinGet identifier or URL; and a
  catalog's hash is asked for 64 characters only
  (`src/crates/tigersetup-catalog/src/manifest.rs:247`), where the metadata's
  rules want hexadecimal ones. A launch whose executable
  has a predicate may be missing, where `validate_launch` says it exists once
  the run has committed.

## 5. Abstractions and what is not modelled

- Every commit to the database and every write-through rename is atomic and
  durable; lazily written metadata of `remove_file` after a power cut is not.
- The legacy `prepared` state, the fingerprint shortcut of a re-application,
  grouping at `fault.boundary_at`, and directory operations are left out of
  `FileTransaction`; planning and beginning are one step of it; the two commits
  that stop a rollback (`rollback.rs:78`) are one.
- `Recover` of `Integrations` may take either direction of a running
  transaction: which package runs is not a variable there.
- A read-modify-write of PATH or of a profile is one step; another program
  between its halves loses or is lost, which the code cannot prevent.
- In `Resources` one process acts at a time; profiles of another account and
  firewall rules without elevation are in `Installation` only.
- Applications that exit late after `package_in_use`, failures of `RmRestart`,
  and the polling of the grace period are sets chosen at once.
- `Dependencies`: the kinds of detection are one operator, which may fail; the pattern matcher,
  MSZIP and the encodings of the catalog are left out. The product's
  transaction is one step of it.
- `Client`: the wizard and a second version of the package; an empty state
  directory is none; a helper outlasts its process, and may give up at any
  time, which stands for its half minute. `Wizard`: a WM_CLOSE posted
  by another program between a child's end and the quit, which makes the exit
  code that of a cancellation; painting, texts, the content of pages.
- `Loader`: a sweep is one step; a file system without file indexes skips the
  identity check; decompression.
- `Package`: byte frames and offsets, globs, MSBuild evaluation, VERSIONINFO,
  inspection, WinGet manifests; what a single text may look like is one set of
  refused texts (`Malformed`); a hash is the content.
- `Installation`: a run that fails is one whose file meets a directory, rolled
  back in the same step; the value of `InstallDate` and the constant values of
  the registration, moved shell folders, actions, batches, findings and counts
  are left out. A first installation inspects nothing, which shows only in the
  counts. That a licence is newly accepted is a choice of the run (`accepting`);
  the recorded acceptance is left out. A file's fingerprint is its content: an
  edit that keeps size and time passes for none in the code. Damaged or unreadable profiles are in
  `Resources`. The packages exclude double claims of one value, changes between
  file and directory, and files found at the packages' paths (section 4).
- Not modelled: schema migrations of the database, `inspect` and the reports,
  protocol buffers, the broadcast of environment changes, tokens and desktops
  of a launch, terminal profiles, drawing and texts.

## 6. Plan

Done, in this order: the file transaction and its abstract specification;
custom actions; action store; quiescence with the Restart Manager, composed
with the store; registry values and PATH; profiles, links, rules and variables;
metadata, manifest and installer file; dependencies and catalog; client, wizard
and loader; the plan over the history of an installation.

Next, most important first:

1. The rows of several kinds in one transaction: `FileTransaction` with an
   `Integrations` operation in the same group, so that one undo's failure meets
   the other kind.
2. Schema migrations with a crash at every step, two processes and the lock:
   one writer and a monotone schema.
3. The catalog's pattern matcher and MSZIP as recursive functions against
   reference definitions over bounded inputs; version comparison.
4. `inspect` and the WinGet manifests of the builder, as readers of what
   `Package` publishes.

Theorem to prove next: `RepairHeals` of `Installation`, one kind of resource at
a time, from what a plan's steps leave of one resource: `AfterHolds` with, for a
resource one operation alone touches, what that operation makes of it.
