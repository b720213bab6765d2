-------------------------- MODULE FileTransaction --------------------------
(***************************************************************************)
(* The transaction engine of tigersetup-engine on the files of a product: *)
(* the journal (state/journal.rs), the forward walk in commit groups and   *)
(* the commit (txn/executor.rs), the reverse walk (txn/rollback.rs), the   *)
(* recovery a mutating run begins with (txn/recovery.rs), and the file     *)
(* protocol of staging, replacing, keeping and restoring (win/fs.rs).      *)
(*                                                                         *)
(* Variables above the line below are on disk and survive a crash or a     *)
(* power cut: every one of them is changed by a durable commit, or by a    *)
(* write-through rename of flushed bytes. The others are the memory of the *)
(* one process that holds the database's exclusive lock.                   *)
(*                                                                         *)
(* Each path of the install root is one element of Files, in payload       *)
(* order, and carries at most one operation of a transaction. What a file  *)
(* holds is one opaque value; a hash comparison is equality of values.     *)
(***************************************************************************)
EXTENDS Naturals, FiniteSets

CONSTANTS
  NumFiles,        \* paths any package or user puts under the install root
  Bytes,           \* what a file can hold
  UserBytes,       \* the part of Bytes only the user writes
  Absent,          \* no file there
  Partial,         \* the prefix an interrupted copy leaves
  Versions,        \* the packages of the product, one per version
  Tree,            \* Tree[v][f]: what version v puts at f, or Absent
  BatchOf,         \* the builder batch of a file (metadata file_batches)
  GroupBatches,    \* GROUP_BATCHES: journal batches in one commit group
  None,            \* no version, no undo record, no running executable
  SameVolume,      \* state directory on the install root's volume
  LateError,       \* the statements behind the SQL commit may fail
  ExposedFiles,    \* those others also change under an open transaction
  Locked           \* files whose leftovers others may hold open

Files  == 1..NumFiles
Stored == Bytes \cup {Absent, Partial}

\* A package of one version exists as the installer, with its payload, and
\* as the uninstaller copy; the two differ in their metadata hash.
Exes == [version : Versions, role : {"setup", "uninstaller"}]

ASSUME FileTransactionAssumption ==
  /\ NumFiles \in Nat
  /\ UserBytes \subseteq Bytes
  /\ Absent \notin Bytes /\ Partial \notin Bytes /\ Absent # Partial
  /\ None \notin Stored \cup Versions \cup Exes
  /\ Tree \in [Versions -> [Files -> Bytes \cup {Absent}]]
  /\ BatchOf \in [Files -> Nat \ {0}]
  /\ \A f, g \in Files : f < g => BatchOf[f] <= BatchOf[g]
  /\ GroupBatches \in Nat \ {0}
  /\ SameVolume \in BOOLEAN /\ LateError \in BOOLEAN
  /\ ExposedFiles \subseteq Files /\ Locked \subseteq Files

VARIABLES
  installed,   \* the installation row's version, or None
  owned,       \* the ownership rows of files: the hash owned, or Absent
  txnState,    \* the state of the newest transaction row, "none" before any
  txnKind,     \* whether it installs or uninstalls
  txnExe,      \* package id, version and metadata hash that opened it
  kind,        \* the operation the plan gave each file
  opState,     \* the state of each operation row
  prev,        \* the undo record: the previous content, None before it is taken
  disk,        \* what is at each target
  backup,      \* the transaction's staging area, by operation
  stale,       \* an older transaction's staging area is still there
  temp,        \* targets with a .tigersetup-new beside them
  edited,      \* history: files the user changed since the last commit
  pc,          \* where the running process is, "down" when there is none
  running,     \* the executable it runs, or None
  recovering,  \* it is walking a transaction another run left open
  unit,        \* the commit group, or rollback unit, being walked
  again,       \* the members of the group a crash had left applying
  todo,        \* the members of the unit not mutated or undone yet
  step         \* how far the current member is inside its own mutation

journal  == <<txnState, txnKind, txnExe, kind, opState, prev>>
registry == <<installed, owned>>
walker   == <<unit, again, todo, step>>
process  == <<pc, running, recovering, walker>>
aside    == <<backup, stale>>
vars     == <<registry, journal, disk, aside, temp, edited, process>>

TxnStates == {"none", "running", "committed", "rolling_back", "rolled_back",
              "rollback_failed"}
OpStates  == {"planned", "applying", "applied", "rolling_back",
              "rolled_back", "rollback_failed"}
Kinds     == {"none", "install", "keep", "remove"}

TypeOK ==
  /\ installed \in Versions \cup {None}
  /\ owned \in [Files -> Bytes \cup {Absent}]
  /\ txnState \in TxnStates
  /\ txnKind \in {"installs", "uninstall"}
  /\ txnExe \in Exes \cup {None}
  /\ kind \in [Files -> Kinds]
  /\ opState \in [Files -> OpStates]
  /\ prev \in [Files -> Stored \cup {None}]
  /\ disk \in [Files -> Stored]
  /\ backup \in [Files -> Stored]
  /\ stale \in BOOLEAN
  /\ temp \subseteq Files
  /\ edited \subseteq Files
  /\ pc \in {"down", "recover", "plan", "walk", "mutate", "rollback",
             "reverse", "undo", "cleanup"}
  /\ running \in Exes \cup {None}
  /\ recovering \in BOOLEAN
  /\ unit \subseteq Files /\ again \subseteq Files /\ todo \subseteq Files
  /\ step \in {"begin", "staged", "copying", "copied"}

NoFiles == [f \in Files |-> Absent]
Idle    == unit = {} /\ again = {} /\ todo = {} /\ step = "begin"

Init ==
  /\ installed = None
  /\ owned = NoFiles
  /\ txnState = "none" /\ txnKind = "installs" /\ txnExe = None
  /\ kind = [f \in Files |-> "none"]
  /\ opState = [f \in Files |-> "planned"]
  /\ prev = [f \in Files |-> None]
  /\ disk \in [Files -> UserBytes \cup {Absent}]
  /\ backup = NoFiles /\ stale = FALSE
  /\ temp = {}
  /\ edited = {}
  /\ pc = "down" /\ running = None /\ recovering = FALSE
  /\ Idle

----------------------------------------------------------------------------
(* What the journal rows say. *)

\* open_transaction: the state is neither committed nor rolled_back.
Open == txnState \in {"running", "rolling_back", "rollback_failed"}

Operations == {f \in Files : kind[f] \in {"install", "remove"}}

\* What the transaction's package wants at a file it installs, keeps or removes.
Wanted(f) ==
  IF kind[f] \in {"install", "keep"} THEN Tree[txnExe.version][f] ELSE Absent

\* What the payload of the running executable has for a file.
Payload(f) == Tree[running.version][f]

\* A file the package of the run does not know is removed in the residue
\* batch, after those it knows; otherwise payload order, by builder batch.
Knows(f)       == Tree[txnExe.version][f] # Absent
Batch(f)       == IF Knows(f) THEN BatchOf[f] ELSE 0
Precedes(f, g) == \/ Knows(f) /\ ~Knows(g)
                  \/ (Knows(f) <=> Knows(g)) /\ f < g
First(f, S)    == f \in S /\ \A g \in S \ {f} : Precedes(f, g)
Last(f, S)     == f \in S /\ \A g \in S \ {f} : Precedes(g, f)

Pending == {f \in Operations : opState[f] \in {"planned", "applying"}}

\* The next commit group: operations not applied yet, in sequence order, up
\* to the last that GroupBatches distinct batches can hold.
NextGroup ==
  {f \in Pending :
     Cardinality({Batch(g) : g \in {h \in Pending : h = f \/ Precedes(h, f)}})
       <= GroupBatches}

\* Mutants: what was never applied has nothing to undo; what was undone is
\* undone again.
UndoApplied == {f \in Operations : opState[f] \notin {"planned", "applying", "rolled_back"}}
UndoAgain   == {f \in Operations : opState[f] # "planned"}

\* The operations a rollback still has something to undo for, and the last
\* run of them that shares a batch.
Undoable == {f \in Operations : opState[f] \notin {"planned", "rolled_back"}}
LastUnit == {f \in Undoable : \E l \in Undoable : Last(l, Undoable) /\ Batch(f) = Batch(l)}

Marked(S, state) == [f \in Files |-> IF f \in S THEN state ELSE opState[f]]

----------------------------------------------------------------------------
(* Deleting what a transaction leaves is best effort: a file that another  *)
(* program holds open stays, and nothing fails over it.                    *)

Staged == {f \in Files : backup[f] # Absent}

SweepTemporaries == \E left \in SUBSET (temp \cap Locked) : temp' = left

\* remove_dir_all stops at the first entry it cannot delete, wherever in the
\* directory that is.
MayRemain(S) == S = {} \/ S \cap Locked # {}
Remains(S)   == {left \in SUBSET S : MayRemain(left)}

RemoveStale   == stale' \in {FALSE, stale /\ Locked # {}}
RemoveStaging == \E left \in Remains(Staged) :
                   backup' = [f \in Files |-> IF f \in left THEN backup[f] ELSE Absent]

\* The state directory of a product that is gone goes with everything in it,
\* the database too unless the removal stopped before it.
RemoveStateDirectory ==
  /\ RemoveStaging /\ RemoveStale
  /\ txnState' \in {txnState, "none"}

----------------------------------------------------------------------------
(* A run begins: it takes the database lock, recovers an open transaction, *)
(* and then plans its own.                                                 *)

Start(exe) ==
  /\ pc = "down"
  /\ pc' = "recover" /\ running' = exe
  /\ UNCHANGED <<registry, journal, disk, aside, temp, edited, recovering, walker>>

\* Mutant: a staging area a finished run left stays.
NothingToSweep ==
  /\ pc = "recover" /\ ~Open
  /\ pc' = "plan"
  /\ UNCHANGED <<registry, journal, disk, aside, temp, edited, running, recovering, walker>>

\* No open transaction: only staging areas a finished run left are removed.
NothingToRecover ==
  /\ pc = "recover" /\ ~Open
  /\ RemoveStaging /\ RemoveStale
  /\ pc' = "plan"
  /\ UNCHANGED <<registry, journal, disk, temp, edited, running, recovering, walker>>

\* Mutant: forward for any package of the product.
SameProduct == running \in Exes

\* Forward only for the same package identity, version and metadata hash,
\* and only a transaction still running.
SamePackage == running = txnExe
GoesForward == txnState = "running" /\ SamePackage

\* Mutant: the sweep spares only the backups of applied operations.
SweepUnapplied ==
  /\ SweepTemporaries
  /\ backup' = [f \in Files |-> IF opState[f] = "applied" THEN backup[f] ELSE Absent]

\* The sweep of temporaries, and of backups no journal row names.
SweepOrphans ==
  /\ SweepTemporaries
  /\ \E left \in SUBSET (Staged \cap Locked) :
       backup' = [f \in Files |-> IF f \notin left /\ prev[f] \in {None, Absent}
                                 THEN Absent ELSE backup[f]]

Recover ==
  /\ pc = "recover" /\ Open
  /\ RemoveStale /\ SweepOrphans
  /\ recovering' = TRUE
  /\ pc' = IF GoesForward THEN "walk" ELSE "rollback"
  /\ UNCHANGED <<registry, journal, disk, edited, running, walker>>

\* A run that opens no transaction: the version is installed already, nothing
\* is installed, a dependency failed, an application kept a file. An
\* uninstall that finds nothing installed removes the state directory.
LeaveBeforeTransaction ==
  /\ pc = "plan"
  /\ pc' = "down" /\ running' = None
  /\ \/ UNCHANGED <<txnState, aside>>
     \/ installed = None /\ RemoveStateDirectory
  /\ UNCHANGED <<registry, txnKind, txnExe, kind, opState, prev, disk,
                 temp, edited, recovering, walker>>

\* Mutant: an owned file goes whatever the user made of it.
RemoveOwned(f) == IF owned[f] # Absent THEN "remove" ELSE "none"

\* An owned file that goes is removed while it still is what is owned, and
\* preserved (no operation) once it is missing or modified.
RemovalKind(f) == IF owned[f] # Absent /\ disk[f] = owned[f] THEN "remove" ELSE "none"

\* A first installation reads no target; a later one keeps what is right.
InstallKind(f) ==
  IF Payload(f) = Absent THEN RemovalKind(f)
  ELSE IF installed # None /\ disk[f] = Payload(f) THEN "keep"
  ELSE "install"

\* One commit writes the transaction row and every operation row; the
\* transaction's id names a staging area nothing has used, whatever is left
\* of the one before.
Begin(purpose, plan) ==
  /\ txnState' = "running" /\ txnKind' = purpose /\ txnExe' = running
  /\ kind' = plan
  /\ opState' = [f \in Files |-> IF plan[f] = "keep" THEN "applied" ELSE "planned"]
  /\ prev' = [f \in Files |-> None]
  /\ backup' = NoFiles /\ stale' = (stale \/ Staged # {})
  /\ pc' = "walk"
  /\ UNCHANGED <<registry, disk, temp, edited, running, recovering, walker>>

BeginInstall ==
  /\ pc = "plan" /\ running.role = "setup"
  /\ Begin("installs", [f \in Files |-> InstallKind(f)])

BeginUninstall ==
  /\ pc = "plan" /\ installed # None
  /\ Begin("uninstall", [f \in Files |-> RemovalKind(f)])

----------------------------------------------------------------------------
(* The forward walk. *)

\* Every undo record of the group in one commit, before any mutation of it.
\* An operation found applying keeps the record it has; a fresh walk refuses
\* to see one.
StartGroup ==
  LET group == NextGroup
      fresh == {f \in group : opState[f] = "planned"}
  IN  /\ pc = "walk" /\ Pending # {}
      /\ recovering \/ group = fresh
      /\ opState' = Marked(group, "applying")
      /\ prev' = [f \in Files |-> IF f \in fresh THEN disk[f] ELSE prev[f]]
      /\ unit' = group /\ again' = group \ fresh /\ todo' = group
      /\ step' = "begin" /\ pc' = "mutate"
      /\ UNCHANGED <<registry, txnState, txnKind, txnExe, kind, disk, aside,
                     temp, edited, running, recovering>>

\* The member the walk is at.
Mutating(f, operation) == pc = "mutate" /\ First(f, todo) /\ kind[f] = operation

MemberDone(f) ==
  /\ todo' = todo \ {f} /\ step' = "begin"
  /\ UNCHANGED <<registry, journal, stale, edited, pc, running, recovering, unit, again>>

\* A previous file is put aside unless an earlier attempt already did.
NeedsBackup(f) == prev[f] # Absent /\ disk[f] # Absent /\ backup[f] = Absent

\* The target already holds what the package brings.
AlreadyInstalled(f) ==
  /\ Mutating(f, "install") /\ step = "begin"
  /\ f \in again /\ disk[f] = Payload(f)
  /\ MemberDone(f)
  /\ UNCHANGED <<disk, backup, temp>>

\* The entry is written to the temporary, verified against the index and
\* flushed.
StageFile(f) ==
  /\ Mutating(f, "install") /\ step = "begin"
  /\ ~(f \in again /\ disk[f] = Payload(f))
  /\ temp' = temp \cup {f} /\ step' = "staged"
  /\ UNCHANGED <<registry, journal, disk, aside, edited, pc, running,
                 recovering, unit, again, todo>>

\* ReplaceFileW moves the previous file to the backup and the temporary into
\* its place at once; with nothing to keep, or the backup already there, a
\* plain rename.
ReplaceFile(f) ==
  /\ Mutating(f, "install") /\ step \in {"staged", "copied"}
  /\ NeedsBackup(f) => SameVolume
  /\ backup' = IF NeedsBackup(f) THEN [backup EXCEPT ![f] = disk[f]] ELSE backup
  /\ disk' = [disk EXCEPT ![f] = Payload(f)]
  /\ temp' = temp \ {f}
  /\ MemberDone(f)

\* A removal found applying whose target is gone, or is no longer the file
\* the undo record names: done, or preserved.
LeaveTarget(f) ==
  /\ Mutating(f, "remove") /\ step = "begin"
  /\ f \in again /\ disk[f] # prev[f]
  /\ MemberDone(f)
  /\ UNCHANGED <<disk, backup, temp>>

RemoveFile(f) ==
  /\ Mutating(f, "remove") /\ step \in {"begin", "copied"}
  /\ step = "begin" => ~(f \in again /\ disk[f] # prev[f])
  /\ NeedsBackup(f) => SameVolume
  /\ backup' = IF NeedsBackup(f) THEN [backup EXCEPT ![f] = disk[f]] ELSE backup
  /\ disk' = [disk EXCEPT ![f] = Absent]
  /\ UNCHANGED temp
  /\ MemberDone(f)

\* Where a rename cannot reach the staging area: the previous file is copied
\* to the backup path and flushed, before the target is replaced or removed.
StartCopy(f) ==
  /\ ~SameVolume /\ NeedsBackup(f)
  /\ \/ Mutating(f, "install") /\ step = "staged"
     \/ Mutating(f, "remove") /\ step = "begin" /\ ~(f \in again /\ disk[f] # prev[f])
  /\ backup' = [backup EXCEPT ![f] = Partial]
  /\ step' = "copying"
  /\ UNCHANGED <<registry, journal, disk, stale, temp, edited, pc, running,
                 recovering, unit, again, todo>>

FinishCopy(f) ==
  /\ pc = "mutate" /\ First(f, todo) /\ step = "copying"
  /\ backup' = [backup EXCEPT ![f] = disk[f]]
  /\ step' = "copied"
  /\ UNCHANGED <<registry, journal, disk, stale, temp, edited, pc, running,
                 recovering, unit, again, todo>>

\* The applied records of the group, in one commit.
FinishGroup ==
  /\ pc = "mutate" /\ todo = {}
  /\ opState' = Marked(unit, "applied")
  /\ unit' = {} /\ again' = {} /\ pc' = "walk"
  /\ UNCHANGED <<registry, txnState, txnKind, txnExe, kind, prev, disk, aside,
                 temp, edited, running, recovering, todo, step>>

\* The commit: installation row, ownership rows and transaction state in one
\* SQL transaction. What follows it in Executor::commit can still return an
\* error, which sends the run into the rollback.
Commit ==
  /\ pc = "walk" /\ Pending = {}
  /\ txnState' = "committed"
  /\ installed' = IF txnKind = "uninstall" THEN None ELSE txnExe.version
  /\ owned' = [f \in Files |-> IF kind[f] \in {"install", "keep"} THEN Wanted(f) ELSE Absent]
  /\ edited' = {f \in edited : disk[f] # owned'[f]}
  /\ pc' \in {"cleanup"} \cup (IF LateError THEN {"rollback"} ELSE {})
  /\ UNCHANGED <<txnKind, txnExe, kind, opState, prev, disk, aside, temp,
                 running, recovering, walker>>

\* The temporary being written when its member fails goes as it is dropped,
\* unless its deletion fails too or the error fell while it was written.
DropTemporary(f) == temp' \in {temp, temp \ {f}}

\* A mutation or a journal write fails, or the user cancels: the error leaves
\* the walk, and the run rolls back.
FailForward ==
  /\ pc \in {"walk", "mutate"}
  /\ \/ UNCHANGED temp
     \/ \E f \in Files : Mutating(f, "install") /\ step # "begin" /\ DropTemporary(f)
  /\ unit' = {} /\ again' = {} /\ todo' = {} /\ step' = "begin"
  /\ pc' = "rollback"
  /\ UNCHANGED <<registry, journal, disk, aside, edited, running, recovering>>

----------------------------------------------------------------------------
(* The reverse walk. *)

BeginRollback ==
  /\ pc = "rollback"
  /\ txnState' = "rolling_back"
  /\ SweepTemporaries
  /\ pc' = "reverse"
  /\ UNCHANGED <<registry, txnKind, txnExe, kind, opState, prev, disk, aside,
                 edited, running, recovering, walker>>

StartUnit ==
  /\ pc = "reverse" /\ Undoable # {}
  /\ opState' = Marked(LastUnit, "rolling_back")
  /\ unit' = LastUnit /\ todo' = LastUnit
  /\ pc' = "undo"
  /\ UNCHANGED <<registry, txnState, txnKind, txnExe, kind, prev, disk, aside,
                 temp, edited, running, recovering, again, step>>

Undoing(f) == pc = "undo" /\ Last(f, todo)

\* The undo record says the file was not there.
UndoCreate(f) ==
  /\ Undoing(f) /\ prev[f] = Absent
  /\ disk' = [disk EXCEPT ![f] = Absent]
  /\ UNCHANGED <<backup, temp>>
  /\ MemberDone(f)

\* The target holds its previous content: the mutation never happened, or an
\* earlier attempt at this undo restored it.
UndoNothing(f) ==
  /\ Undoing(f) /\ step = "begin" /\ prev[f] # Absent /\ disk[f] = prev[f]
  /\ UNCHANGED <<disk, backup, temp>>
  /\ MemberDone(f)

Restoring(f) ==
  /\ Undoing(f) /\ step = "begin"
  /\ prev[f] # Absent /\ disk[f] # prev[f] /\ backup[f] # Absent

\* An absent target takes the backup back by one rename.
MoveBack(f) ==
  /\ Restoring(f) /\ disk[f] = Absent /\ SameVolume
  /\ disk' = [disk EXCEPT ![f] = backup[f]]
  /\ backup' = [backup EXCEPT ![f] = Absent]
  /\ UNCHANGED temp
  /\ MemberDone(f)

\* Otherwise a staged and flushed copy of the backup, which stays.
StageBack(f) ==
  /\ Restoring(f) /\ ~(disk[f] = Absent /\ SameVolume)
  /\ temp' = temp \cup {f} /\ step' = "staged"
  /\ UNCHANGED <<registry, journal, disk, aside, edited, pc, running,
                 recovering, unit, again, todo>>

CopyBack(f) ==
  /\ Undoing(f) /\ step = "staged"
  /\ disk' = [disk EXCEPT ![f] = backup[f]]
  /\ temp' = temp \ {f}
  /\ UNCHANGED backup
  /\ MemberDone(f)

\* The operation and then the transaction become rollback_failed, and the run
\* ends without a cleanup.
StopRollback(f) ==
  /\ opState' = [opState EXCEPT ![f] = "rollback_failed"]
  /\ txnState' = "rollback_failed"
  /\ IF step = "staged" THEN DropTemporary(f) ELSE UNCHANGED temp
  /\ pc' = "down" /\ running' = None /\ recovering' = FALSE
  /\ unit' = {} /\ again' = {} /\ todo' = {} /\ step' = "begin"
  /\ UNCHANGED <<registry, txnKind, txnExe, kind, prev, disk, aside, edited>>

\* backup_missing: there is nothing to restore the previous content from.
BackupMissing(f) ==
  /\ Undoing(f) /\ step = "begin"
  /\ prev[f] # Absent /\ disk[f] # prev[f] /\ backup[f] = Absent
  /\ StopRollback(f)

\* Any other error of an undo, such as a target something holds open.
UndoError(f) ==
  /\ Undoing(f) /\ (prev[f] = Absent \/ disk[f] = prev[f] \/ backup[f] # Absent)
  /\ StopRollback(f)

FinishUnit ==
  /\ pc = "undo" /\ todo = {}
  /\ opState' = Marked(unit, "rolled_back")
  /\ unit' = {} /\ pc' = "reverse"
  /\ UNCHANGED <<registry, txnState, txnKind, txnExe, kind, prev, disk, aside,
                 temp, edited, running, recovering, again, todo, step>>

FinishRollback ==
  /\ pc = "reverse" /\ Undoable = {}
  /\ txnState' = "rolled_back"
  /\ pc' = "cleanup"
  /\ UNCHANGED <<registry, txnKind, txnExe, kind, opState, prev, disk, aside,
                 temp, edited, running, recovering, walker>>

\* Temporaries and the staging area go, as far as they can be deleted. A
\* recovering run then plans its own transaction; a run whose uninstall
\* committed removes the state directory.
Cleanup ==
  /\ pc = "cleanup"
  /\ SweepTemporaries
  /\ IF ~recovering /\ txnKind = "uninstall" /\ txnState = "committed"
     THEN RemoveStateDirectory
     ELSE RemoveStaging /\ UNCHANGED <<stale, txnState>>
  /\ pc' = IF recovering THEN "plan" ELSE "down"
  /\ running' = IF recovering THEN running ELSE None
  /\ recovering' = FALSE
  /\ UNCHANGED <<registry, txnKind, txnExe, kind, opState, prev, disk, edited, walker>>

----------------------------------------------------------------------------
(* The environment. *)

\* The process dies or the machine loses power, at any step.
Crash ==
  /\ pc # "down"
  /\ pc' = "down" /\ running' = None /\ recovering' = FALSE
  /\ unit' = {} /\ again' = {} /\ todo' = {} /\ step' = "begin"
  /\ UNCHANGED <<registry, journal, disk, aside, temp, edited>>

\* Somebody changes or deletes a file; not one that is being copied, which
\* the copy holds open.
UserEdit(f, bytes) ==
  /\ f \in ExposedFiles \/ ~Open
  /\ step = "copying" => f \notin todo
  /\ disk' = [disk EXCEPT ![f] = bytes]
  /\ edited' = edited \cup {f}
  /\ UNCHANGED <<registry, journal, aside, temp, process>>

----------------------------------------------------------------------------

WalkStep ==
  \/ StartGroup \/ FinishGroup \/ Commit
  \/ \E f \in Files :
       AlreadyInstalled(f) \/ StageFile(f) \/ ReplaceFile(f) \/ LeaveTarget(f)
         \/ RemoveFile(f) \/ StartCopy(f) \/ FinishCopy(f)

RollbackStep ==
  \/ BeginRollback \/ StartUnit \/ FinishUnit \/ FinishRollback
  \/ \E f \in Files :
       UndoCreate(f) \/ UndoNothing(f) \/ MoveBack(f) \/ StageBack(f)
         \/ CopyBack(f) \/ BackupMissing(f)

RunStep ==
  \/ NothingToRecover \/ Recover \/ LeaveBeforeTransaction
  \/ BeginInstall \/ BeginUninstall \/ Cleanup

EngineStep == RunStep \/ WalkStep \/ RollbackStep

\* What fails: the machine, a forward step, an undo.
Fault == Crash \/ FailForward \/ \E f \in Files : UndoError(f)

Edit == \E f \in Files, bytes \in UserBytes \cup {Absent} : UserEdit(f, bytes)

Next ==
  \/ \E exe \in Exes : Start(exe)
  \/ EngineStep
  \/ Fault
  \/ Edit

Spec == Init /\ [][Next]_vars

\* A process that has not died keeps running, and somebody runs an installer
\* or uninstaller of the product again.
Fairness == WF_vars(EngineStep) /\ WF_vars(\E exe \in Exes : Start(exe))

FairSpec == Spec /\ Fairness

----------------------------------------------------------------------------
(* Properties. *)

\* What a rollback started now would leave at f: the recorded content once an
\* undo record is durable and not undone yet, what is on disk otherwise.
Before(f) ==
  IF Open /\ f \in Undoable THEN prev[f] ELSE disk[f]

\* The undo record of every operation that may have touched its target can be
\* honoured: the previous content is still in place, or it is in the backup.
\* This is the first half of the executor's hard invariant, that undo state is
\* durable before the mutation, together with the backups surviving every
\* sweep, retry and half-done restore (executor.rs 6-7, win/fs.rs).
Restorable ==
  Open => \A f \in Undoable :
            /\ prev[f] # None
            /\ prev[f] = Absent \/ disk[f] = prev[f] \/ backup[f] = prev[f]

\* The second half of the hard invariant: the mutation is durable before the
\* journal says it happened, so what the commit records as owned is there,
\* whatever crashes and re-applications led to the record (executor.rs 6-7).
AppliedIsOnDisk ==
  txnState = "running" =>
    \A f \in Files \ edited :
      opState[f] = "applied" => disk[f] = Wanted(f)

\* Without an open transaction the ownership rows tell the truth about every
\* file nobody changed since: no run, recovery or rollback ends with the
\* files of one version and the records of another (TigerSetup-Design.md 5.4).
OwnedIsOnDisk ==
  ~Open => \A f \in Files \ edited : owned[f] # Absent => disk[f] = owned[f]

\* Whichever filesystem action a crash separated from its journal row, a run
\* that gets to its own work finds no temporary beside a target but those
\* somebody held open when they were swept, and no staging area but one in
\* which a file was held open, which a later run sweeps (recovery.rs 4-7,
\* 186, 208, executor.rs 1453-1462).
LeftoversAreHeld ==
  pc = "plan" => temp \subseteq Locked /\ MayRemain(Staged) /\ (stale => Locked # {})

\* A transaction that has begun to roll back ends rolled back: no later run,
\* of whatever package, resumes or commits it (recovery.rs 4-5).
RollbackIsFinal ==
  [][(txnState \in {"rolling_back", "rollback_failed"}) =>
        (txnState' \in {"rolling_back", "rollback_failed", "rolled_back"})]_vars

\* No later run, restart or recovery takes a finished transaction up again: a
\* rolled back one is only replaced by the next or forgotten with the state
\* directory, and a committed one is left otherwise only by the process that
\* committed it, while it still runs and reports an error that fell behind
\* the SQL commit (journal.rs 8-12, 106-108, executor.rs 1426-1441). Whoever
\* finds a transaction finished, finds it final.
TerminalIsFinal ==
  [][/\ txnState = "rolled_back" => txnState' \in {"rolled_back", "running", "none"}
     /\ txnState = "committed" =>
          txnState' \in {"committed", "running", "none"} \/ (LateError /\ pc = "rollback")]_vars

\* Once faults cease, and edits under an open transaction, it reaches success
\* or full rollback (TigerSetup-Design.md 5.4): no state of journal and disk
\* leaves the engine without a next step or makes it retry for ever. The only
\* excuse is a file somebody changed while the transaction was open, where
\* the undo finds neither the previous content nor a backup of it
\* (win/fs.rs 243-266).
Disturbance == Fault \/ (Open /\ Edit)
Calm == <>[][~Disturbance]_vars
Unrestorable ==
  \E f \in Undoable \cap edited :
    prev[f] # Absent /\ disk[f] # prev[f] /\ backup[f] = Absent
Converges == Calm => (Open ~> (~Open \/ Unrestorable))

\* The files as a rollback would leave them, with the ownership records,
\* change only as AtomicInstall allows: a transaction takes effect in its
\* commit and nowhere else.
Atomic == INSTANCE AtomicInstall WITH tree <- [f \in Files |-> Before(f)]
IsAtomic == Atomic!Spec
=============================================================================
