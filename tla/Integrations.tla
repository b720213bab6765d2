---------------------------- MODULE Integrations ----------------------------
(***************************************************************************)
(* What a transaction does to the resources a product shares with the      *)
(* machine rather than keeps to itself: a registry value and the key it    *)
(* lies in, and an entry of PATH (resource/registry.rs, resource/path.rs,  *)
(* win/registry.rs). They differ from files in that somebody else owns     *)
(* what was there before and may change it at any time, so each ownership  *)
(* row also carries what to put back, and every run plans against the      *)
(* machine as it finds it (plan.rs). An environment variable follows the   *)
(* value's rules in code of its own.                                       *)
(*                                                                         *)
(* The plan is made in one step and the journal opened in a later one:     *)
(* applications are stopped and dialogs answered in between. Journal rows  *)
(* of a closed transaction are never read again and are forgotten here.    *)
(***************************************************************************)
EXTENDS Naturals, FiniteSets, SequencesExt

CONSTANTS
  Products,        \* the products an installation may be of
  Versions,        \* the packages of a product, one per version
  Wants,           \* Wants[p][v]: the data package v sets, or Absent
  WantsEntry,      \* WantsEntry[p]: the packages with a PATH entry
  UserData,        \* data of the value no package sets
  Absent,          \* no value, no PATH
  None,            \* no version, row, record or snapshot
  GroupBatches,    \* GROUP_BATCHES: journal batches in one commit group
  LateEdits        \* others also write what an operation is about to write

PackageData == {Wants[p][v] : p \in Products, v \in Versions} \ {Absent}
Data        == PackageData \cup UserData

\* A segment of PATH: the entry as the package spells it, another spelling of
\* it, some other directory, the empty one a trailing separator makes.
Segments == {"mine", "alike", "other", "blank"}
Paths    == Seq(Segments) \cup {Absent}

\* The key, what else is in it, the value, PATH.
Snapshots == BOOLEAN \X BOOLEAN \X (Data \cup {Absent}) \X Paths

ASSUME IntegrationsAssumption ==
  /\ Wants \in [Products -> [Versions -> Data \cup {Absent}]]
  /\ WantsEntry \in [Products -> SUBSET Versions]
  /\ Absent \notin Data \cup Seq(Segments)
  /\ None \notin Versions \cup Data \cup {Absent} \cup Snapshots
  /\ UserData \cap PackageData = {}
  /\ GroupBatches \in Nat \ {0}
  /\ LateEdits \in BOOLEAN

VARIABLES
  product,     \* whose packages are run
  hasKey,      \* the registry key is there
  foreign,     \* and holds something that is neither the product's nor val
  val,         \* the data of the value
  path,        \* the segments of PATH
  installed,   \* the installation row's version, or None
  keyRow,      \* the key's ownership row, by its created flag
  valRow,      \* the value's: the data written and what to put back
  entryRow,    \* the PATH entry's: added, or found and not claimed
  txnState,    \* the newest transaction's state
  purpose,     \* and what it is for
  version,     \* and whose package opened it
  kind,        \* the planned operation on each resource
  opState,     \* the state of its row
  valOp,       \* the value operation's data and restore columns
  undo,        \* the undo records, None before they are taken
  pc,          \* where the running process is
  unit,        \* the commit group, or rollback unit, being walked
  todo,        \* its members not walked yet
  theirs,      \* history: what others last made of the value
  ours,        \* history: whether the entry the engine appended is in PATH, or gone
  origin,      \* history: the machine the installation was planned on, None once edited
  before       \* history: the machine the transaction was planned on, None once edited

machine == <<hasKey, foreign, val, path>>
rows    == <<installed, keyRow, valRow, entryRow>>
journal == <<txnState, purpose, version, kind, opState, valOp, undo>>
process == <<pc, unit, todo>>
history == <<theirs, ours, origin, before>>
vars    == <<product, machine, rows, journal, process, history>>

Resources == {"key", "value", "entry"}
NoOp      == [data |-> Absent, restore |-> None]
ValueOps  == [data : Data \cup {Absent}, restore : Data \cup {Absent, None}]
Rows      == {NoOp} \cup [data : Data, restore : Data \cup {Absent}]
NoUndo    == [r \in Resources |-> None]
NoPlan    == [r \in Resources |-> "none"]

TypeOK ==
  /\ product \in Products
  /\ hasKey \in BOOLEAN /\ foreign \in BOOLEAN
  /\ val \in Data \cup {Absent}
  /\ path \in Paths
  /\ installed \in Versions \cup {None}
  /\ keyRow \in {"none", "created", "found"}
  /\ valRow \in Rows
  /\ entryRow \in {"none", "added", "found"}
  /\ txnState \in {"none", "running", "committed", "rolling_back",
                   "rolled_back", "rollback_failed"}
  /\ purpose \in {"install", "repair", "uninstall"}
  /\ version \in Versions \cup {None}
  /\ kind \in [Resources -> {"none", "keep", "put", "take"}]
  /\ opState \in [Resources -> {"planned", "applying", "applied",
                                "rolling_back", "rolled_back", "rollback_failed"}]
  /\ valOp \in ValueOps
  /\ undo["key"] \in BOOLEAN \cup {None}
  /\ undo["value"] \in Data \cup {Absent, None}
  /\ undo["entry"] \in BOOLEAN \cup {None}
  /\ pc \in {"down", "planned", "walk", "mutate", "rollback", "reverse", "undo"}
  /\ unit \subseteq Resources /\ todo \subseteq unit
  /\ theirs \in Data \cup {Absent}
  /\ ours \in {"none", "there", "gone"}

\* The product has a value, and a PATH entry, in some version.
HasValue == \E v \in Versions : Wants[product][v] # Absent
HasEntry == WantsEntry[product] # {}

InitialPaths == {Absent, <<>>, <<"other">>, <<"other", "blank">>, <<"alike", "other">>}

Init ==
  /\ product \in Products
  /\ val \in IF HasValue THEN Data \cup {Absent} ELSE {Absent}
  /\ hasKey \in IF val # Absent THEN {TRUE} ELSE {FALSE, HasValue}
  /\ foreign = FALSE
  /\ path \in IF HasEntry THEN InitialPaths ELSE {Absent}
  /\ installed = None /\ keyRow = "none" /\ valRow = NoOp /\ entryRow = "none"
  /\ txnState = "none" /\ purpose = "install" /\ version = None
  /\ kind = NoPlan /\ opState = [r \in Resources |-> "planned"]
  /\ valOp = NoOp /\ undo = NoUndo
  /\ pc = "down" /\ unit = {} /\ todo = {}
  /\ theirs = val /\ ours = "none" /\ origin = None /\ before = None

Open     == txnState \in {"running", "rolling_back", "rollback_failed"}
Owned    == valRow # NoOp
Snapshot == <<hasKey, foreign, val, path>>

----------------------------------------------------------------------------
(* PATH (resource/path.rs). *)

Ours(s)    == s \in {"mine", "alike"}
Text(p)    == IF p = Absent THEN <<>> ELSE p
Present(p) == \E i \in DOMAIN Text(p) : Ours(Text(p)[i])

\* A trailing empty segment stays trailing.
Appended(p) ==
  LET t == Text(p)
  IN  IF t # <<>> /\ Last(t) = "blank" THEN Front(t) \o <<"mine", "blank">>
      ELSE Append(t, "mine")

\* One segment goes: the exact text first, else an equivalent. A lone empty
\* segment is the empty text.
Without(t) ==
  LET s == IF \E i \in DOMAIN t : t[i] = "mine" THEN RemoveFirst(t, "mine")
           ELSE RemoveFirst(t, "alike")
  IN  IF s = <<"blank">> THEN <<>> ELSE s

EntryAdded(p) == IF Present(p) THEN p ELSE Appended(p)

EntryRemoved(p, deleteWhenEmpty) ==
  IF ~Present(p) THEN p
  ELSE IF Without(p) = <<>> /\ deleteWhenEmpty THEN Absent
  ELSE Without(p)

----------------------------------------------------------------------------
(* The plan (plan.rs): the desired state against the rows and the machine. *)

\* An owned key still there is kept, one somebody deleted is created again; a
\* key nobody owns that is there is neither created nor owned.
KeyPlan(wanted) ==
  IF wanted # Absent
  THEN IF ~hasKey THEN "put" ELSE IF keyRow # "none" THEN "keep" ELSE "none"
  ELSE IF keyRow = "created" THEN "take" ELSE "none"

\* A value somebody changed is overwritten by a repair alone.
Overwrites(repairs) == val \in {Absent, valRow.data} \/ repairs

ValuePlan(wanted, repairs) ==
  IF wanted = Absent
  THEN IF Owned /\ val = valRow.data THEN "take" ELSE "none"
  ELSE IF val = wanted \/ (Owned /\ ~Overwrites(repairs)) THEN "keep"
  ELSE "put"

\* Mutant: the value put over is the one to restore, whoever wrote it.
RestoresCurrent(wanted, repairs) ==
  IF val = wanted THEN wanted ELSE None

\* What to put back one day: carried from the row, the value itself where it
\* was found as wanted, and otherwise what the undo record will say.
RestoreColumn(wanted, repairs) ==
  IF Owned THEN valRow.restore ELSE IF val = wanted THEN wanted ELSE None

ValueColumns(wanted, repairs) ==
  IF ValuePlan(wanted, repairs) = "none" THEN NoOp
  ELSE [data    |-> IF wanted = Absent \/ (val # wanted /\ ValuePlan(wanted, repairs) = "keep")
                    THEN valRow.data ELSE wanted,
        restore |-> RestoreColumn(wanted, repairs)]

\* Mutant: an entry somebody has is added all the same.
EntryPlanBlind(wanted) ==
  IF wanted THEN IF entryRow = "found" THEN "keep" ELSE "put"
  ELSE IF entryRow = "added" /\ Present(path) THEN "take" ELSE "none"

\* An equivalent already there is kept, and is the product's only if its row
\* says the product added it.
EntryPlan(wanted) ==
  IF wanted THEN IF entryRow = "found" \/ Present(path) THEN "keep" ELSE "put"
  ELSE IF entryRow = "added" /\ Present(path) THEN "take" ELSE "none"

Plan(why, v) ==
  /\ pc = "down" /\ ~Open
  /\ why # "install" => installed # None
  /\ LET wanted == IF why = "uninstall" THEN Absent ELSE Wants[product][v]
         entry  == why # "uninstall" /\ v \in WantsEntry[product]
     IN  /\ kind' = [key   |-> KeyPlan(wanted),
                     value |-> ValuePlan(wanted, why = "repair"),
                     entry |-> EntryPlan(entry)]
         /\ valOp' = ValueColumns(wanted, why = "repair")
  /\ purpose' = why /\ version' = v
  /\ pc' = "planned"
  /\ before' = Snapshot
  /\ origin' = IF installed = None THEN Snapshot ELSE origin
  /\ UNCHANGED <<product, machine, rows, txnState, opState, undo, unit, todo,
                 theirs, ours>>

\* One commit opens the transaction with every operation row.
Begin ==
  /\ pc = "planned"
  /\ txnState' = "running"
  /\ opState' = [r \in Resources |-> IF kind[r] = "keep" THEN "applied" ELSE "planned"]
  /\ pc' = "walk"
  /\ UNCHANGED <<product, machine, rows, purpose, version, kind, valOp, undo, unit,
                 todo, history>>

----------------------------------------------------------------------------
(* The forward walk (txn/executor.rs). *)

\* What is put goes in the order key, value, entry, and before what is taken,
\* which goes in the reverse order.
Position(r) ==
  LET n == CASE r = "key" -> 1 [] r = "value" -> 2 [] r = "entry" -> 3
  IN  IF kind[r] = "put" THEN n ELSE 7 - n

FirstOf(r, S) == r \in S /\ \A q \in S \ {r} : Position(r) < Position(q)

Operations == {r \in Resources : kind[r] \in {"put", "take"}}
Pending    == {r \in Operations : opState[r] \in {"planned", "applying"}}

\* Every resource kind is a journal batch of its own.
NextGroup ==
  {r \in Pending :
     Cardinality({q \in Pending : Position(q) <= Position(r)}) <= GroupBatches}

Marked(S, state) == [r \in Resources |-> IF r \in S THEN state ELSE opState[r]]

\* What prepare records of a resource: whether the key or PATH is there, and
\* the value's data.
Found(r) ==
  CASE r = "key" -> hasKey [] r = "value" -> val [] r = "entry" -> path # Absent

\* Mutant: a repeated walk takes the undo records anew.
Fresh(group) == group

\* An operation found applying keeps the record it has.
Unprepared(group) == {r \in group : opState[r] = "planned"}

StartGroup ==
  /\ pc = "walk" /\ Pending # {}
  /\ opState' = Marked(NextGroup, "applying")
  /\ undo' = [r \in Resources |-> IF r \in Unprepared(NextGroup) THEN Found(r) ELSE undo[r]]
  /\ unit' = NextGroup /\ todo' = NextGroup
  /\ pc' = "mutate"
  /\ UNCHANGED <<product, machine, rows, txnState, purpose, version, kind, valOp, history>>

Mutating(r, operation) == pc = "mutate" /\ FirstOf(r, todo) /\ kind[r] = operation

Walked(r) ==
  /\ todo' = todo \ {r}
  /\ UNCHANGED <<product, rows, journal, pc, unit, theirs, origin, before>>

CreateRegistryKey ==
  /\ Mutating("key", "put")
  /\ hasKey' = TRUE
  /\ UNCHANGED <<foreign, val, path, ours>> /\ Walked("key")

\* The key goes only when it holds nothing.
Emptied == hasKey /\ (foreign \/ val # Absent)

RemoveRegistryKey ==
  /\ Mutating("key", "take")
  /\ hasKey' = Emptied
  /\ UNCHANGED <<foreign, val, path, ours>> /\ Walked("key")

\* The write does not look at what is there; into a missing key it fails.
SetRegistryValue ==
  /\ Mutating("value", "put") /\ hasKey
  /\ val' = valOp.data
  /\ UNCHANGED <<hasKey, foreign, path, ours>> /\ Walked("value")

\* What was there before is put back while the value is what was written.
Taken == IF val = valOp.data THEN valOp.restore ELSE val

RemoveRegistryValue ==
  /\ Mutating("value", "take")
  /\ val' = Taken
  /\ UNCHANGED <<hasKey, foreign, path, ours>> /\ Walked("value")

AddPathEntry ==
  /\ Mutating("entry", "put")
  /\ path' = EntryAdded(path)
  /\ ours' = IF Present(path) THEN ours ELSE "there"
  /\ UNCHANGED <<hasKey, foreign, val>> /\ Walked("entry")

\* The entry the engine appended is no longer in PATH.
Gone == IF ours = "there" THEN "gone" ELSE ours

RemovePathEntry ==
  /\ Mutating("entry", "take")
  /\ path' = EntryRemoved(path, TRUE)
  /\ ours' = Gone
  /\ UNCHANGED <<hasKey, foreign, val>> /\ Walked("entry")

FinishGroup ==
  /\ pc = "mutate" /\ todo = {}
  /\ opState' = Marked(unit, "applied")
  /\ unit' = {} /\ pc' = "walk"
  /\ UNCHANGED <<product, machine, rows, txnState, purpose, version, kind, valOp, undo,
                 todo, history>>

\* The pre-installation state a row records.
PreInstallation == IF valOp.restore = None THEN undo["value"] ELSE valOp.restore

KeyRecorded ==
  CASE kind["key"] = "keep" -> keyRow
    [] kind["key"] = "put"  -> IF undo["key"] THEN "found" ELSE "created"
    [] OTHER -> "none"

ValueRecorded ==
  IF kind["value"] \in {"put", "keep"}
  THEN [data |-> valOp.data, restore |-> PreInstallation] ELSE NoOp

EntryRecorded ==
  CASE kind["entry"] = "put"  -> "added"
    [] kind["entry"] = "keep" -> IF entryRow = "added" THEN "added" ELSE "found"
    [] OTHER -> "none"

\* What is forgotten of a transaction that is over.
Closed ==
  /\ kind' = NoPlan /\ opState' = [r \in Resources |-> "planned"]
  /\ valOp' = NoOp /\ undo' = NoUndo
  /\ purpose' = "install" /\ version' = None

\* The ownership rows are rewritten from the operations in the commit that
\* closes the transaction; what is neither put nor kept loses its row.
Commit ==
  /\ pc = "walk" /\ Pending = {}
  /\ txnState' = "committed"
  /\ installed' = IF purpose = "uninstall" THEN None ELSE version
  /\ keyRow' = KeyRecorded /\ valRow' = ValueRecorded /\ entryRow' = EntryRecorded
  /\ Closed
  /\ pc' = "down"
  \* A repair was asked to rewrite the value.
  /\ theirs' = IF purpose = "repair" /\ theirs \notin {val, valRow'.restore} THEN Absent ELSE theirs
  /\ ours' = IF entryRow' = "added" THEN ours ELSE "none"
  /\ before' = None
  /\ UNCHANGED <<product, machine, unit, todo, origin>>

\* A mutation or a journal write fails, or the user cancels.
FailForward ==
  /\ pc \in {"walk", "mutate"}
  /\ unit' = {} /\ todo' = {} /\ pc' = "rollback"
  /\ UNCHANGED <<product, machine, rows, journal, history>>

----------------------------------------------------------------------------
(* The reverse walk (txn/rollback.rs). *)

BeginRollback ==
  /\ pc = "rollback"
  /\ txnState' = "rolling_back" /\ pc' = "reverse"
  /\ UNCHANGED <<product, machine, rows, purpose, version, kind, opState, valOp, undo,
                 unit, todo, history>>

Undoable      == {r \in Operations : opState[r] \notin {"planned", "rolled_back"}}
LastOf(r, S)  == r \in S /\ \A q \in S \ {r} : Position(q) < Position(r)

StartUnit(r) ==
  /\ pc = "reverse" /\ LastOf(r, Undoable)
  /\ opState' = Marked({r}, "rolling_back")
  /\ unit' = {r} /\ todo' = {r} /\ pc' = "undo"
  /\ UNCHANGED <<product, machine, rows, txnState, purpose, version, kind, valOp, undo,
                 history>>

Undoing(r) == pc = "undo" /\ r \in todo

\* Undoing a creation deletes the key if it is empty; undoing a removal puts
\* it back if it is gone.
UndoKey ==
  /\ Undoing("key")
  /\ hasKey' = CASE kind["key"] = "put" /\ undo["key"] = FALSE -> Emptied
                 [] kind["key"] = "take" /\ undo["key"] -> TRUE
                 [] OTHER -> hasKey
  /\ UNCHANGED <<foreign, val, path, ours>> /\ Walked("key")

\* What the operation itself may have left in the value.
Written == IF kind["value"] = "put" THEN valOp.data ELSE valOp.restore

\* Mutant: the previous data comes back over anything.
RestoredBlind == undo["value"]

\* The previous data comes back over what the operation wrote and over
\* nothing; what somebody else wrote since stays.
Restored == IF val \in {Absent, Written} THEN undo["value"] ELSE val

UndoValue ==
  /\ Undoing("value") /\ (Restored # Absent => hasKey)
  /\ val' = Restored
  /\ UNCHANGED <<hasKey, foreign, path, ours>> /\ Walked("value")

UndoEntry ==
  /\ Undoing("entry")
  /\ path' = IF kind["entry"] = "put" THEN EntryRemoved(path, ~undo["entry"])
             ELSE IF undo["entry"] THEN EntryAdded(path) ELSE path
  /\ ours' = IF kind["entry"] = "put" THEN Gone
             ELSE IF undo["entry"] /\ ~Present(path) THEN "there" ELSE ours
  /\ UNCHANGED <<hasKey, foreign, val>> /\ Walked("entry")

FinishUnit ==
  /\ pc = "undo" /\ todo = {}
  /\ opState' = Marked(unit, "rolled_back")
  /\ unit' = {} /\ pc' = "reverse"
  /\ UNCHANGED <<product, machine, rows, txnState, purpose, version, kind, valOp, undo,
                 todo, history>>

\* An undo fails, as a write into a key that is gone does.
UndoError(r) ==
  /\ Undoing(r)
  /\ opState' = Marked({r}, "rollback_failed")
  /\ txnState' = "rollback_failed"
  /\ unit' = {} /\ todo' = {} /\ pc' = "down"
  /\ UNCHANGED <<product, machine, rows, purpose, version, kind, valOp, undo, history>>

FinishRollback ==
  /\ pc = "reverse" /\ Undoable = {}
  /\ txnState' = "rolled_back"
  /\ Closed
  /\ pc' = "down"
  /\ ours' = IF entryRow = "added" THEN ours ELSE "none"
  /\ UNCHANGED <<product, machine, rows, unit, todo, theirs, origin, before>>

----------------------------------------------------------------------------
(* Crashes, recovery, and everybody else. *)

\* The process dies, or the run is declined before its transaction.
Crash ==
  /\ pc # "down"
  /\ pc' = "down" /\ unit' = {} /\ todo' = {}
  /\ IF pc = "planned" THEN Closed
     ELSE UNCHANGED <<purpose, version, kind, opState, valOp, undo>>
  /\ UNCHANGED <<product, machine, rows, txnState, history>>

\* The next run finds the transaction open: the same package resumes it, any
\* other rolls it back, and none resumes a rollback.
Recover ==
  /\ pc = "down" /\ Open
  /\ pc' \in {"rollback"} \cup (IF txnState = "running" THEN {"walk"} ELSE {})
  /\ UNCHANGED <<product, machine, rows, journal, unit, todo, history>>

\* The mutation of r is decided and not yet known to be done.
Exposed(r) ==
  /\ kind[r] = "put"
  /\ \/ pc = "planned"
     \/ txnState = "running" /\ opState[r] \in {"planned", "applying"}

\* What an open removal puts back itself, written by somebody else: its undo
\* cannot tell the two apart.
Echoes(data) == Open /\ kind["value"] = "take" /\ data = valOp.restore

Edited ==
  /\ origin' = None /\ before' = None
  /\ UNCHANGED <<product, rows, journal, process>>

SetByOther(data) ==
  /\ HasValue /\ (LateEdits \/ ~(Exposed("value") \/ Echoes(data)))
  /\ hasKey' = TRUE /\ val' = data /\ theirs' = data
  /\ UNCHANGED <<foreign, path, ours>> /\ Edited

DeletedByOther ==
  /\ val # Absent
  /\ val' = Absent /\ theirs' = Absent
  /\ UNCHANGED <<hasKey, foreign, path, ours>> /\ Edited

KeyDeletedByOther ==
  /\ hasKey
  /\ hasKey' = FALSE /\ foreign' = FALSE /\ val' = Absent /\ theirs' = Absent
  /\ UNCHANGED <<path, ours>> /\ Edited

\* Something else is put into the key, or taken out of it.
KeySharedByOther ==
  /\ HasValue
  /\ hasKey' = TRUE /\ foreign' = ~foreign
  /\ UNCHANGED <<val, path, theirs, ours>> /\ Edited

Holds(p, s) == \E i \in DOMAIN Text(p) : Text(p)[i] = s

\* An append that was decided and never made is about to be undone.
Unmade ==
  /\ Open /\ kind["entry"] = "put" /\ ours = "none"
  /\ opState["entry"] \notin {"planned", "rolled_back"}

EntryAddedByOther(s) ==
  /\ HasEntry /\ (LateEdits \/ ~(Exposed("entry") \/ Unmade))
  /\ ~Holds(path, s)
  /\ path' = Append(Text(path), s)
  /\ UNCHANGED <<hasKey, foreign, val, theirs, ours>> /\ Edited

EntryRemovedByOther(s) ==
  /\ Holds(path, s)
  /\ path' = RemoveFirst(path, s)
  /\ ours' = IF s = "mine" THEN Gone ELSE ours
  /\ UNCHANGED <<hasKey, foreign, val, theirs>> /\ Edited

Others ==
  \/ \E data \in UserData : SetByOther(data)
  \/ DeletedByOther \/ KeyDeletedByOther \/ KeySharedByOther
  \/ \E s \in {"mine", "alike", "other"} : EntryAddedByOther(s)
  \/ \E s \in {"mine", "alike"} : EntryRemovedByOther(s)

----------------------------------------------------------------------------

Forward ==
  \/ StartGroup \/ CreateRegistryKey \/ RemoveRegistryKey \/ SetRegistryValue
  \/ RemoveRegistryValue \/ AddPathEntry \/ RemovePathEntry \/ FinishGroup \/ Commit

Backward ==
  \/ BeginRollback \/ UndoKey \/ UndoValue \/ UndoEntry \/ FinishUnit \/ FinishRollback
  \/ \E r \in Resources : StartUnit(r)

Fault == Crash \/ FailForward \/ \E r \in Resources : UndoError(r)

Next ==
  \/ \E why \in {"install", "repair"}, v \in Versions : Plan(why, v)
  \/ Plan("uninstall", installed)
  \/ Begin \/ Recover \/ Forward \/ Backward \/ Fault \/ Others

Spec == Init /\ [][Next]_vars

----------------------------------------------------------------------------
(* Properties. *)

\* Data others gave the value is never lost: it is in the value, or the
\* ownership row will put it back, or the undo record of the open transaction
\* holds it; across upgrades, options turned off, crashes and rollbacks, only
\* a repair gives it up (TigerSetup-Design.md 519-526, journal.rs 960-966).
\* And a key that holds anything stays: neither the removal of a key the product
\* created nor the undo of its creation takes what others put into it along
\* (win/registry.rs 541-560).
DataKept ==
  /\ theirs # Absent =>
       \/ val = theirs
       \/ valRow.restore = theirs
       \/ Open /\ undo["value"] = theirs
  /\ foreign \/ val # Absent => hasKey

\* A machine nobody else changed since is, once the product is gone again by
\* whatever upgrades, crashes and rollbacks, what it was before: the key, the
\* value's data and the segments of PATH in their order (journal.rs 960-966,
\* path.rs 5-12). An empty PATH and none are not told apart: removal deletes
\* an emptied one.
LeftAsFound ==
  (installed = None /\ ~Open /\ origin # None) =>
    /\ <<hasKey, foreign, val>> = <<origin[1], origin[2], origin[3]>>
    /\ Text(path) = Text(origin[4])

\* The segments of PATH that are not the entry's, by their places, are the
\* same in p and in q and in the same order.
Strangers(p) == {i \in DOMAIN Text(p) : ~Ours(Text(p)[i])}

SameStrangers(p, q) ==
  \E f \in [Strangers(p) -> Strangers(q)] :
    /\ \A i \in Strangers(p) : Text(q)[f[i]] = Text(p)[i]
    /\ \A i, j \in Strangers(p) : i < j => f[i] < f[j]
    /\ \A j \in Strangers(q) : \E i \in Strangers(p) : f[i] = j

\* A rolled back transaction leaves a machine nobody else changed meanwhile
\* as it found it. Only the entry's place in PATH may differ, and its spelling:
\* it comes back as the last (rollback.rs 129-132).
RollbackRestores ==
  (txnState = "rolled_back" /\ before # None) =>
    /\ <<hasKey, foreign, val>> = <<before[1], before[2], before[3]>>
    /\ SameStrangers(path, before[4])
    /\ Present(path) = Present(before[4])

\* The engine takes no PATH entry somebody else put there, in whatever
\* spelling, while its own is there, and none at all where it never appended
\* one or gave up its claim; however often the append or the removal was
\* crashed out of, repeated, rolled back or left to a later package (path.rs 5,
\* plan.rs 816-829, 859-871). Only once its own is gone, by somebody else's hand
\* or by a removal that a crash made it repeat, does an equivalent go in its
\* place: removal falls back to a normalized match (path.rs 82-92).
TakesItsOwn ==
  [][\A s \in {"mine", "alike"} :
       todo' # todo /\ Holds(path, s) /\ ~Holds(path', s)
         => ours = "gone" \/ (ours = "there" /\ s = "mine")]_vars
=============================================================================
