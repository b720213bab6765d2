---------------------------- MODULE ActionStore ----------------------------
(***************************************************************************)
(* The action store of a product: the packaged programs that outlive the   *)
(* installer that brought them, kept under <state directory>\actions in    *)
(* one directory per content hash (txn/actions.rs). An installed version   *)
(* owns the programs of its uninstall actions and of its quiescence        *)
(* entries (state/installation.rs); a transaction writes the new version's *)
(* beside them, its rollback removes what it created, and the cleanup      *)
(* after either sweeps what nothing owns.                                  *)
(*                                                                         *)
(* An entry is one declaration that keeps programs: a stop and an optional *)
(* resume program, each packaged (a hash) or a command (Nothing). The         *)
(* store_action operations share one batch, hence one commit group and one *)
(* rollback unit.                                                          *)
(***************************************************************************)
EXTENDS FiniteSets

CONSTANTS
  Versions, Entries, Hashes, Nothing,
  Stop,        \* Stop[v][e], Resume[v][e]: the packaged programs of an entry
  Resume,
  ReadErrors   \* the sweep may fail to read what is owned

Exes == [version : Versions, role : {"setup", "uninstaller"}]

ASSUME ActionStoreAssumption ==
  /\ Stop \in [Versions -> [Entries -> Hashes \cup {Nothing}]]
  /\ Resume \in [Versions -> [Entries -> Hashes \cup {Nothing}]]
  /\ Nothing \notin Hashes \cup Versions \cup Entries \cup Exes
  /\ ReadErrors \in BOOLEAN

VARIABLES
  installed,   \* the version installed, or Nothing
  txnState, txnKind, txnExe,
  opState,     \* the store_action operation of each entry
  existed,     \* its undo record: every directory was there before
  store,       \* the programs in the store
  lost,        \* history: programs somebody else deleted
  pc, running, recovering,
  todo         \* the programs of the group or unit not dealt with yet

journal   == <<txnState, txnKind, txnExe, opState, existed>>
storeVars == <<installed, journal, store, lost, pc, running, recovering, todo>>

TypeOK ==
  /\ installed \in Versions \cup {Nothing}
  /\ txnState \in {"none", "running", "committed", "rolling_back", "rolled_back",
                   "rollback_failed"}
  /\ txnKind \in {"installs", "uninstall"}
  /\ txnExe \in Exes \cup {Nothing}
  /\ opState \in [Entries -> {"none", "planned", "applying", "applied", "rolling_back",
                              "rolled_back", "rollback_failed"}]
  /\ existed \in [Entries -> BOOLEAN]
  /\ store \subseteq Hashes /\ lost \subseteq Hashes
  /\ pc \in {"down", "recover", "plan", "walk", "mutate", "rollback", "reverse",
             "undo", "cleanup", "done"}
  /\ running \in Exes \cup {Nothing}
  /\ recovering \in BOOLEAN
  /\ todo \subseteq Entries \X Hashes

StoreInit ==
  /\ installed = Nothing
  /\ txnState = "none" /\ txnKind = "installs" /\ txnExe = Nothing
  /\ opState = [e \in Entries |-> "none"]
  /\ existed = [e \in Entries |-> FALSE]
  /\ store = {} /\ lost = {}
  /\ pc = "down" /\ running = Nothing /\ recovering = FALSE /\ todo = {}

----------------------------------------------------------------------------

Open == txnState \in {"running", "rolling_back", "rollback_failed"}

\* The packaged programs of an entry of version v.
ProgramsOf(v, e) == {Stop[v][e], Resume[v][e]} \ {Nothing}

\* What a version owns, and what the database says is owned.
OwnedBy(v) == UNION {ProgramsOf(v, e) : e \in Entries}
Owned      == IF installed = Nothing THEN {} ELSE OwnedBy(installed)

\* What the store operation of an entry keeps.
Programs(e) == ProgramsOf(txnExe.version, e)

Pairs(S) == {x \in S \X Hashes : x[2] \in Programs(x[1])}

Start(exe) ==
  /\ pc = "down"
  /\ pc' = "recover" /\ running' = exe
  /\ UNCHANGED <<installed, journal, store, lost, recovering, todo>>

GoesForward == txnState = "running" /\ running = txnExe

Recover ==
  /\ pc = "recover"
  /\ recovering' = Open
  /\ pc' = IF ~Open THEN "plan" ELSE IF GoesForward THEN "walk" ELSE "rollback"
  /\ UNCHANGED <<installed, journal, store, lost, running, todo>>

\* The quiescence of an installing run extracts its programs into the store
\* before the transaction opens.
ExtractEarly(h) ==
  /\ pc = "plan" /\ running.role = "setup"
  /\ h \in OwnedBy(running.version) \ store
  /\ store' = store \cup {h} /\ lost' = lost \ {h}
  /\ UNCHANGED <<installed, journal, pc, running, recovering, todo>>

LeaveBeforeTransaction ==
  /\ pc = "plan"
  /\ pc' = "done"
  /\ UNCHANGED <<installed, journal, store, lost, running, recovering, todo>>

\* Every installing transaction stores every entry of its package; an
\* uninstall stores nothing.
Begin(purpose) ==
  /\ pc = "plan"
  /\ IF purpose = "installs" THEN running.role = "setup" ELSE installed # Nothing
  /\ txnState' = "running" /\ txnKind' = purpose /\ txnExe' = running
  /\ opState' = [e \in Entries |-> IF purpose = "installs" THEN "planned" ELSE "none"]
  /\ existed' = [e \in Entries |-> FALSE]
  /\ pc' = "walk"
  /\ UNCHANGED <<installed, store, lost, running, recovering, todo>>

Pending == {e \in Entries : opState[e] \in {"planned", "applying"}}

\* Whether every directory of an entry was there is recorded before any is
\* written.
StartGroup ==
  /\ pc = "walk" /\ Pending # {}
  /\ opState' = [e \in Entries |-> IF e \in Pending THEN "applying" ELSE opState[e]]
  /\ existed' = [e \in Entries |-> IF opState[e] = "planned" THEN Programs(e) \subseteq store
                                   ELSE existed[e]]
  /\ todo' = Pairs(Pending) /\ pc' = "mutate"
  /\ UNCHANGED <<installed, txnState, txnKind, txnExe, store, lost, running, recovering>>

\* store_action: one program, staged and renamed into its directory, or found
\* there with the right hash.
StoreProgram(e, h) ==
  /\ pc = "mutate" /\ <<e, h>> \in todo
  /\ store' = store \cup {h} /\ lost' = lost \ {h}
  /\ todo' = todo \ {<<e, h>>}
  /\ UNCHANGED <<installed, journal, pc, running, recovering>>

FinishGroup ==
  /\ pc = "mutate" /\ todo = {}
  /\ opState' = [e \in Entries |-> IF opState[e] = "applying" THEN "applied" ELSE opState[e]]
  /\ pc' = "walk"
  /\ UNCHANGED <<installed, txnState, txnKind, txnExe, existed, store, lost, running,
                 recovering, todo>>

Commit ==
  /\ pc = "walk" /\ Pending = {}
  /\ txnState' = "committed"
  /\ installed' = IF txnKind = "uninstall" THEN Nothing ELSE txnExe.version
  /\ pc' = "cleanup"
  /\ UNCHANGED <<txnKind, txnExe, opState, existed, store, lost, running, recovering, todo>>

FailForward ==
  /\ pc \in {"walk", "mutate"}
  /\ todo' = {} /\ pc' = "rollback"
  /\ UNCHANGED <<installed, journal, store, lost, running, recovering>>

BeginRollback ==
  /\ pc = "rollback"
  /\ txnState' = "rolling_back" /\ pc' = "reverse"
  /\ UNCHANGED <<installed, txnKind, txnExe, opState, existed, store, lost, running,
                 recovering, todo>>

Undoable == {e \in Entries : opState[e] \notin {"none", "planned", "rolled_back"}}

StartUnit ==
  /\ pc = "reverse" /\ Undoable # {}
  /\ opState' = [e \in Entries |-> IF e \in Undoable THEN "rolling_back" ELSE opState[e]]
  /\ todo' = Pairs({e \in Undoable : ~existed[e]})
  /\ pc' = "undo"
  /\ UNCHANGED <<installed, txnState, txnKind, txnExe, existed, store, lost, running, recovering>>

\* Mutant: what the transaction stored goes, whoever owns it.
SparedNone == {}

\* A directory the committed installation still refers to belongs to it.
Spared == Owned

\* undo_action: a directory the transaction created is removed.
RemoveProgram(e, h) ==
  /\ pc = "undo" /\ <<e, h>> \in todo
  /\ store' = store \ ({h} \ Spared)
  /\ todo' = todo \ {<<e, h>>}
  /\ UNCHANGED <<installed, journal, lost, pc, running, recovering>>

\* Reading what is owned, or removing a directory, fails.
UndoError ==
  /\ pc = "undo" /\ todo # {}
  /\ \E x \in todo : opState' = [opState EXCEPT ![x[1]] = "rollback_failed"]
  /\ txnState' = "rollback_failed"
  /\ todo' = {} /\ recovering' = FALSE /\ pc' = "done"
  /\ UNCHANGED <<installed, txnKind, txnExe, existed, store, lost, running>>

FinishUnit ==
  /\ pc = "undo" /\ todo = {}
  /\ opState' = [e \in Entries |-> IF opState[e] = "rolling_back" THEN "rolled_back" ELSE opState[e]]
  /\ pc' = "reverse"
  /\ UNCHANGED <<installed, txnState, txnKind, txnExe, existed, store, lost, running,
                 recovering, todo>>

FinishRollback ==
  /\ pc = "reverse" /\ Undoable = {}
  /\ txnState' = "rolled_back" /\ pc' = "cleanup"
  /\ UNCHANGED <<installed, txnKind, txnExe, opState, existed, store, lost, running,
                 recovering, todo>>

\* sweep_action_store reads what is owned; an error of that read is taken for
\* nothing owned. What cannot be removed stays.
Cleanup ==
  /\ pc = "cleanup"
  /\ \E referenced \in {Owned} \cup (IF ReadErrors THEN {{}} ELSE {}) :
       \E stuck \in SUBSET (store \ referenced) :
         store' = (store \cap referenced) \cup stuck
  /\ pc' = IF recovering THEN "plan" ELSE "done"
  /\ recovering' = FALSE
  /\ UNCHANGED <<installed, journal, lost, running, todo>>

\* The process ends; one whose uninstall committed removes the state
\* directory if it can, the store and the database with it.
End ==
  /\ pc = "done"
  /\ pc' = "down" /\ running' = Nothing
  /\ \/ /\ txnState = "committed" /\ txnKind = "uninstall"
        /\ store' = {} /\ txnState' = "none"
     \/ UNCHANGED <<store, txnState>>
  /\ UNCHANGED <<installed, txnKind, txnExe, opState, existed, lost, recovering, todo>>

Crash ==
  /\ pc # "down"
  /\ pc' = "down" /\ running' = Nothing /\ recovering' = FALSE /\ todo' = {}
  /\ UNCHANGED <<installed, journal, store, lost>>

\* Somebody else deletes a program of the store.
Lose(h) ==
  /\ h \in store
  /\ store' = store \ {h} /\ lost' = lost \cup {h}
  /\ UNCHANGED <<installed, journal, pc, running, recovering, todo>>

----------------------------------------------------------------------------

\* The steps of a transaction once it is open, of this run or another's.
TransactionStep ==
  \/ StartGroup \/ FinishGroup \/ Commit \/ FailForward
  \/ BeginRollback \/ StartUnit \/ UndoError \/ FinishUnit \/ FinishRollback
  \/ Cleanup
  \/ \E e \in Entries, h \in Hashes : StoreProgram(e, h) \/ RemoveProgram(e, h)

StoreNext ==
  \/ \E exe \in Exes : Start(exe)
  \/ Recover \/ LeaveBeforeTransaction
  \/ \E h \in Hashes : ExtractEarly(h) \/ Lose(h)
  \/ \E purpose \in {"installs", "uninstall"} : Begin(purpose)
  \/ TransactionStep
  \/ End \/ Crash

StoreSpec == StoreInit /\ [][StoreNext]_storeVars

----------------------------------------------------------------------------
(* Properties. *)

\* Every program the installed version owns is in the store, whatever
\* upgrades crashed, failed or were rolled back since it was committed: a
\* failed upgrade leaves the previous version's programs as they were, and
\* no sweep touches them (TigerSetup-Design.md 1164-1170, txn/actions.rs
\* 459-462).
OwnedIsStored == Owned \subseteq store \cup lost
=============================================================================
