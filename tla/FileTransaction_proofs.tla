----------------------- MODULE FileTransaction_proofs -----------------------
(***************************************************************************)
(* Proofs about FileTransaction for any number of files, any packages, any *)
(* batches and any group size. Without further assumptions: type           *)
(* correctness, the finality of a rollback and of a finished transaction,  *)
(* and what at most a run leaves behind. Where the staging area is on the  *)
(* install root's volume, nothing fails behind the SQL commit, and nobody  *)
(* edits files while a transaction is open: restorability, the truth of    *)
(* the ownership rows and the refinement of AtomicInstall. The model       *)
(* checker refutes these without.                                          *)
(***************************************************************************)
EXTENDS FileTransaction, TLAPS

----------------------------------------------------------------------------
(* The inductive invariant. *)

\* Where the process is says what it knows of the transaction.
ProcessOK ==
  /\ pc # "down" => running \in Exes
  /\ pc \in {"walk", "mutate"} => txnState = "running" /\ txnExe = running
  /\ pc \in {"reverse", "undo"} => txnState = "rolling_back"
  /\ pc \in {"plan", "cleanup"} => ~Open

\* The group or unit being walked, and what its finished members left.
WalkerOK ==
  /\ pc = "rollback" => Open
  /\ pc \notin {"mutate", "undo"} => Idle
  /\ todo \subseteq unit /\ again \subseteq unit /\ unit \subseteq Operations
  /\ step \in {"begin", "staged"}
  /\ todo = {} => step = "begin"
  /\ pc = "mutate" => /\ \A f \in unit : opState[f] = "applying"
                      /\ \A f \in unit \ todo : disk[f] = Wanted(f)
  /\ pc = "undo" => /\ again = {}
                    /\ \A f \in unit : opState[f] = "rolling_back"
                    /\ \A f \in unit \ todo : disk[f] = prev[f]
                    /\ step = "staged" => \A f \in todo : Last(f, todo) => backup[f] = prev[f]

\* What the rows of an open transaction say of the staging area and the disk.
RecordsOK ==
  Open =>
    /\ txnExe \in Exes
    /\ \A f \in Files :
         /\ kind[f] = "none" => opState[f] = "planned"
         /\ kind[f] = "keep" => opState[f] = "applied"
    /\ \A f \in Operations : opState[f] = "planned" => backup[f] = Absent
    /\ \A f \in Undoable :
         /\ prev[f] # None
         /\ prev[f] = Absent \/ disk[f] = prev[f] \/ backup[f] = prev[f]
         /\ backup[f] # Absent => backup[f] = prev[f]
    /\ txnState = "running" =>
         \A f \in Files : /\ opState[f] \in {"planned", "applying", "applied"}
                          /\ opState[f] = "applied" => disk[f] = Wanted(f)
                          /\ opState[f] = "applying" => disk[f] \in {prev[f], Wanted(f)}

\* The plan is still the one to commit: it was made from what a rollback
\* would restore.
PlanOK ==
  txnState = "running" =>
    /\ txnKind = "uninstall" => installed # None
    /\ \A f \in Files :
         /\ txnKind = "installs" => (kind[f] \in {"install", "keep"} <=> Tree[txnExe.version][f] # Absent)
         /\ txnKind = "uninstall" => kind[f] \notin {"install", "keep"}
         /\ kind[f] = "remove" => Before(f) = owned[f]
         /\ kind[f] = "none" => owned[f] = Absent \/ disk[f] # owned[f]

\* The ownership rows are true of the files as a rollback would leave them.
OwnedOK ==
  \A f \in Files \ edited : owned[f] # Absent => Before(f) = owned[f]

\* A staging area on the install root's volume, no error behind the SQL
\* commit, and no edit while a transaction is open.
Sheltered == SameVolume /\ ~LateError /\ ExposedFiles = {}

TInv == TypeOK /\ ProcessOK
IInv == TInv /\ WalkerOK /\ RecordsOK /\ PlanOK /\ OwnedOK
----------------------------------------------------------------------------
(* Type correctness. *)

\* A commit group is made of operations not applied yet.
LEMMA GroupIsPending == NextGroup \subseteq Pending /\ Pending \subseteq Operations
<1>1. NextGroup \subseteq Pending BY DEF NextGroup
<1>2. Pending \subseteq Operations BY DEF Pending
<1> QED BY <1>1, <1>2

\* A rollback unit is among the operations with something to undo.
LEMMA UnitIsUndoable == LastUnit \subseteq Undoable /\ Undoable \subseteq Operations
<1>1. LastUnit \subseteq Undoable BY DEF LastUnit
<1>2. Undoable \subseteq Operations BY DEF Undoable
<1> QED BY <1>1, <1>2

\* Only one member of a set is its last.
LEMMA LastIsUnique ==
  ASSUME NEW S \in SUBSET Files, NEW f, NEW g, Last(f, S), Last(g, S) PROVE f = g
<1>1. f \in Nat /\ g \in Nat BY FileTransactionAssumption DEF Last, Files
<1> QED BY <1>1 DEF Last, Precedes

\* The initial state has the right types.
LEMMA TInit == Init => TInv
BY FileTransactionAssumption
   DEF Init, TInv, TypeOK, ProcessOK, NoFiles, Idle, TxnStates, OpStates, Kinds, Stored

\* A removal that stops half-way keeps the types of what it leaves.
LEMMA RemovalTypes ==
  TInv => /\ RemoveStaging => backup' \in [Files -> Stored]
          /\ RemoveStale => stale' \in BOOLEAN
BY DEF TInv, TypeOK, RemoveStaging, RemoveStale, Stored

\* Every step keeps the types, and what the process knows of the transaction.
LEMMA TNext == TInv /\ [Next]_vars => TInv'
<1> SUFFICES ASSUME TInv, [Next]_vars PROVE TInv' OBVIOUS
<1> USE FileTransactionAssumption, GroupIsPending, UnitIsUndoable, RemovalTypes
        DEF TInv, TypeOK, ProcessOK, Open, Operations, Pending, Undoable, Stored, TxnStates,
            OpStates, Kinds, Exes, journal, registry, walker, process, aside, vars
<1>1. ASSUME NEW exe \in Exes, Start(exe) PROVE TInv' BY <1>1 DEF Start
<1>2. CASE NothingToRecover BY <1>2 DEF NothingToRecover
<1>3. CASE Recover
  <2>1. backup' \in [Files -> Stored] BY <1>3 DEF Recover, SweepOrphans
  <2>2. temp' \subseteq temp BY <1>3 DEF Recover, SweepOrphans, SweepTemporaries
  <2> QED BY <1>3, <2>1, <2>2 DEF Recover, GoesForward, SamePackage
<1>4. CASE LeaveBeforeTransaction BY <1>4 DEF LeaveBeforeTransaction, RemoveStateDirectory
<1>5. CASE BeginInstall
  BY <1>5 DEF BeginInstall, Begin, InstallKind, RemovalKind, NoFiles, Kinds
<1>6. CASE BeginUninstall BY <1>6 DEF BeginUninstall, Begin, RemovalKind, NoFiles, Kinds
<1>7. CASE Cleanup
  <2>1. temp' \subseteq temp BY <1>7 DEF Cleanup, SweepTemporaries
  <2>2. /\ backup' \in [Files -> Stored] /\ stale' \in BOOLEAN /\ txnState' \in {txnState, "none"}
    BY <1>7 DEF Cleanup, RemoveStateDirectory
  <2> QED BY <1>7, <2>1, <2>2 DEF Cleanup
<1>8. CASE StartGroup BY <1>8 DEF StartGroup, Marked
<1>9. CASE FinishGroup BY <1>9 DEF FinishGroup, Marked
<1>10. CASE Commit BY <1>10 DEF Commit, Wanted
<1>11. ASSUME NEW f \in Files, AlreadyInstalled(f) PROVE TInv'
  BY <1>11 DEF AlreadyInstalled, MemberDone, Mutating
<1>12. ASSUME NEW f \in Files, StageFile(f) PROVE TInv' BY <1>12 DEF StageFile, Mutating
<1>13. ASSUME NEW f \in Files, ReplaceFile(f) PROVE TInv'
  BY <1>13 DEF ReplaceFile, Payload, MemberDone, Mutating, NeedsBackup
<1>14. ASSUME NEW f \in Files, LeaveTarget(f) PROVE TInv'
  BY <1>14 DEF LeaveTarget, MemberDone, Mutating
<1>15. ASSUME NEW f \in Files, RemoveFile(f) PROVE TInv'
  BY <1>15 DEF RemoveFile, MemberDone, Mutating, NeedsBackup
<1>16. ASSUME NEW f \in Files, StartCopy(f) PROVE TInv'
  BY <1>16 DEF StartCopy, Mutating, NeedsBackup
<1>17. ASSUME NEW f \in Files, FinishCopy(f) PROVE TInv' BY <1>17 DEF FinishCopy
<1>18. CASE BeginRollback BY <1>18 DEF BeginRollback, SweepTemporaries
<1>19. CASE StartUnit BY <1>19 DEF StartUnit, Marked
<1>20. CASE FinishUnit BY <1>20 DEF FinishUnit, Marked
<1>21. CASE FinishRollback BY <1>21 DEF FinishRollback
<1>22. ASSUME NEW f \in Files, UndoCreate(f) PROVE TInv'
  BY <1>22 DEF UndoCreate, Undoing, MemberDone
<1>23. ASSUME NEW f \in Files, UndoNothing(f) PROVE TInv'
  BY <1>23 DEF UndoNothing, Undoing, MemberDone
<1>24. ASSUME NEW f \in Files, MoveBack(f) PROVE TInv'
  BY <1>24 DEF MoveBack, Restoring, Undoing, MemberDone
<1>25. ASSUME NEW f \in Files, StageBack(f) PROVE TInv'
  BY <1>25 DEF StageBack, Restoring, Undoing
<1>26. ASSUME NEW f \in Files, CopyBack(f) PROVE TInv'
  BY <1>26 DEF CopyBack, Undoing, MemberDone
<1>27. ASSUME NEW f \in Files, BackupMissing(f) PROVE TInv'
  BY <1>27 DEF BackupMissing, StopRollback, Undoing, DropTemporary
<1>28. CASE Crash BY <1>28 DEF Crash
<1>29. CASE FailForward BY <1>29 DEF FailForward, DropTemporary
<1>30. ASSUME NEW f \in Files, UndoError(f) PROVE TInv'
  <2>1. StopRollback(f) /\ temp' \subseteq temp
    BY <1>30 DEF UndoError, StopRollback, DropTemporary
  <2> QED BY <2>1 DEF StopRollback
<1>31. ASSUME NEW f \in Files, NEW bytes \in UserBytes \cup {Absent}, UserEdit(f, bytes) PROVE TInv'
  BY <1>31 DEF UserEdit
<1>32. CASE UNCHANGED vars BY <1>32
<1> QED
  BY <1>1, <1>2, <1>3, <1>4, <1>5, <1>6, <1>7, <1>8, <1>9, <1>10, <1>11, <1>12, <1>13, <1>14, <1>15, <1>16, <1>17, <1>18, <1>19, <1>20, <1>21, <1>22, <1>23, <1>24, <1>25, <1>26, <1>27, <1>28, <1>29, <1>30, <1>31, <1>32
     DEF Next, EngineStep, RunStep, WalkStep, RollbackStep, Fault, Edit

\* Every variable keeps its type, whatever fails and whatever a rerun meets.
THEOREM TypeCorrect == Spec => []TypeOK
<1>1. Init => TInv BY TInit
<1>2. TInv /\ [Next]_vars => TInv' BY TNext
<1>3. TInv => TypeOK BY DEF TInv
<1> QED BY <1>1, <1>2, <1>3, PTL DEF Spec

----------------------------------------------------------------------------
(* What a run finds when it gets to its own work. *)

\* A temporary nobody holds open is beside the target of the member being
\* mutated or undone, or is one a crash or a failure left under an open
\* transaction, whose recovery or rollback sweeps it.
Tidy ==
  /\ stale => Locked # {}
  /\ pc = "plan" => MayRemain(Staged)
  /\ temp \ Locked # {} => Open /\ pc \in {"down", "recover", "mutate", "undo", "rollback"}
  /\ pc = "mutate" =>
       temp \ Locked \subseteq {f \in Files : First(f, todo) /\ kind[f] = "install" /\ step # "begin"}
  /\ pc = "undo" =>
       temp \ Locked \subseteq {f \in Files : Last(f, todo) /\ prev[f] # Absent /\ step # "begin"}

\* Only one member of a set is its first.
LEMMA FirstIsUnique ==
  ASSUME NEW S \in SUBSET Files, NEW f, NEW g, First(f, S), First(g, S) PROVE f = g
<1>1. f \in Nat /\ g \in Nat BY FileTransactionAssumption DEF First, Files
<1> QED BY <1>1 DEF First, Precedes

\* While a member is mutated or undone, the only temporary that nobody holds
\* open is its own.
LEMMA OneTemporary ==
  ASSUME TInv, Tidy, NEW f \in Files
  PROVE  /\ pc = "mutate" /\ First(f, todo) => temp \ Locked \subseteq {f}
         /\ pc = "mutate" /\ First(f, todo) /\ (step = "begin" \/ kind[f] = "remove") => temp \subseteq Locked
         /\ pc = "undo" /\ Last(f, todo) => temp \ Locked \subseteq {f}
         /\ pc = "undo" /\ Last(f, todo) /\ (step = "begin" \/ prev[f] = Absent) => temp \subseteq Locked
<1>1. todo \in SUBSET Files BY DEF TInv, TypeOK
<1>2. \A g \in Files : First(f, todo) /\ First(g, todo) => f = g BY <1>1, FirstIsUnique
<1>3. \A g \in Files : Last(f, todo) /\ Last(g, todo) => f = g BY <1>1, LastIsUnique
<1> QED BY <1>2, <1>3 DEF Tidy

\* A staging area that is not removed whole has a file somebody holds open.
LEMMA StagingRemains == RemoveStaging => MayRemain(Staged)'
<1> SUFFICES ASSUME RemoveStaging PROVE MayRemain(Staged)' OBVIOUS
<1>1. PICK left \in Remains(Staged) :
        backup' = [f \in Files |-> IF f \in left THEN backup[f] ELSE Absent]
  BY DEF RemoveStaging
<1>2. left \subseteq Staged /\ MayRemain(left) BY <1>1 DEF Remains
<1>3. Staged' = left BY <1>1, <1>2 DEF Staged
<1> QED BY <1>2, <1>3 DEF MayRemain

\* Every step leaves the process tidy, whatever fails or is edited.
LEMMA TidyNext == TInv /\ Tidy /\ [Next]_vars => Tidy'
<1> SUFFICES ASSUME TInv, Tidy, [Next]_vars PROVE Tidy' OBVIOUS
<1> USE DEF Tidy, Open, journal, registry, walker, process, aside, vars
\* Where the process is not at a member, there need not be a temporary.
<1>a. ASSUME temp' \subseteq Locked, pc' # "plan", stale' => stale PROVE Tidy' BY <1>a
<1>b. ASSUME temp \subseteq Locked, temp' = temp, pc' = pc, pc \in {"mutate", "undo"}, stale' = stale PROVE Tidy'
  BY <1>b
<1>c. ASSUME RemoveStaging PROVE MayRemain(Staged)' BY <1>c, StagingRemains
<1>1. ASSUME NEW exe \in Exes, Start(exe) PROVE Tidy' BY <1>1 DEF Start
<1>2. CASE NothingToRecover BY <1>2, <1>c DEF NothingToRecover, RemoveStale
<1>3. CASE Recover BY <1>3, <1>a DEF Recover, SweepOrphans, RemoveStale, SweepTemporaries
<1>4. CASE LeaveBeforeTransaction
  <2>1. temp \subseteq Locked /\ temp' = temp /\ pc' = "down"
    BY <1>4 DEF LeaveBeforeTransaction, TInv, ProcessOK
  <2>2. stale' => stale
    BY <1>4 DEF LeaveBeforeTransaction, RemoveStateDirectory, RemoveStale
  <2> QED BY <2>1, <2>2, <1>a
<1>5. ASSUME NEW purpose, NEW plan, pc = "plan", Begin(purpose, plan) PROVE Tidy'
  <2>1. stale' => Locked # {} BY <1>5 DEF Begin, MayRemain
  <2>2. temp' \subseteq Locked /\ pc' = "walk" BY <1>5 DEF Begin, TInv, ProcessOK
  <2> QED BY <2>1, <2>2
<1>6. CASE BeginInstall \/ BeginUninstall BY <1>5, <1>6 DEF BeginInstall, BeginUninstall
<1>7. CASE Cleanup
  BY <1>7, <1>c DEF Cleanup, SweepTemporaries, RemoveStateDirectory, RemoveStale
<1>8. CASE StartGroup BY <1>8, <1>a DEF StartGroup
<1>9. CASE FinishGroup
  <2>1. temp \subseteq Locked BY <1>9 DEF FinishGroup, First
  <2> QED BY <1>9, <2>1, <1>a DEF FinishGroup
<1>10. CASE Commit BY <1>10, <1>a DEF Commit
<1>11. ASSUME NEW f \in Files, AlreadyInstalled(f) \/ LeaveTarget(f) PROVE Tidy'
  BY <1>11, <1>b, OneTemporary DEF AlreadyInstalled, LeaveTarget, MemberDone, Mutating
<1>12. ASSUME NEW f \in Files, StageFile(f) PROVE Tidy'
  <2>1. /\ pc = "mutate" /\ First(f, todo) /\ kind[f] = "install" /\ step' = "staged"
        /\ temp' = temp \cup {f} /\ temp \ Locked \subseteq {f} /\ pc' = "mutate" /\ stale' = stale
        /\ kind' = kind /\ txnExe' = txnExe /\ todo' = todo /\ txnState' = txnState
    BY <1>12, OneTemporary DEF StageFile, Mutating
  <2>2. First(f, todo)' BY <2>1 DEF First, Precedes, Knows
  <2>3. Open BY <2>1 DEF TInv, ProcessOK
  <2> QED BY <2>1, <2>2, <2>3
<1>13. ASSUME NEW f \in Files, ReplaceFile(f) PROVE Tidy'
  BY <1>13, <1>a, OneTemporary DEF ReplaceFile, MemberDone, Mutating
<1>14. ASSUME NEW f \in Files, RemoveFile(f) PROVE Tidy'
  BY <1>14, <1>b, OneTemporary DEF RemoveFile, MemberDone, Mutating
<1>15. ASSUME NEW f \in Files, StartCopy(f) \/ FinishCopy(f) PROVE Tidy'
  <2>1. /\ pc' = pc /\ temp' = temp /\ stale' = stale /\ step' # "begin" /\ pc = "mutate"
        /\ kind' = kind /\ txnExe' = txnExe /\ todo' = todo /\ txnState' = txnState
    BY <1>15 DEF StartCopy, FinishCopy, Mutating
  <2>2. \A g \in Files : First(g, todo) => First(g, todo)'
    BY <2>1 DEF First, Precedes, Knows
  <2> QED BY <2>1, <2>2
<1>16. CASE BeginRollback BY <1>16, <1>a DEF BeginRollback, SweepTemporaries
<1>17. CASE StartUnit BY <1>17, <1>a DEF StartUnit
<1>18. CASE FinishUnit
  <2>1. temp \subseteq Locked BY <1>18 DEF FinishUnit, Last
  <2> QED BY <1>18, <2>1, <1>a DEF FinishUnit
<1>19. CASE FinishRollback BY <1>19, <1>a DEF FinishRollback
<1>20. ASSUME NEW f \in Files, UndoCreate(f) \/ UndoNothing(f) \/ MoveBack(f) PROVE Tidy'
  BY <1>20, <1>b, OneTemporary DEF UndoCreate, UndoNothing, MoveBack, Restoring, Undoing, MemberDone
<1>21. ASSUME NEW f \in Files, StageBack(f) PROVE Tidy'
  <2>1. /\ pc = "undo" /\ Last(f, todo) /\ prev[f] # Absent /\ step' = "staged"
        /\ temp' = temp \cup {f} /\ temp \ Locked \subseteq {f} /\ pc' = "undo" /\ stale' = stale
        /\ prev' = prev /\ txnExe' = txnExe /\ todo' = todo /\ txnState' = txnState
    BY <1>21, OneTemporary DEF StageBack, Restoring, Undoing
  <2>2. Last(f, todo)' BY <2>1 DEF Last, Precedes, Knows
  <2>3. Open BY <2>1 DEF TInv, ProcessOK
  <2> QED BY <2>1, <2>2, <2>3
<1>22. ASSUME NEW f \in Files, CopyBack(f) PROVE Tidy'
  BY <1>22, <1>a, OneTemporary DEF CopyBack, Undoing, MemberDone
<1>23. ASSUME NEW f \in Files, BackupMissing(f) \/ UndoError(f) PROVE Tidy'
  <2>1. Undoing(f) /\ StopRollback(f) BY <1>23 DEF BackupMissing, UndoError
  <2>2. temp' \subseteq temp /\ pc' = "down" /\ stale' = stale /\ Open'
    BY <2>1 DEF StopRollback, DropTemporary
  <2> QED BY <2>2
<1>24. CASE Crash BY <1>24 DEF Crash, TInv, ProcessOK
<1>25. CASE FailForward
  <2>1. temp' \subseteq temp /\ pc' = "rollback" /\ stale' = stale
    BY <1>25 DEF FailForward, DropTemporary
  <2>2. Open' BY <1>25 DEF FailForward, TInv, ProcessOK
  <2> QED BY <2>1, <2>2
<1>26. ASSUME NEW f \in Files, NEW bytes \in UserBytes \cup {Absent}, UserEdit(f, bytes) PROVE Tidy'
  <2>1. \A g \in Files : (First(g, todo) => First(g, todo)') /\ (Last(g, todo) => Last(g, todo)')
    BY <1>26 DEF UserEdit, First, Last, Precedes, Knows
  <2> QED BY <1>26, <2>1 DEF UserEdit, Staged
<1>27. CASE UNCHANGED vars
  <2>1. \A g \in Files : (First(g, todo) => First(g, todo)') /\ (Last(g, todo) => Last(g, todo)')
    BY <1>27 DEF First, Last, Precedes, Knows
  <2> QED BY <1>27, <2>1 DEF Staged
<1> QED
  BY <1>1, <1>2, <1>3, <1>4, <1>5, <1>6, <1>7, <1>8, <1>9, <1>10, <1>11, <1>12, <1>13, <1>14, <1>15,
     <1>16, <1>17, <1>18, <1>19, <1>20, <1>21, <1>22, <1>23, <1>24, <1>25, <1>26, <1>27
     DEF Next, EngineStep, RunStep, WalkStep, RollbackStep, Fault, Edit

\* Whatever a crash, a failed step or a failed undo left beside the targets or
\* in a staging area, a run that gets to its own work finds none of it but
\* what another program held open when it was swept, on any volume and with
\* files edited at any time (recovery.rs 4-7, 186, 208).
THEOREM RunsStartSwept == Spec => []LeftoversAreHeld
<1>1. Init => TInv /\ Tidy BY TInit DEF Init, Tidy
<1>2. TInv /\ Tidy /\ [Next]_vars => (TInv /\ Tidy)' BY TNext, TidyNext
<1>3. Tidy => LeftoversAreHeld BY DEF Tidy, LeftoversAreHeld
<1> QED BY <1>1, <1>2, <1>3, PTL DEF Spec

----------------------------------------------------------------------------
(* The inductive invariant is kept, conjunct by conjunct. *)

\* The walker's group or unit, and what its finished members left on disk.
LEMMA WalkerNext == Sheltered /\ IInv /\ [Next]_vars => WalkerOK'
<1> SUFFICES ASSUME Sheltered, IInv, [Next]_vars PROVE WalkerOK' OBVIOUS
<1> USE FileTransactionAssumption, GroupIsPending, UnitIsUndoable
        DEF Sheltered, IInv, TInv, TypeOK, ProcessOK, Idle, WalkerOK, RecordsOK, Open, Operations, Pending, Undoable, Wanted, Stored, TxnStates, OpStates, Kinds, Exes, journal, registry, walker, process, aside, vars
<1>1. ASSUME NEW exe \in Exes, Start(exe) PROVE WalkerOK' BY <1>1 DEF Start
<1>2. CASE NothingToRecover
  BY <1>2 DEF NothingToRecover, NoFiles, RemoveStaging, RemoveStale
<1>3. CASE Recover
  BY <1>3 DEF Recover, SweepOrphans, GoesForward, SamePackage, RemoveStale, SweepTemporaries
<1>4. CASE LeaveBeforeTransaction
  BY <1>4 DEF LeaveBeforeTransaction, RemoveStateDirectory, RemoveStaging, RemoveStale
<1>5. CASE BeginInstall
  BY <1>5 DEF BeginInstall, Begin, InstallKind, RemovalKind, Payload, NoFiles, Kinds
<1>6. CASE BeginUninstall BY <1>6 DEF BeginUninstall, Begin, RemovalKind, NoFiles, Kinds
<1>7. CASE Cleanup
  BY <1>7 DEF Cleanup, NoFiles, SweepTemporaries, RemoveStateDirectory, RemoveStaging, RemoveStale
<1>8. CASE StartGroup BY <1>8 DEF StartGroup, Marked
<1>9. CASE FinishGroup BY <1>9 DEF FinishGroup, Marked
<1>10. CASE Commit BY <1>10 DEF Commit, Wanted
<1>11. ASSUME NEW f \in Files, AlreadyInstalled(f) PROVE WalkerOK'
  BY <1>11 DEF AlreadyInstalled, Payload, MemberDone, Mutating, First
<1>12. ASSUME NEW f \in Files, StageFile(f) PROVE WalkerOK'
  BY <1>12 DEF StageFile, Mutating, First
<1>13. ASSUME NEW f \in Files, ReplaceFile(f) PROVE WalkerOK'
  BY <1>13 DEF ReplaceFile, Payload, MemberDone, Mutating, NeedsBackup, First
<1>14. ASSUME NEW f \in Files, LeaveTarget(f) PROVE WalkerOK'
  BY <1>14 DEF LeaveTarget, MemberDone, Mutating, First
<1>15. ASSUME NEW f \in Files, RemoveFile(f) PROVE WalkerOK'
  BY <1>15 DEF RemoveFile, MemberDone, Mutating, NeedsBackup, First
<1>16. ASSUME NEW f \in Files, StartCopy(f) PROVE WalkerOK'
  BY <1>16 DEF StartCopy, Mutating, NeedsBackup
<1>17. ASSUME NEW f \in Files, FinishCopy(f) PROVE WalkerOK' BY <1>17 DEF FinishCopy
<1>18. CASE BeginRollback BY <1>18 DEF BeginRollback, SweepTemporaries
<1>19. CASE StartUnit BY <1>19 DEF StartUnit, Marked
<1>20. CASE FinishUnit BY <1>20 DEF FinishUnit, Marked
<1>21. CASE FinishRollback BY <1>21 DEF FinishRollback
<1>22. ASSUME NEW f \in Files, UndoCreate(f) PROVE WalkerOK'
  BY <1>22 DEF UndoCreate, Undoing, MemberDone, Last
<1>23. ASSUME NEW f \in Files, UndoNothing(f) PROVE WalkerOK'
  BY <1>23 DEF UndoNothing, Undoing, MemberDone, Last
<1>24. ASSUME NEW f \in Files, MoveBack(f) PROVE WalkerOK'
  BY <1>24 DEF MoveBack, Restoring, Undoing, MemberDone, Last
<1>25. ASSUME NEW f \in Files, StageBack(f) PROVE WalkerOK'
  <2>1. f \in todo /\ Last(f, todo) /\ backup[f] = prev[f]
    BY <1>25 DEF StageBack, Restoring, Undoing, Last
  <2>2. \A g \in todo : Last(g, todo) => g = f BY <2>1, LastIsUnique
  <2>3. \A g \in todo' : Last(g, todo)' <=> Last(g, todo)
    BY <1>25 DEF StageBack, Last, Precedes, Knows
  <2> QED BY <1>25, <2>1, <2>2, <2>3 DEF StageBack, Restoring, Undoing
<1>26. ASSUME NEW f \in Files, CopyBack(f) PROVE WalkerOK'
  BY <1>26 DEF CopyBack, Undoing, MemberDone, Last
<1>27. ASSUME NEW f \in Files, BackupMissing(f) PROVE WalkerOK'
  BY <1>27 DEF BackupMissing, StopRollback, Undoing, Last, DropTemporary
<1>28. CASE Crash BY <1>28 DEF Crash
<1>29. CASE FailForward BY <1>29 DEF FailForward, DropTemporary
<1>30. ASSUME NEW f \in Files, UndoError(f) PROVE WalkerOK'
  BY <1>30 DEF UndoError, StopRollback, Undoing, Last, DropTemporary
<1>31. ASSUME NEW f \in Files, NEW bytes \in UserBytes \cup {Absent}, UserEdit(f, bytes) PROVE WalkerOK'
  BY <1>31 DEF UserEdit
<1>32. CASE UNCHANGED vars BY <1>32 DEF Last, Precedes, Knows
<1> QED
  BY <1>1, <1>2, <1>3, <1>4, <1>5, <1>6, <1>7, <1>8, <1>9, <1>10, <1>11, <1>12, <1>13, <1>14, <1>15, <1>16, <1>17, <1>18, <1>19, <1>20, <1>21, <1>22, <1>23, <1>24, <1>25, <1>26, <1>27, <1>28, <1>29, <1>30, <1>31, <1>32
     DEF Next, EngineStep, RunStep, WalkStep, RollbackStep, Fault, Edit

\* The rows against the staging area and the disk: no step separates an undo
\* record from the content it names.
LEMMA RecordsNext == Sheltered /\ IInv /\ [Next]_vars => RecordsOK'
<1> SUFFICES ASSUME Sheltered, IInv, [Next]_vars PROVE RecordsOK' OBVIOUS
<1> USE FileTransactionAssumption, GroupIsPending, UnitIsUndoable
        DEF Sheltered, IInv, TInv, TypeOK, ProcessOK, Idle, WalkerOK, RecordsOK, Open, Operations, Pending, Undoable, Wanted, Stored, TxnStates, OpStates, Kinds, Exes, journal, registry, walker, process, aside, vars
<1>1. ASSUME NEW exe \in Exes, Start(exe) PROVE RecordsOK' BY <1>1 DEF Start
<1>2. CASE NothingToRecover
  BY <1>2 DEF NothingToRecover, NoFiles, RemoveStaging, RemoveStale
<1>3. CASE Recover
  BY <1>3 DEF Recover, SweepOrphans, GoesForward, SamePackage, RemoveStale, SweepTemporaries
<1>4. CASE LeaveBeforeTransaction
  BY <1>4 DEF LeaveBeforeTransaction, RemoveStateDirectory, RemoveStaging, RemoveStale
<1>5. CASE BeginInstall
  BY <1>5 DEF BeginInstall, Begin, InstallKind, RemovalKind, Payload, NoFiles, Kinds
<1>6. CASE BeginUninstall BY <1>6 DEF BeginUninstall, Begin, RemovalKind, NoFiles, Kinds
<1>7. CASE Cleanup
  BY <1>7 DEF Cleanup, NoFiles, SweepTemporaries, RemoveStateDirectory, RemoveStaging, RemoveStale
<1>8. CASE StartGroup BY <1>8 DEF StartGroup, Marked
<1>9. CASE FinishGroup BY <1>9 DEF FinishGroup, Marked
<1>10. CASE Commit BY <1>10 DEF Commit, Wanted
<1>11. ASSUME NEW f \in Files, AlreadyInstalled(f) PROVE RecordsOK'
  BY <1>11 DEF AlreadyInstalled, Payload, MemberDone, Mutating, First
<1>12. ASSUME NEW f \in Files, StageFile(f) PROVE RecordsOK'
  BY <1>12 DEF StageFile, Mutating, First
<1>13. ASSUME NEW f \in Files, ReplaceFile(f) PROVE RecordsOK'
  BY <1>13 DEF ReplaceFile, Payload, MemberDone, Mutating, NeedsBackup, First
<1>14. ASSUME NEW f \in Files, LeaveTarget(f) PROVE RecordsOK'
  BY <1>14 DEF LeaveTarget, MemberDone, Mutating, First
<1>15. ASSUME NEW f \in Files, RemoveFile(f) PROVE RecordsOK'
  BY <1>15 DEF RemoveFile, MemberDone, Mutating, NeedsBackup, First
<1>16. ASSUME NEW f \in Files, StartCopy(f) PROVE RecordsOK'
  BY <1>16 DEF StartCopy, Mutating, NeedsBackup
<1>17. ASSUME NEW f \in Files, FinishCopy(f) PROVE RecordsOK' BY <1>17 DEF FinishCopy
<1>18. CASE BeginRollback BY <1>18 DEF BeginRollback, SweepTemporaries
<1>19. CASE StartUnit BY <1>19 DEF StartUnit, Marked
<1>20. CASE FinishUnit BY <1>20 DEF FinishUnit, Marked
<1>21. CASE FinishRollback BY <1>21 DEF FinishRollback
<1>22. ASSUME NEW f \in Files, UndoCreate(f) PROVE RecordsOK'
  BY <1>22 DEF UndoCreate, Undoing, MemberDone, Last
<1>23. ASSUME NEW f \in Files, UndoNothing(f) PROVE RecordsOK'
  BY <1>23 DEF UndoNothing, Undoing, MemberDone, Last
<1>24. ASSUME NEW f \in Files, MoveBack(f) PROVE RecordsOK'
  BY <1>24 DEF MoveBack, Restoring, Undoing, MemberDone, Last
<1>25. ASSUME NEW f \in Files, StageBack(f) PROVE RecordsOK'
  BY <1>25 DEF StageBack, Restoring, Undoing, Last
<1>26. ASSUME NEW f \in Files, CopyBack(f) PROVE RecordsOK'
  BY <1>26 DEF CopyBack, Undoing, MemberDone, Last
<1>27. ASSUME NEW f \in Files, BackupMissing(f) PROVE RecordsOK'
  BY <1>27 DEF BackupMissing, StopRollback, Undoing, Last, DropTemporary
<1>28. CASE Crash BY <1>28 DEF Crash
<1>29. CASE FailForward BY <1>29 DEF FailForward, DropTemporary
<1>30. ASSUME NEW f \in Files, UndoError(f) PROVE RecordsOK'
  BY <1>30 DEF UndoError, StopRollback, Undoing, Last, DropTemporary
<1>31. ASSUME NEW f \in Files, NEW bytes \in UserBytes \cup {Absent}, UserEdit(f, bytes) PROVE RecordsOK'
  BY <1>31 DEF UserEdit
<1>32. CASE UNCHANGED vars BY <1>32
<1> QED
  BY <1>1, <1>2, <1>3, <1>4, <1>5, <1>6, <1>7, <1>8, <1>9, <1>10, <1>11, <1>12, <1>13, <1>14, <1>15, <1>16, <1>17, <1>18, <1>19, <1>20, <1>21, <1>22, <1>23, <1>24, <1>25, <1>26, <1>27, <1>28, <1>29, <1>30, <1>31, <1>32
     DEF Next, EngineStep, RunStep, WalkStep, RollbackStep, Fault, Edit

\* The plan stays the one to commit.
LEMMA PlanNext == Sheltered /\ IInv /\ [Next]_vars => PlanOK'
<1> SUFFICES ASSUME Sheltered, IInv, [Next]_vars PROVE PlanOK' OBVIOUS
<1> USE FileTransactionAssumption, GroupIsPending, UnitIsUndoable
        DEF Sheltered, IInv, TInv, TypeOK, ProcessOK, Idle, WalkerOK, RecordsOK, PlanOK, Before, Open, Operations, Pending, Undoable, Wanted, Stored, TxnStates, OpStates, Kinds, Exes, journal, registry, walker, process, aside, vars
<1>1. ASSUME NEW exe \in Exes, Start(exe) PROVE PlanOK' BY <1>1 DEF Start
<1>2. CASE NothingToRecover
  BY <1>2 DEF NothingToRecover, NoFiles, RemoveStaging, RemoveStale
<1>3. CASE Recover
  BY <1>3 DEF Recover, SweepOrphans, GoesForward, SamePackage, RemoveStale, SweepTemporaries
<1>4. CASE LeaveBeforeTransaction
  BY <1>4 DEF LeaveBeforeTransaction, RemoveStateDirectory, RemoveStaging, RemoveStale
<1>5. CASE BeginInstall
  BY <1>5 DEF BeginInstall, Begin, InstallKind, RemovalKind, Payload, NoFiles, Kinds
<1>6. CASE BeginUninstall BY <1>6 DEF BeginUninstall, Begin, RemovalKind, NoFiles, Kinds
<1>7. CASE Cleanup
  BY <1>7 DEF Cleanup, NoFiles, SweepTemporaries, RemoveStateDirectory, RemoveStaging, RemoveStale
<1>8. CASE StartGroup BY <1>8 DEF StartGroup, Marked
<1>9. CASE FinishGroup BY <1>9 DEF FinishGroup, Marked
<1>10. CASE Commit BY <1>10 DEF Commit, Wanted
<1>11. ASSUME NEW f \in Files, AlreadyInstalled(f) PROVE PlanOK'
  BY <1>11 DEF AlreadyInstalled, Payload, MemberDone, Mutating, First
<1>12. ASSUME NEW f \in Files, StageFile(f) PROVE PlanOK'
  BY <1>12 DEF StageFile, Mutating, First
<1>13. ASSUME NEW f \in Files, ReplaceFile(f) PROVE PlanOK'
  BY <1>13 DEF ReplaceFile, Payload, MemberDone, Mutating, NeedsBackup, First
<1>14. ASSUME NEW f \in Files, LeaveTarget(f) PROVE PlanOK'
  BY <1>14 DEF LeaveTarget, MemberDone, Mutating, First
<1>15. ASSUME NEW f \in Files, RemoveFile(f) PROVE PlanOK'
  BY <1>15 DEF RemoveFile, MemberDone, Mutating, NeedsBackup, First
<1>16. ASSUME NEW f \in Files, StartCopy(f) PROVE PlanOK'
  BY <1>16 DEF StartCopy, Mutating, NeedsBackup
<1>17. ASSUME NEW f \in Files, FinishCopy(f) PROVE PlanOK' BY <1>17 DEF FinishCopy
<1>18. CASE BeginRollback BY <1>18 DEF BeginRollback, SweepTemporaries
<1>19. CASE StartUnit BY <1>19 DEF StartUnit, Marked
<1>20. CASE FinishUnit BY <1>20 DEF FinishUnit, Marked
<1>21. CASE FinishRollback BY <1>21 DEF FinishRollback
<1>22. ASSUME NEW f \in Files, UndoCreate(f) PROVE PlanOK'
  BY <1>22 DEF UndoCreate, Undoing, MemberDone, Last
<1>23. ASSUME NEW f \in Files, UndoNothing(f) PROVE PlanOK'
  BY <1>23 DEF UndoNothing, Undoing, MemberDone, Last
<1>24. ASSUME NEW f \in Files, MoveBack(f) PROVE PlanOK'
  BY <1>24 DEF MoveBack, Restoring, Undoing, MemberDone, Last
<1>25. ASSUME NEW f \in Files, StageBack(f) PROVE PlanOK'
  BY <1>25 DEF StageBack, Restoring, Undoing, Last
<1>26. ASSUME NEW f \in Files, CopyBack(f) PROVE PlanOK'
  BY <1>26 DEF CopyBack, Undoing, MemberDone, Last
<1>27. ASSUME NEW f \in Files, BackupMissing(f) PROVE PlanOK'
  BY <1>27 DEF BackupMissing, StopRollback, Undoing, Last, DropTemporary
<1>28. CASE Crash BY <1>28 DEF Crash
<1>29. CASE FailForward BY <1>29 DEF FailForward, DropTemporary
<1>30. ASSUME NEW f \in Files, UndoError(f) PROVE PlanOK'
  BY <1>30 DEF UndoError, StopRollback, Undoing, Last, DropTemporary
<1>31. ASSUME NEW f \in Files, NEW bytes \in UserBytes \cup {Absent}, UserEdit(f, bytes) PROVE PlanOK'
  BY <1>31 DEF UserEdit
<1>32. CASE UNCHANGED vars BY <1>32
<1> QED
  BY <1>1, <1>2, <1>3, <1>4, <1>5, <1>6, <1>7, <1>8, <1>9, <1>10, <1>11, <1>12, <1>13, <1>14, <1>15, <1>16, <1>17, <1>18, <1>19, <1>20, <1>21, <1>22, <1>23, <1>24, <1>25, <1>26, <1>27, <1>28, <1>29, <1>30, <1>31, <1>32
     DEF Next, EngineStep, RunStep, WalkStep, RollbackStep, Fault, Edit

\* The ownership rows stay true of what a rollback would leave.
LEMMA OwnedNext == Sheltered /\ IInv /\ [Next]_vars => OwnedOK'
<1> SUFFICES ASSUME Sheltered, IInv, [Next]_vars PROVE OwnedOK' OBVIOUS
<1> USE FileTransactionAssumption, GroupIsPending, UnitIsUndoable
        DEF Sheltered, IInv, TInv, TypeOK, ProcessOK, Idle, WalkerOK, RecordsOK, OwnedOK, Before, Open, Operations, Pending, Undoable, Wanted, Stored, TxnStates, OpStates, Kinds, Exes, journal, registry, walker, process, aside, vars
<1>1. ASSUME NEW exe \in Exes, Start(exe) PROVE OwnedOK' BY <1>1 DEF Start
<1>2. CASE NothingToRecover
  BY <1>2 DEF NothingToRecover, NoFiles, RemoveStaging, RemoveStale
<1>3. CASE Recover
  BY <1>3 DEF Recover, SweepOrphans, GoesForward, SamePackage, RemoveStale, SweepTemporaries
<1>4. CASE LeaveBeforeTransaction
  BY <1>4 DEF LeaveBeforeTransaction, RemoveStateDirectory, RemoveStaging, RemoveStale
<1>5. CASE BeginInstall
  BY <1>5 DEF BeginInstall, Begin, InstallKind, RemovalKind, Payload, NoFiles, Kinds
<1>6. CASE BeginUninstall BY <1>6 DEF BeginUninstall, Begin, RemovalKind, NoFiles, Kinds
<1>7. CASE Cleanup
  BY <1>7 DEF Cleanup, NoFiles, SweepTemporaries, RemoveStateDirectory, RemoveStaging, RemoveStale
<1>8. CASE StartGroup BY <1>8 DEF StartGroup, Marked
<1>9. CASE FinishGroup BY <1>9 DEF FinishGroup, Marked
<1>10. CASE Commit BY <1>10 DEF Commit, Wanted
<1>11. ASSUME NEW f \in Files, AlreadyInstalled(f) PROVE OwnedOK'
  BY <1>11 DEF AlreadyInstalled, Payload, MemberDone, Mutating, First
<1>12. ASSUME NEW f \in Files, StageFile(f) PROVE OwnedOK'
  BY <1>12 DEF StageFile, Mutating, First
<1>13. ASSUME NEW f \in Files, ReplaceFile(f) PROVE OwnedOK'
  BY <1>13 DEF ReplaceFile, Payload, MemberDone, Mutating, NeedsBackup, First
<1>14. ASSUME NEW f \in Files, LeaveTarget(f) PROVE OwnedOK'
  BY <1>14 DEF LeaveTarget, MemberDone, Mutating, First
<1>15. ASSUME NEW f \in Files, RemoveFile(f) PROVE OwnedOK'
  BY <1>15 DEF RemoveFile, MemberDone, Mutating, NeedsBackup, First
<1>16. ASSUME NEW f \in Files, StartCopy(f) PROVE OwnedOK'
  BY <1>16 DEF StartCopy, Mutating, NeedsBackup
<1>17. ASSUME NEW f \in Files, FinishCopy(f) PROVE OwnedOK' BY <1>17 DEF FinishCopy
<1>18. CASE BeginRollback BY <1>18 DEF BeginRollback, SweepTemporaries
<1>19. CASE StartUnit BY <1>19 DEF StartUnit, Marked
<1>20. CASE FinishUnit BY <1>20 DEF FinishUnit, Marked
<1>21. CASE FinishRollback BY <1>21 DEF FinishRollback
<1>22. ASSUME NEW f \in Files, UndoCreate(f) PROVE OwnedOK'
  BY <1>22 DEF UndoCreate, Undoing, MemberDone, Last
<1>23. ASSUME NEW f \in Files, UndoNothing(f) PROVE OwnedOK'
  BY <1>23 DEF UndoNothing, Undoing, MemberDone, Last
<1>24. ASSUME NEW f \in Files, MoveBack(f) PROVE OwnedOK'
  BY <1>24 DEF MoveBack, Restoring, Undoing, MemberDone, Last
<1>25. ASSUME NEW f \in Files, StageBack(f) PROVE OwnedOK'
  BY <1>25 DEF StageBack, Restoring, Undoing, Last
<1>26. ASSUME NEW f \in Files, CopyBack(f) PROVE OwnedOK'
  BY <1>26 DEF CopyBack, Undoing, MemberDone, Last
<1>27. ASSUME NEW f \in Files, BackupMissing(f) PROVE OwnedOK'
  BY <1>27 DEF BackupMissing, StopRollback, Undoing, Last, DropTemporary
<1>28. CASE Crash BY <1>28 DEF Crash
<1>29. CASE FailForward BY <1>29 DEF FailForward, DropTemporary
<1>30. ASSUME NEW f \in Files, UndoError(f) PROVE OwnedOK'
  BY <1>30 DEF UndoError, StopRollback, Undoing, Last, DropTemporary
<1>31. ASSUME NEW f \in Files, NEW bytes \in UserBytes \cup {Absent}, UserEdit(f, bytes) PROVE OwnedOK'
  BY <1>31 DEF UserEdit
<1>32. CASE UNCHANGED vars BY <1>32
<1> QED
  BY <1>1, <1>2, <1>3, <1>4, <1>5, <1>6, <1>7, <1>8, <1>9, <1>10, <1>11, <1>12, <1>13, <1>14, <1>15, <1>16, <1>17, <1>18, <1>19, <1>20, <1>21, <1>22, <1>23, <1>24, <1>25, <1>26, <1>27, <1>28, <1>29, <1>30, <1>31, <1>32
     DEF Next, EngineStep, RunStep, WalkStep, RollbackStep, Fault, Edit

\* The initial state satisfies the inductive invariant.
LEMMA SInit == Init => IInv
BY TInit
   DEF IInv, WalkerOK, RecordsOK, PlanOK, OwnedOK, Init, Idle, Open, NoFiles, Operations,
       Undoable, Before

\* Under the assumptions of Sheltered the invariant is inductive.
LEMMA Inductive == Sheltered => (Spec => []IInv)
<1> SUFFICES ASSUME Sheltered PROVE Spec => []IInv OBVIOUS
<1>1. Init => IInv BY SInit
<1>2. IInv /\ [Next]_vars => IInv'
  BY TNext, WalkerNext, RecordsNext, PlanNext, OwnedNext DEF IInv
<1> QED BY <1>1, <1>2, PTL DEF Spec

\* Whatever crashes, retries and half-done restores precede, the previous
\* content of every operation that may have touched its target is in place
\* or in its backup.
THEOREM Restorability == Sheltered => (Spec => []Restorable)
<1> SUFFICES ASSUME Sheltered PROVE Spec => []Restorable OBVIOUS
<1>1. IInv => Restorable BY DEF IInv, RecordsOK, Restorable
<1> QED BY <1>1, Inductive, PTL

\* What the journal calls applied is on disk.
THEOREM AppliedDurability == Sheltered => (Spec => []AppliedIsOnDisk)
<1> SUFFICES ASSUME Sheltered PROVE Spec => []AppliedIsOnDisk OBVIOUS
<1>1. IInv => AppliedIsOnDisk BY DEF IInv, RecordsOK, AppliedIsOnDisk, Open
<1> QED BY <1>1, Inductive, PTL

\* Without an open transaction the ownership rows are true of every file
\* nobody changed.
THEOREM OwnershipTruth == Sheltered => (Spec => []OwnedIsOnDisk)
<1> SUFFICES ASSUME Sheltered PROVE Spec => []OwnedIsOnDisk OBVIOUS
<1>1. IInv => OwnedIsOnDisk BY DEF IInv, OwnedOK, OwnedIsOnDisk, Before
<1> QED BY <1>1, Inductive, PTL

----------------------------------------------------------------------------
(* What a step may never do. *)

\* No step resumes or commits a transaction that has begun to roll back.
LEMMA RollbackStepFinal ==
  ASSUME TInv, Next, txnState \in {"rolling_back", "rollback_failed"}
  PROVE  txnState' \in {"rolling_back", "rollback_failed", "rolled_back"}
<1> DEFINE Final == txnState' \in {"rolling_back", "rollback_failed", "rolled_back"}
<1> USE DEF TInv, ProcessOK, Open, journal
<1>1. ASSUME NEW exe \in Exes, Start(exe) PROVE Final BY <1>1 DEF Start
<1>2. CASE NothingToRecover BY <1>2 DEF NothingToRecover, RemoveStaging, RemoveStale
<1>3. CASE Recover BY <1>3 DEF Recover, RemoveStale, SweepTemporaries
<1>4. CASE LeaveBeforeTransaction
  BY <1>4 DEF LeaveBeforeTransaction, RemoveStateDirectory, RemoveStaging, RemoveStale
<1>5. CASE BeginInstall BY <1>5 DEF BeginInstall, Begin
<1>6. CASE BeginUninstall BY <1>6 DEF BeginUninstall, Begin
<1>7. CASE Cleanup
  BY <1>7 DEF Cleanup, SweepTemporaries, RemoveStateDirectory, RemoveStaging, RemoveStale
<1>8. CASE StartGroup BY <1>8 DEF StartGroup
<1>9. CASE FinishGroup BY <1>9 DEF FinishGroup
<1>10. CASE Commit BY <1>10 DEF Commit
<1>11. ASSUME NEW f \in Files, AlreadyInstalled(f) PROVE Final
  BY <1>11 DEF AlreadyInstalled, MemberDone
<1>12. ASSUME NEW f \in Files, StageFile(f) PROVE Final BY <1>12 DEF StageFile
<1>13. ASSUME NEW f \in Files, ReplaceFile(f) PROVE Final
  BY <1>13 DEF ReplaceFile, MemberDone
<1>14. ASSUME NEW f \in Files, LeaveTarget(f) PROVE Final
  BY <1>14 DEF LeaveTarget, MemberDone
<1>15. ASSUME NEW f \in Files, RemoveFile(f) PROVE Final BY <1>15 DEF RemoveFile, MemberDone
<1>16. ASSUME NEW f \in Files, StartCopy(f) PROVE Final BY <1>16 DEF StartCopy
<1>17. ASSUME NEW f \in Files, FinishCopy(f) PROVE Final BY <1>17 DEF FinishCopy
<1>18. CASE BeginRollback BY <1>18 DEF BeginRollback, SweepTemporaries
<1>19. CASE StartUnit BY <1>19 DEF StartUnit
<1>20. CASE FinishUnit BY <1>20 DEF FinishUnit
<1>21. CASE FinishRollback BY <1>21 DEF FinishRollback
<1>22. ASSUME NEW f \in Files, UndoCreate(f) PROVE Final BY <1>22 DEF UndoCreate, MemberDone
<1>23. ASSUME NEW f \in Files, UndoNothing(f) PROVE Final
  BY <1>23 DEF UndoNothing, MemberDone
<1>24. ASSUME NEW f \in Files, MoveBack(f) PROVE Final BY <1>24 DEF MoveBack, MemberDone
<1>25. ASSUME NEW f \in Files, StageBack(f) PROVE Final BY <1>25 DEF StageBack
<1>26. ASSUME NEW f \in Files, CopyBack(f) PROVE Final BY <1>26 DEF CopyBack, MemberDone
<1>27. ASSUME NEW f \in Files, BackupMissing(f) PROVE Final
  BY <1>27 DEF BackupMissing, StopRollback, DropTemporary
<1>28. CASE Crash BY <1>28 DEF Crash
<1>29. CASE FailForward BY <1>29 DEF FailForward, DropTemporary
<1>30. ASSUME NEW f \in Files, UndoError(f) PROVE Final
  BY <1>30 DEF UndoError, StopRollback, DropTemporary
<1>31. ASSUME NEW f \in Files, NEW bytes \in UserBytes \cup {Absent}, UserEdit(f, bytes) PROVE Final
  BY <1>31 DEF UserEdit
<1> QED
  BY <1>1, <1>2, <1>3, <1>4, <1>5, <1>6, <1>7, <1>8, <1>9, <1>10, <1>11, <1>12, <1>13, <1>14, <1>15, <1>16, <1>17, <1>18, <1>19, <1>20, <1>21, <1>22, <1>23, <1>24, <1>25, <1>26, <1>27, <1>28, <1>29, <1>30, <1>31
     DEF Next, EngineStep, RunStep, WalkStep, RollbackStep, Fault, Edit

\* A transaction that has begun to roll back is never resumed or committed.
THEOREM RollbackFinality == Spec => RollbackIsFinal
<1>1. TInv /\ [Next]_vars =>
        [(txnState \in {"rolling_back", "rollback_failed"}) =>
           (txnState' \in {"rolling_back", "rollback_failed", "rolled_back"})]_vars
  BY RollbackStepFinal
<1>2. Spec => []TInv
  <2>1. Init => TInv BY TInit
  <2>2. TInv /\ [Next]_vars => TInv' BY TNext
  <2> QED BY <2>1, <2>2, PTL DEF Spec
<1> QED BY <1>1, <1>2, PTL DEF Spec, RollbackIsFinal

\* A transaction to be rolled back is not rolled back already, and is a
\* committed one only where a statement behind the SQL commit can fail.
RollbackOK ==
  pc = "rollback" => txnState # "rolled_back" /\ (txnState = "committed" => LateError)

\* Every step keeps that.
LEMMA RollbackNext == TInv /\ RollbackOK /\ [Next]_vars => RollbackOK'
<1> SUFFICES ASSUME TInv, RollbackOK, [Next]_vars PROVE RollbackOK' OBVIOUS
<1> DEFINE Final == RollbackOK'
<1> USE DEF TInv, ProcessOK, RollbackOK, Open, journal, registry, walker, process, aside, vars
<1>1. ASSUME NEW exe \in Exes, Start(exe) PROVE Final BY <1>1 DEF Start
<1>2. CASE NothingToRecover BY <1>2 DEF NothingToRecover, RemoveStaging, RemoveStale
<1>3. CASE Recover BY <1>3 DEF Recover, RemoveStale, SweepTemporaries
<1>4. CASE LeaveBeforeTransaction
  BY <1>4 DEF LeaveBeforeTransaction, RemoveStateDirectory, RemoveStaging, RemoveStale
<1>5. CASE BeginInstall BY <1>5 DEF BeginInstall, Begin
<1>6. CASE BeginUninstall BY <1>6 DEF BeginUninstall, Begin
<1>7. CASE Cleanup
  BY <1>7 DEF Cleanup, SweepTemporaries, RemoveStateDirectory, RemoveStaging, RemoveStale
<1>8. CASE StartGroup BY <1>8 DEF StartGroup
<1>9. CASE FinishGroup BY <1>9 DEF FinishGroup
<1>10. CASE Commit BY <1>10 DEF Commit
<1>11. ASSUME NEW f \in Files, AlreadyInstalled(f) PROVE Final
  BY <1>11 DEF AlreadyInstalled, MemberDone
<1>12. ASSUME NEW f \in Files, StageFile(f) PROVE Final BY <1>12 DEF StageFile
<1>13. ASSUME NEW f \in Files, ReplaceFile(f) PROVE Final
  BY <1>13 DEF ReplaceFile, MemberDone
<1>14. ASSUME NEW f \in Files, LeaveTarget(f) PROVE Final
  BY <1>14 DEF LeaveTarget, MemberDone
<1>15. ASSUME NEW f \in Files, RemoveFile(f) PROVE Final BY <1>15 DEF RemoveFile, MemberDone
<1>16. ASSUME NEW f \in Files, StartCopy(f) PROVE Final BY <1>16 DEF StartCopy
<1>17. ASSUME NEW f \in Files, FinishCopy(f) PROVE Final BY <1>17 DEF FinishCopy
<1>18. CASE BeginRollback BY <1>18 DEF BeginRollback, SweepTemporaries
<1>19. CASE StartUnit BY <1>19 DEF StartUnit
<1>20. CASE FinishUnit BY <1>20 DEF FinishUnit
<1>21. CASE FinishRollback BY <1>21 DEF FinishRollback
<1>22. ASSUME NEW f \in Files, UndoCreate(f) PROVE Final BY <1>22 DEF UndoCreate, MemberDone
<1>23. ASSUME NEW f \in Files, UndoNothing(f) PROVE Final
  BY <1>23 DEF UndoNothing, MemberDone
<1>24. ASSUME NEW f \in Files, MoveBack(f) PROVE Final BY <1>24 DEF MoveBack, MemberDone
<1>25. ASSUME NEW f \in Files, StageBack(f) PROVE Final BY <1>25 DEF StageBack
<1>26. ASSUME NEW f \in Files, CopyBack(f) PROVE Final BY <1>26 DEF CopyBack, MemberDone
<1>27. ASSUME NEW f \in Files, BackupMissing(f) PROVE Final
  BY <1>27 DEF BackupMissing, Undoing, StopRollback, DropTemporary
<1>28. CASE Crash BY <1>28 DEF Crash
<1>29. CASE FailForward BY <1>29 DEF FailForward, DropTemporary
<1>30. ASSUME NEW f \in Files, UndoError(f) PROVE Final
  BY <1>30 DEF UndoError, Undoing, StopRollback, DropTemporary
<1>31. ASSUME NEW f \in Files, NEW bytes \in UserBytes \cup {Absent}, UserEdit(f, bytes) PROVE Final
  BY <1>31 DEF UserEdit
<1>32. CASE UNCHANGED vars BY <1>32
<1> QED
  BY <1>1, <1>2, <1>3, <1>4, <1>5, <1>6, <1>7, <1>8, <1>9, <1>10, <1>11, <1>12, <1>13, <1>14, <1>15, <1>16, <1>17, <1>18, <1>19, <1>20, <1>21, <1>22, <1>23, <1>24, <1>25, <1>26, <1>27, <1>28, <1>29, <1>30, <1>31, <1>32
     DEF Next, EngineStep, RunStep, WalkStep, RollbackStep, Fault, Edit

\* No step walks a finished transaction, but the rollback of a late error.
LEMMA TerminalStepFinal ==
  ASSUME TInv, RollbackOK, Next
  PROVE  /\ txnState = "rolled_back" => txnState' \in {"rolled_back", "running", "none"}
         /\ txnState = "committed" =>
              txnState' \in {"committed", "running", "none"} \/ (LateError /\ pc = "rollback")
<1> DEFINE Final ==
      /\ txnState = "rolled_back" => txnState' \in {"rolled_back", "running", "none"}
      /\ txnState = "committed" =>
           txnState' \in {"committed", "running", "none"} \/ (LateError /\ pc = "rollback")
<1> USE DEF TInv, ProcessOK, RollbackOK, Open, journal
<1>1. ASSUME NEW exe \in Exes, Start(exe) PROVE Final BY <1>1 DEF Start
<1>2. CASE NothingToRecover BY <1>2 DEF NothingToRecover, RemoveStaging, RemoveStale
<1>3. CASE Recover BY <1>3 DEF Recover, RemoveStale, SweepTemporaries
<1>4. CASE LeaveBeforeTransaction
  BY <1>4 DEF LeaveBeforeTransaction, RemoveStateDirectory, RemoveStaging, RemoveStale
<1>5. CASE BeginInstall BY <1>5 DEF BeginInstall, Begin
<1>6. CASE BeginUninstall BY <1>6 DEF BeginUninstall, Begin
<1>7. CASE Cleanup
  BY <1>7 DEF Cleanup, SweepTemporaries, RemoveStateDirectory, RemoveStaging, RemoveStale
<1>8. CASE StartGroup BY <1>8 DEF StartGroup
<1>9. CASE FinishGroup BY <1>9 DEF FinishGroup
<1>10. CASE Commit BY <1>10 DEF Commit
<1>11. ASSUME NEW f \in Files, AlreadyInstalled(f) PROVE Final
  BY <1>11 DEF AlreadyInstalled, MemberDone
<1>12. ASSUME NEW f \in Files, StageFile(f) PROVE Final BY <1>12 DEF StageFile
<1>13. ASSUME NEW f \in Files, ReplaceFile(f) PROVE Final
  BY <1>13 DEF ReplaceFile, MemberDone
<1>14. ASSUME NEW f \in Files, LeaveTarget(f) PROVE Final
  BY <1>14 DEF LeaveTarget, MemberDone
<1>15. ASSUME NEW f \in Files, RemoveFile(f) PROVE Final BY <1>15 DEF RemoveFile, MemberDone
<1>16. ASSUME NEW f \in Files, StartCopy(f) PROVE Final BY <1>16 DEF StartCopy
<1>17. ASSUME NEW f \in Files, FinishCopy(f) PROVE Final BY <1>17 DEF FinishCopy
<1>18. CASE BeginRollback BY <1>18 DEF BeginRollback, SweepTemporaries
<1>19. CASE StartUnit BY <1>19 DEF StartUnit
<1>20. CASE FinishUnit BY <1>20 DEF FinishUnit
<1>21. CASE FinishRollback BY <1>21 DEF FinishRollback
<1>22. ASSUME NEW f \in Files, UndoCreate(f) PROVE Final BY <1>22 DEF UndoCreate, MemberDone
<1>23. ASSUME NEW f \in Files, UndoNothing(f) PROVE Final
  BY <1>23 DEF UndoNothing, MemberDone
<1>24. ASSUME NEW f \in Files, MoveBack(f) PROVE Final BY <1>24 DEF MoveBack, MemberDone
<1>25. ASSUME NEW f \in Files, StageBack(f) PROVE Final BY <1>25 DEF StageBack
<1>26. ASSUME NEW f \in Files, CopyBack(f) PROVE Final BY <1>26 DEF CopyBack, MemberDone
<1>27. ASSUME NEW f \in Files, BackupMissing(f) PROVE Final
  BY <1>27 DEF BackupMissing, Undoing, StopRollback, DropTemporary
<1>28. CASE Crash BY <1>28 DEF Crash
<1>29. CASE FailForward BY <1>29 DEF FailForward, DropTemporary
<1>30. ASSUME NEW f \in Files, UndoError(f) PROVE Final
  BY <1>30 DEF UndoError, Undoing, StopRollback, DropTemporary
<1>31. ASSUME NEW f \in Files, NEW bytes \in UserBytes \cup {Absent}, UserEdit(f, bytes) PROVE Final
  BY <1>31 DEF UserEdit
<1> QED
  BY <1>1, <1>2, <1>3, <1>4, <1>5, <1>6, <1>7, <1>8, <1>9, <1>10, <1>11, <1>12, <1>13, <1>14, <1>15, <1>16, <1>17, <1>18, <1>19, <1>20, <1>21, <1>22, <1>23, <1>24, <1>25, <1>26, <1>27, <1>28, <1>29, <1>30, <1>31
     DEF Next, EngineStep, RunStep, WalkStep, RollbackStep, Fault, Edit

\* Nothing walks a committed or rolled back transaction again, except that the
\* process that committed it may roll it back while it still runs, after an
\* error behind the SQL commit.
THEOREM TerminalFinality == Spec => TerminalIsFinal
<1>1. Init => TInv /\ RollbackOK BY TInit DEF Init, RollbackOK
<1>2. TInv /\ RollbackOK /\ [Next]_vars => (TInv /\ RollbackOK)' BY TNext, RollbackNext
<1>3. TInv /\ RollbackOK /\ [Next]_vars =>
        [/\ txnState = "rolled_back" => txnState' \in {"rolled_back", "running", "none"}
         /\ txnState = "committed" =>
              txnState' \in {"committed", "running", "none"} \/ (LateError /\ pc = "rollback")]_vars
  BY TerminalStepFinal
<1> QED BY <1>1, <1>2, <1>3, PTL DEF Spec, TerminalIsFinal

----------------------------------------------------------------------------
(* FileTransaction implements AtomicInstall. *)

\* Only a commit and an edit change what a rollback would leave, and the
\* ownership rows.
LEMMA Stutters ==
  ASSUME IInv, Sheltered, Next, ~Commit, ~Edit
  PROVE  UNCHANGED <<installed, owned>> /\ \A f \in Files : Before(f)' = Before(f)
<1> DEFINE Same == UNCHANGED <<installed, owned>> /\ \A g \in Files : Before(g)' = Before(g)
<1> USE FileTransactionAssumption, GroupIsPending, UnitIsUndoable
        DEF Sheltered, IInv, TInv, TypeOK, ProcessOK, Idle, WalkerOK, RecordsOK, Before, Open,
            Operations, Pending, Undoable, Stored, Kinds, journal, registry, walker, process, aside
<1>1. ASSUME NEW exe \in Exes, Start(exe) PROVE Same BY <1>1 DEF Start
<1>2. CASE NothingToRecover
  BY <1>2 DEF NothingToRecover, NoFiles, RemoveStaging, RemoveStale
<1>3. CASE Recover
  BY <1>3 DEF Recover, SweepOrphans, GoesForward, SamePackage, RemoveStale, SweepTemporaries
<1>4. CASE LeaveBeforeTransaction
  BY <1>4 DEF LeaveBeforeTransaction, RemoveStateDirectory, RemoveStaging, RemoveStale
<1>5. CASE BeginInstall
  BY <1>5 DEF BeginInstall, Begin, InstallKind, RemovalKind, Payload, NoFiles, Kinds
<1>6. CASE BeginUninstall BY <1>6 DEF BeginUninstall, Begin, RemovalKind, NoFiles, Kinds
<1>7. CASE Cleanup
  BY <1>7 DEF Cleanup, NoFiles, SweepTemporaries, RemoveStateDirectory, RemoveStaging, RemoveStale
<1>8. CASE StartGroup BY <1>8 DEF StartGroup, Marked
<1>9. CASE FinishGroup BY <1>9 DEF FinishGroup, Marked
<1>10. ASSUME NEW f \in Files, AlreadyInstalled(f) PROVE Same
  BY <1>10 DEF AlreadyInstalled, Payload, MemberDone, Mutating, First
<1>11. ASSUME NEW f \in Files, StageFile(f) PROVE Same
  BY <1>11 DEF StageFile, Mutating, First
<1>12. ASSUME NEW f \in Files, ReplaceFile(f) PROVE Same
  BY <1>12 DEF ReplaceFile, Payload, MemberDone, Mutating, NeedsBackup, First
<1>13. ASSUME NEW f \in Files, LeaveTarget(f) PROVE Same
  BY <1>13 DEF LeaveTarget, MemberDone, Mutating, First
<1>14. ASSUME NEW f \in Files, RemoveFile(f) PROVE Same
  BY <1>14 DEF RemoveFile, MemberDone, Mutating, NeedsBackup, First
<1>15. ASSUME NEW f \in Files, StartCopy(f) PROVE Same
  BY <1>15 DEF StartCopy, Mutating, NeedsBackup
<1>16. ASSUME NEW f \in Files, FinishCopy(f) PROVE Same BY <1>16 DEF FinishCopy
<1>17. CASE BeginRollback BY <1>17 DEF BeginRollback, SweepTemporaries
<1>18. CASE StartUnit BY <1>18 DEF StartUnit, Marked
<1>19. CASE FinishUnit BY <1>19 DEF FinishUnit, Marked
<1>20. CASE FinishRollback BY <1>20 DEF FinishRollback
<1>21. ASSUME NEW f \in Files, UndoCreate(f) PROVE Same
  BY <1>21 DEF UndoCreate, Undoing, MemberDone, Last
<1>22. ASSUME NEW f \in Files, UndoNothing(f) PROVE Same
  BY <1>22 DEF UndoNothing, Undoing, MemberDone, Last
<1>23. ASSUME NEW f \in Files, MoveBack(f) PROVE Same
  BY <1>23 DEF MoveBack, Restoring, Undoing, MemberDone, Last
<1>24. ASSUME NEW f \in Files, StageBack(f) PROVE Same
  BY <1>24 DEF StageBack, Restoring, Undoing, Last
<1>25. ASSUME NEW f \in Files, CopyBack(f) PROVE Same
  BY <1>25 DEF CopyBack, Undoing, MemberDone, Last
<1>26. ASSUME NEW f \in Files, BackupMissing(f) PROVE Same
  BY <1>26 DEF BackupMissing, StopRollback, Undoing, Last, DropTemporary
<1>27. CASE Crash BY <1>27 DEF Crash
<1>28. CASE FailForward BY <1>28 DEF FailForward, DropTemporary
<1>29. ASSUME NEW f \in Files, UndoError(f) PROVE Same
  BY <1>29 DEF UndoError, StopRollback, Undoing, Last, DropTemporary
<1> QED
  BY <1>1, <1>2, <1>3, <1>4, <1>5, <1>6, <1>7, <1>8, <1>9, <1>10, <1>11, <1>12, <1>13, <1>14, <1>15, <1>16, <1>17, <1>18, <1>19, <1>20, <1>21, <1>22, <1>23, <1>24, <1>25, <1>26, <1>27, <1>28, <1>29
     DEF Next, EngineStep, RunStep, WalkStep, RollbackStep, Fault, Edit

\* A commit installs the version of the package that opened the transaction.
LEMMA CommitInstalls ==
  ASSUME IInv, Sheltered, Commit, txnKind = "installs"
  PROVE  Atomic!Install(txnExe.version)
<1> DEFINE v == txnExe.version
<1> USE FileTransactionAssumption DEF IInv, TInv, TypeOK, ProcessOK, Open
<1>1. txnState = "running" /\ Pending = {} /\ txnExe \in Exes /\ v \in Versions
  BY DEF Commit, Exes
<1>2. \A f \in Files : kind[f] # "none" => opState[f] = "applied" /\ disk[f] = Wanted(f)
  BY <1>1 DEF RecordsOK, Pending, Operations, Kinds
<1>3. \A f \in Files : Wanted(f) = Tree[v][f] BY <1>1 DEF PlanOK, Wanted, Kinds
<1>4. \A f \in Files : Before(f)' = disk[f] BY DEF Commit, Before
<1>5. ASSUME NEW f \in Files
      PROVE  disk[f] = IF Tree[v][f] # Absent THEN Tree[v][f]
                       ELSE IF Before(f) = owned[f] THEN Absent ELSE Before(f)
  <2>1. CASE kind[f] \in {"install", "keep"} BY <1>1, <1>2, <1>3, <2>1 DEF PlanOK
  <2>2. CASE kind[f] = "remove" BY <1>1, <1>2, <1>3, <2>2 DEF PlanOK
  <2>3. CASE kind[f] = "none"
    <3>1. Before(f) = disk[f] BY <2>3 DEF Before, Undoable, Operations
    <3> QED BY <1>1, <2>3, <3>1 DEF PlanOK
  <2> QED BY <2>1, <2>2, <2>3 DEF Kinds
<1>6. owned' = Tree[v]
  <2>1. owned' = [f \in Files |-> Wanted(f)] BY DEF Commit, Wanted
  <2> QED BY <1>1, <1>3, <2>1
<1>7. installed' = v BY DEF Commit
<1> QED BY <1>4, <1>5, <1>6, <1>7 DEF Atomic!Install, Atomic!Without

\* Or it removes what is owned.
LEMMA CommitUninstalls ==
  ASSUME IInv, Sheltered, Commit, txnKind = "uninstall"
  PROVE  Atomic!Uninstall
<1> USE FileTransactionAssumption DEF IInv, TInv, TypeOK, ProcessOK, Open
<1>1. txnState = "running" /\ Pending = {} BY DEF Commit
<1>2. \A f \in Files : kind[f] \in {"remove", "none"} BY <1>1 DEF PlanOK, Kinds
<1>3. \A f \in Files : Before(f)' = disk[f] BY DEF Commit, Before
<1>4. ASSUME NEW f \in Files
      PROVE  disk[f] = IF Before(f) = owned[f] THEN Absent ELSE Before(f)
  <2>1. CASE kind[f] = "remove"
    <3>1. disk[f] = Absent BY <1>1, <2>1 DEF RecordsOK, Pending, Operations, Wanted
    <3> QED BY <1>1, <2>1, <3>1 DEF PlanOK
  <2>2. CASE kind[f] = "none"
    <3>1. Before(f) = disk[f] BY <2>2 DEF Before, Undoable, Operations
    <3> QED BY <1>1, <2>2, <3>1 DEF PlanOK
  <2> QED BY <1>2, <2>1, <2>2
<1>5. owned' = [f \in Files |-> Absent] BY <1>2 DEF Commit
<1>6. installed # None /\ installed' = None BY <1>1 DEF Commit, PlanOK
<1> QED BY <1>3, <1>4, <1>5, <1>6 DEF Atomic!Uninstall, Atomic!Without

\* An edit is an edit: with nothing open a rollback would leave what is there.
LEMMA EditIsEdit ==
  ASSUME IInv, Sheltered, NEW f \in Files, NEW bytes \in UserBytes \cup {Absent},
         UserEdit(f, bytes)
  PROVE  Atomic!UserEdit(f, bytes)
<1> USE DEF Sheltered, UserEdit, journal, registry
<1>1. ~Open /\ ~Open' BY DEF Open
<1>2. \A g \in Files : Before(g) = disk[g] /\ Before(g)' = disk'[g] BY <1>1 DEF Before
<1>3. disk' = [disk EXCEPT ![f] = bytes] /\ disk \in [Files -> Stored]
  BY DEF IInv, TInv, TypeOK
<1> QED BY <1>2, <1>3 DEF Atomic!UserEdit

\* The detailed engine, with its journal, groups, backups, crashes, recoveries
\* and rollbacks, implements the indivisible installation.
THEOREM Refinement == Sheltered => (Spec => IsAtomic)
<1> SUFFICES ASSUME Sheltered PROVE Spec => Atomic!Spec BY DEF IsAtomic
<1>1. Init => Atomic!Init
  <2> SUFFICES ASSUME Init PROVE Atomic!Init OBVIOUS
  <2>1. \A f \in Files : Before(f) = disk[f] BY DEF Init, Before, Open
  <2> QED BY <2>1 DEF Init, NoFiles, Atomic!Init
<1>2. IInv /\ [Next]_vars => [Atomic!Next]_(Atomic!vars)
  <2> SUFFICES ASSUME IInv, [Next]_vars PROVE [Atomic!Next]_(Atomic!vars) OBVIOUS
  <2>1. CASE Commit
    <3>1. txnExe.version \in Versions BY <2>1 DEF IInv, TInv, ProcessOK, Commit, Exes
    <3>2. txnKind \in {"installs", "uninstall"} BY DEF IInv, TInv, TypeOK
    <3> QED BY <2>1, <3>1, <3>2, CommitInstalls, CommitUninstalls DEF Atomic!Next
  <2>2. CASE Edit BY <2>2, EditIsEdit DEF Edit, Atomic!Next
  <2>3. CASE Next /\ ~Commit /\ ~Edit BY <2>3, Stutters DEF Atomic!vars
  <2>4. CASE UNCHANGED vars
    BY <2>4 DEF vars, registry, journal, Before, Open, Undoable, Operations, Atomic!vars
  <2> QED BY <2>1, <2>2, <2>3, <2>4
<1> QED BY <1>1, <1>2, Inductive, PTL DEF Spec, Atomic!Spec
=============================================================================
