-------------------------- MODULE Sessions_proofs ---------------------------
(***************************************************************************)
(* What is proved of the two sessions in which the installer meets the     *)
(* people at the machine: the one that closes what they run, around the    *)
(* transaction, and the wizard's.                                          *)
(*                                                                         *)
(* Of Quiescence, for any versions, entries, programs, applications and    *)
(* holders: the store's variables keep their types, and where the sweep    *)
(* reads what is owned without an error the installed version's programs   *)
(* are stored; the run around the transaction implements ActionStore, owes *)
(* nothing when it ends, and leaves stopped in silence nothing but the     *)
(* application whose resume was never resolved.                            *)
(*                                                                         *)
(* Of Wizard, for any starts of the installer: the window never goes with  *)
(* a run or an elevated child open, a run does what was chosen, and the    *)
(* exit code is the end of the run that did the work.                      *)
(***************************************************************************)
EXTENDS Quiescence, Wizard, SequenceTheorems, TLAPS

----------------------------------------------------------------------------
(* The store. OwnedIsStored is not inductive: the commit changes what is   *)
(* owned, so the invariant carries what the operations applied so far have *)
(* put in the store.                                                       *)


Kept == store \cup lost

\* Where the run stands determines the state of the transaction.
Standing ==
  /\ pc \in {"walk", "mutate"}   => txnState = "running"
  /\ pc \in {"reverse", "undo"}  => txnState = "rolling_back"
  /\ pc = "rollback"             => Open
  /\ pc = "cleanup"              => txnState \in {"committed", "rolled_back"}
  /\ pc \notin {"down", "done"}  => running \in Exes
  /\ pc = "done"                 => running \in Exes
  /\ txnState # "none"           => txnExe \in Exes
  /\ txnState = "committed" /\ txnKind = "uninstall" => installed = Nothing

\* An installing transaction stores every entry.
Complete ==
  txnState = "running" /\ txnKind = "installs" =>
    \A e \in Entries : opState[e] \in {"planned", "applying", "applied"}

\* What is applied is stored, and what is being applied is stored or to do.
Applied ==
  txnState = "running" =>
    \A e \in Entries : opState[e] = "applied" => Programs(e) \subseteq Kept
Applying ==
  pc = "mutate" =>
    \A e \in Entries : opState[e] = "applying" =>
      \A h \in Programs(e) : h \in Kept \/ <<e, h>> \in todo

IInv == TypeOK /\ Standing /\ Complete /\ Applied /\ Applying
SInv == IInv /\ OwnedIsStored

\* The packaged programs of an entry are hashes.
LEMMA ProgramsAreHashes ==
  ASSUME NEW v \in Versions, NEW e \in Entries
  PROVE  ProgramsOf(v, e) \subseteq Hashes
BY ActionStoreAssumption DEF ProgramsOf

\* The initial state satisfies the invariant.
LEMMA InitIInv == StoreInit => SInv
BY DEF StoreInit, SInv, IInv, TypeOK, Standing, Complete, Applied, Applying, Open,
       OwnedIsStored, Owned

\* Every step keeps the inductive invariant.
LEMMA StepIInv == IInv /\ [StoreNext]_storeVars => IInv'
<1> SUFFICES ASSUME IInv, [StoreNext]_storeVars PROVE IInv' OBVIOUS
<1> USE DEF IInv, Standing, Complete, Applied, Applying, Kept, Open, journal, Programs
<1>1. ASSUME NEW exe \in Exes, Start(exe) PROVE IInv' BY <1>1 DEF Start, TypeOK
<1>2. CASE Recover BY <1>2 DEF Recover, GoesForward, TypeOK
<1>3. CASE LeaveBeforeTransaction BY <1>3 DEF LeaveBeforeTransaction, TypeOK
<1>4. ASSUME NEW h \in Hashes, ExtractEarly(h) PROVE IInv' BY <1>4 DEF ExtractEarly, TypeOK
<1>5. ASSUME NEW h \in Hashes, Lose(h) PROVE IInv' BY <1>5 DEF Lose, TypeOK
<1>6. ASSUME NEW why \in {"installs", "uninstall"}, Begin(why) PROVE IInv'
  BY <1>6 DEF Begin, TypeOK
<1>7. CASE StartGroup
  <2>1. Pending \subseteq Entries /\ txnExe.version \in Versions
    BY <1>7 DEF StartGroup, Pending, Exes
  <2>2. todo' \subseteq Entries \X Hashes BY <1>7, <2>1 DEF StartGroup, Pairs
  <2>3. \A e \in Pending : \A h \in ProgramsOf(txnExe.version, e) : <<e, h>> \in todo'
    BY <1>7, <2>1, ProgramsAreHashes DEF StartGroup, Pairs
  <2>4. TypeOK' BY <1>7, <2>2 DEF StartGroup, TypeOK
  <2>5. Complete' /\ Applied' /\ Standing' BY <1>7 DEF StartGroup, Pending, TypeOK
  <2>6. Applying' BY <1>7, <2>3 DEF StartGroup, Pending, TypeOK
  <2> QED BY <2>4, <2>5, <2>6
<1>8. CASE FinishGroup BY <1>8 DEF FinishGroup, TypeOK
<1>9. CASE Commit
  <2>1. txnExe.version \in Versions BY <1>9 DEF Commit, Exes
  <2> QED BY <1>9, <2>1 DEF Commit, TypeOK
<1>10. CASE FailForward BY <1>10 DEF FailForward, TypeOK
<1>11. CASE BeginRollback BY <1>11 DEF BeginRollback, TypeOK
<1>12. CASE StartUnit BY <1>12 DEF StartUnit, Undoable, Pairs, TypeOK
<1>13. CASE UndoError BY <1>13 DEF UndoError, TypeOK
<1>14. CASE FinishUnit BY <1>14 DEF FinishUnit, TypeOK
<1>15. CASE FinishRollback BY <1>15 DEF FinishRollback, TypeOK
<1>16. CASE Cleanup BY <1>16 DEF Cleanup, TypeOK
<1>17. ASSUME NEW e \in Entries, NEW h \in Hashes, StoreProgram(e, h) PROVE IInv'
  BY <1>17 DEF StoreProgram, TypeOK
<1>18. ASSUME NEW e \in Entries, NEW h \in Hashes, RemoveProgram(e, h) PROVE IInv'
  BY <1>18 DEF RemoveProgram, TypeOK
<1>19. CASE End BY <1>19 DEF End, TypeOK
<1>20. CASE Crash BY <1>20 DEF Crash, TypeOK
<1>21. CASE UNCHANGED storeVars BY <1>21 DEF storeVars, TypeOK
<1> QED BY <1>1, <1>2, <1>3, <1>4, <1>5, <1>6, <1>7, <1>8, <1>9, <1>10, <1>11, <1>12, <1>13,
     <1>14, <1>15, <1>16, <1>17, <1>18, <1>19, <1>20, <1>21
     DEF StoreNext, TransactionStep

\* No step leaves the installed version without its programs, where the
\* sweep reads what is owned without an error.
LEMMA StepOwned ==
  ASSUME ReadErrors = FALSE
  PROVE  SInv /\ [StoreNext]_storeVars => OwnedIsStored'
<1> SUFFICES ASSUME SInv, [StoreNext]_storeVars PROVE OwnedIsStored' OBVIOUS
<1> USE DEF SInv, IInv, OwnedIsStored, Owned, OwnedBy, ProgramsOf
<1>1. CASE Commit
  <2>1. CASE txnKind = "uninstall" BY <1>1, <2>1 DEF Commit
  <2>2. CASE txnKind = "installs"
    <3>1. installed' = txnExe.version /\ store' = store /\ lost' = lost
      BY <1>1, <2>2 DEF Commit
    <3>2. \A e \in Entries : opState[e] = "applied"
      BY <1>1, <2>2 DEF Commit, Pending, Complete, Standing
    <3>3. \A e \in Entries : ProgramsOf(txnExe.version, e) \subseteq store \cup lost
      BY <1>1, <3>2 DEF Commit, Applied, Standing, Programs, Kept
    <3>4. OwnedBy(txnExe.version) \subseteq store \cup lost BY <3>3
    <3> QED BY <3>1, <3>4
  <2> QED BY <2>1, <2>2 DEF TypeOK
<1>2. CASE Cleanup BY <1>2 DEF Cleanup
<1>3. CASE End BY <1>3 DEF End, Standing
<1>4. ASSUME NEW e \in Entries, NEW h \in Hashes, RemoveProgram(e, h) PROVE OwnedIsStored'
  BY <1>4 DEF RemoveProgram, Spared
<1>5. ASSUME NEW e \in Entries, NEW h \in Hashes, StoreProgram(e, h) PROVE OwnedIsStored'
  BY <1>5 DEF StoreProgram
<1>6. ASSUME NEW h \in Hashes, ExtractEarly(h) \/ Lose(h) PROVE OwnedIsStored'
  BY <1>6 DEF ExtractEarly, Lose
<1>7. ASSUME UNCHANGED <<installed, store, lost>> PROVE OwnedIsStored' BY <1>7
<1>8. (\E exe \in Exes : Start(exe)) \/ Recover \/ LeaveBeforeTransaction
      \/ (\E why \in {"installs", "uninstall"} : Begin(why))
      \/ StartGroup \/ FinishGroup \/ FailForward \/ BeginRollback \/ StartUnit \/ UndoError
      \/ FinishUnit \/ FinishRollback \/ Crash \/ UNCHANGED storeVars
        => UNCHANGED <<installed, store, lost>>
  BY DEF Start, Recover, LeaveBeforeTransaction, Begin, StartGroup, FinishGroup, FailForward,
         BeginRollback, StartUnit, UndoError, FinishUnit, FinishRollback, Crash, storeVars,
         journal
<1> QED BY <1>1, <1>2, <1>3, <1>4, <1>5, <1>6, <1>7, <1>8 DEF StoreNext, TransactionStep

\* Every variable keeps its type, whatever crashes, fails or is deleted.
THEOREM TypeCorrect == StoreSpec => []TypeOK
<1>1. StoreInit => IInv BY InitIInv DEF SInv
<1>2. IInv => TypeOK BY DEF IInv
<1> QED BY <1>1, <1>2, StepIInv, PTL DEF StoreSpec

\* The programs of the installed version survive every failed upgrade, every
\* crash and every sweep, where the sweep can read what is owned.
THEOREM ProgramsSurvive ==
  ASSUME ReadErrors = FALSE
  PROVE  StoreSpec => []OwnedIsStored
<1>1. SInv /\ [StoreNext]_storeVars => SInv' BY StepIInv, StepOwned DEF SInv
<1>2. SInv => OwnedIsStored BY DEF SInv
<1> QED BY <1>1, <1>2, InitIInv, PTL DEF StoreSpec

----------------------------------------------------------------------------
(* The run around the transaction. *)


Before == {"stop", "resolve", "begin", "refusing"}
Around == {"transact", "settle"}

\* Where the run stands around its transaction.
Place ==
  /\ stage # "idle"   => pc \notin {"down", "recover"}
  /\ stage \in Before => pc = "plan"
  /\ stage \in {"settle", "settled"} => pc = "done"
  /\ stage = "refused" => pc \in {"plan", "done"}
  /\ stage \in Before /\ purpose = "installs" => running.role = "setup"
  /\ stage \in Around => txnKind = purpose
  /\ stage = "resolve" => at \in Apps

\* Whose entries the run executes does not change while it owes anything.
Declared ==
  /\ stage \in Before => Declaring \in Versions /\ owing \subseteq Resumes[Declaring]
  /\ stage \in Around =>
       Uninstalled \/ (Declaring \in Versions /\ owing \subseteq Resumes[Declaring])

QInv == TypeQ /\ IInv /\ Place /\ Declared /\ SettledAtEnd

NoneUnresolved == \A e \in Apps : unstarted[e] # "unresolved"

\* What was stopped is owed, or is the entry in hand, or the report names it;
\* a run that is over owes nothing.
Given ==
  /\ stage \in {"stop", "begin", "transact", "settle", "resolve"} => NoneUnresolved
  /\ stage \in {"stop", "begin", "transact"} => owing \subseteq owed
  /\ stage = "resolve" => owing \subseteq owed \cup {at}
  /\ stage = "settle" => owing \subseteq owed \cup Told
  /\ stage = "refusing" =>
       \E e \in Apps \cup {Nothing} :
         /\ owing \subseteq owed \cup Told \cup {e}
         /\ e \in Apps => unstarted[e] = "unresolved"
  /\ NoneLeftSilently

GInv == QInv /\ Given

\* The initial states satisfy the invariants.
LEMMA InitGInv == Init => GInv
<1> SUFFICES ASSUME Init PROVE GInv OBVIOUS
<1>1. IInv BY InitIInv DEF Init, SInv
<1> QED
  BY <1>1 DEF Init, GInv, QInv, TypeQ, Stages, Reasons, NoReason, Place, Declared, SettledAtEnd,
     Given, NoneLeftSilently, Before, Around

\* Every step of the run is a step of ActionStore, or none.
LEMMA StepImplements == QInv /\ [Next]_vars => [StoreNext]_storeVars
<1> SUFFICES ASSUME QInv, [Next]_vars PROVE [StoreNext]_storeVars OBVIOUS
<1>1. ASSUME NEW h \in Hashes, Fetch(h) PROVE ExtractEarly(h)
  <2>1. purpose = "installs" /\ stage \in Before
    BY <1>1 DEF Fetch, HasPayload, Needs, Before
  <2>2. running.role = "setup" /\ running.version \in Versions /\ Declaring = running.version
    BY <2>1 DEF QInv, Place, Declared, Declaring
  <2>3. PICK e \in Entries : h = Stop[running.version][e] \/ h = Resume[running.version][e]
    BY <1>1, <2>2, QuiescenceAssumption DEF Fetch, Needs, QInv, TypeQ, Place
  <2>4. h \in OwnedBy(running.version)
    BY <2>3, ActionStoreAssumption DEF OwnedBy, ProgramsOf
  <2> QED BY <1>1, <2>2, <2>4 DEF Fetch, ExtractEarly, memory, apps, others
<1>2. ASSUME NEW exe \in Exes, StartRun(exe) PROVE Start(exe) BY <1>2 DEF StartRun
<1>3. RecoverRun => Recover BY DEF RecoverRun
<1>4. Leave => LeaveBeforeTransaction BY DEF Leave
<1>5. EndRun => End BY DEF EndRun
<1>6. CrashRun => Crash BY DEF CrashRun
<1>7. ASSUME NEW h \in Hashes, LoseProgram(h) PROVE Lose(h) BY <1>7 DEF LoseProgram
<1>8. Transact => TransactionStep BY DEF Transact
<1>9. OpenTransaction => \E p \in {"installs", "uninstall"} : Begin(p)
  BY DEF OpenTransaction, QInv, TypeQ
<1>10. User \/ (\E p \in {"installs", "uninstall"} : Prepare(p))
       \/ (\E e \in Apps : StopApp(e) \/ NotRunning(e) \/ StopFails(e) \/ ResumeOne(e))
       \/ StopError \/ Resolve \/ ResolveFails \/ AcquireNothing \/ Acquire
       \/ OpenTransactionFails \/ Release \/ SettleNothing \/ FinishSettling \/ UNCHANGED vars
         => UNCHANGED storeVars
  BY DEF User, Prepare, StopApp, NotRunning, StopFails, ResumeOne, StopError, Resolve,
         ResolveFails, AcquireNothing, Acquire, OpenTransactionFails, Release, SettleNothing,
         FinishSettling, vars
<1> QED BY <1>1, <1>2, <1>3, <1>4, <1>5, <1>6, <1>7, <1>8, <1>9, <1>10 DEF Next, StoreNext

\* What a step of the transaction does to what Declaring and Uninstalled read.
LEMMA TransactionKeeps ==
  ASSUME IInv, TransactionStep
  PROVE  /\ running' = running /\ txnKind' = txnKind
         /\ pc \notin {"down", "recover", "plan", "done"}
         /\ pc' \notin {"down", "recover"}
         /\ Uninstalled => Uninstalled'
         /\ installed' = installed \/ Uninstalled' \/ txnKind = "installs"
<1> USE DEF TransactionStep, StartGroup, FinishGroup, Commit, FailForward, BeginRollback,
        StartUnit, UndoError, FinishUnit, FinishRollback, Cleanup, StoreProgram, RemoveProgram,
        journal
<1>1. running' = running /\ txnKind' = txnKind OBVIOUS
<1>2. pc \notin {"down", "recover", "plan", "done"} /\ pc' \notin {"down", "recover"}
  OBVIOUS
<1>3. Uninstalled => Uninstalled' BY DEF Uninstalled, IInv, Standing, Open
<1>4. installed' = installed \/ Uninstalled' \/ txnKind = "installs"
  BY DEF Uninstalled, IInv, TypeOK
<1> QED BY <1>1, <1>2, <1>3, <1>4

\* Every step keeps the invariant.
LEMMA StepQInv == QInv /\ [Next]_vars => QInv'
<1> SUFFICES ASSUME QInv, [Next]_vars PROVE QInv' OBVIOUS
<1>0. IInv' BY StepImplements, StepIInv DEF QInv
<1> DEFINE Rest == TypeQ /\ Place /\ Declared /\ SettledAtEnd
<1>a. Rest /\ IInv BY DEF QInv
<1> SUFFICES Rest' BY <1>0 DEF QInv
<1> USE QuiescenceAssumption DEF TypeQ, Stages, Reasons, NoReason, Place, Declared, SettledAtEnd, Before, Around, Declaring,
        Uninstalled, memory, apps, others
<1>1. ASSUME NEW exe \in Exes, StartRun(exe) PROVE Rest'
  BY <1>1, <1>a DEF StartRun, Start, journal
<1>2. CASE RecoverRun BY <1>2, <1>a DEF RecoverRun, Recover, journal
<1>3. CASE Leave BY <1>3, <1>a DEF Leave, LeaveBeforeTransaction, journal
<1>4. CASE EndRun BY <1>4, <1>a DEF EndRun, End
<1>5. CASE CrashRun BY <1>5, <1>a DEF CrashRun, Crash, journal
<1>6. CASE User BY <1>6, <1>a DEF User, storeVars, journal
<1>7. ASSUME NEW p \in {"installs", "uninstall"}, Prepare(p) PROVE Rest'
  <2>1. running \in Exes /\ installed \in Versions \cup {Nothing}
    BY <1>7, <1>a DEF Prepare, IInv, Standing, TypeOK
  <2> QED BY <1>7, <1>a, <2>1 DEF Prepare, storeVars, journal, Exes
<1>8. ASSUME NEW e \in Apps, StopApp(e) PROVE Rest'
  BY <1>8, <1>a DEF StopApp, storeVars, journal
<1>9. ASSUME NEW e \in Apps, NotRunning(e) PROVE Rest'
  BY <1>9, <1>a DEF NotRunning, storeVars, journal
<1>10. ASSUME NEW e \in Apps, StopFails(e) PROVE Rest'
  BY <1>10, <1>a DEF StopFails, storeVars, journal
<1>11. ASSUME NEW e \in Apps, ResumeOne(e) PROVE Rest'
  BY <1>11, <1>a DEF ResumeOne, Resuming, Forgiven, StartAgain, CannotStart, storeVars, journal
<1>12. CASE StopError BY <1>12, <1>a DEF StopError, storeVars, journal
<1>13. CASE Resolve BY <1>13, <1>a DEF Resolve, Owe, storeVars, journal
<1>14. CASE ResolveFails BY <1>14, <1>a DEF ResolveFails, storeVars, journal
<1>15. CASE AcquireNothing BY <1>15, <1>a DEF AcquireNothing, storeVars, journal
<1>16. CASE Acquire BY <1>16, <1>a DEF Acquire, storeVars, journal
<1>18. CASE OpenTransaction BY <1>18, <1>a DEF OpenTransaction, Begin
<1>19. CASE OpenTransactionFails BY <1>19, <1>a DEF OpenTransactionFails, storeVars, journal
<1>20. CASE Transact
  <2>1. TransactionStep /\ stage' = stage /\ purpose' = purpose /\ at' = at /\ owed' = owed
        /\ owing' = owing /\ left' = left /\ closed' = closed /\ app' = app /\ up' = up
        /\ shut' = shut /\ unstarted' = unstarted
    BY <1>20 DEF Transact
  <2>2. stage \in {"idle", "transact"} BY <1>20 DEF Transact
  <2> QED BY <1>a, <2>1, <2>2, TransactionKeeps
<1>21. CASE Release BY <1>21, <1>a DEF Release, Restarted, storeVars, journal
<1>22. CASE SettleNothing BY <1>22, <1>a DEF SettleNothing, storeVars, journal
<1>23. CASE FinishSettling
  BY <1>23, <1>a DEF FinishSettling, AllResumed, Resuming, storeVars, journal
<1>24. ASSUME NEW h \in Hashes, Fetch(h) \/ LoseProgram(h) PROVE Rest'
  BY <1>24, <1>a DEF Fetch, LoseProgram, Lose, journal
<1>25. CASE UNCHANGED vars BY <1>25, <1>a DEF vars, storeVars, journal
<1> QED
  BY <1>1, <1>2, <1>3, <1>4, <1>5, <1>6, <1>7, <1>8, <1>9, <1>10, <1>11, <1>12, <1>13, <1>14,
     <1>15, <1>16, <1>18, <1>19, <1>20, <1>21, <1>22, <1>23, <1>24, <1>25 DEF Next

\* Every step keeps account of what was taken.
LEMMA StepGiven == GInv /\ [Next]_vars => Given'
<1> SUFFICES ASSUME GInv, [Next]_vars PROVE Given' OBVIOUS
<1>a. QInv /\ TypeQ /\ Place /\ Given /\ NoneLeftSilently BY DEF GInv, QInv, Given
<1> USE DEF Given, NoneLeftSilently, NoneUnresolved, Told, memory, apps, others
<1>1. ASSUME NEW exe \in Exes, StartRun(exe) PROVE Given'
  BY <1>1, <1>a DEF StartRun, Start, Place
<1>2. CASE RecoverRun \/ Leave
  BY <1>2, <1>a DEF RecoverRun, Recover, Leave, LeaveBeforeTransaction, journal, Open, Uninstalled
<1>3. CASE EndRun \/ CrashRun BY <1>3 DEF EndRun, CrashRun
<1>4. CASE User BY <1>4, <1>a DEF User, storeVars, journal, Open, Uninstalled
<1>5. ASSUME NEW p \in {"installs", "uninstall"}, Prepare(p) PROVE Given'
  BY <1>5 DEF Prepare, NoReason
<1>6. ASSUME NEW e \in Apps, StopApp(e) \/ NotRunning(e) PROVE Given'
  BY <1>6, <1>a DEF StopApp, NotRunning
<1>7. ASSUME NEW e \in Apps, StopFails(e) PROVE Given'
  <2>1. owing \subseteq owed /\ owing' = owing /\ owed' = owed /\ unstarted' = unstarted
        /\ NoneUnresolved /\ stage' \in {"stop", "refusing"}
    BY <1>7, <1>a DEF StopFails
  <2>2. Nothing \notin Apps BY QuiescenceAssumption, ActionStoreAssumption
  <2> QED BY <2>1, <2>2
<1>8. ASSUME NEW f \in Apps, ResumeOne(f) PROVE Given'
  <2>1. /\ owing \ owing' \subseteq {f} /\ owing' \subseteq owing /\ owed' = owed \ {f}
        /\ \A e \in Apps \ {f} : unstarted'[e] = unstarted[e]
        /\ stage' = stage /\ stage \in {"settle", "refusing"}
    BY <1>8, <1>a DEF ResumeOne, Resuming, StartAgain, CannotStart, TypeQ
  <2>2. f \notin owing' \/ f \in Told'
    <3>1. f \in owing => f \in Resumes[Declaring]
      BY <1>8 DEF ResumeOne, Resuming, Forgiven, GInv, QInv, Declared, Before, Around
    <3> QED BY <1>8, <1>a, <3>1 DEF ResumeOne, StartAgain, CannotStart, TypeQ, Reasons
  <2>3. \A e \in owing' : e \in owed => e \in owed' \/ e \in Told' BY <2>1, <2>2
  <2>4. \A e \in owing' : e \in Told => e \in Told' BY <2>1, <2>2
  <2>5. CASE stage = "settle"
    <3>1. NoneUnresolved' BY <1>8, <1>a, <2>5 DEF ResumeOne, StartAgain, CannotStart, TypeQ
    <3> QED BY <1>a, <2>1, <2>3, <2>4, <2>5, <3>1
  <2>6. CASE stage = "refusing"
    <3>1. PICK e \in Apps \cup {Nothing} :
            /\ owing \subseteq owed \cup Told \cup {e}
            /\ e \in Apps => unstarted[e] = "unresolved"
      BY <1>a, <2>6
    <3>2. CASE e = f
      <4>1. owing' \subseteq owed' \cup Told' \cup {Nothing}
        BY <2>1, <2>2, <2>3, <2>4, <3>1, <3>2
      <4>2. Nothing \notin Apps BY QuiescenceAssumption, ActionStoreAssumption
      <4> QED BY <2>1, <2>6, <4>1, <4>2
    <3>3. CASE e # f BY <2>1, <2>3, <2>4, <2>6, <3>1, <3>3
    <3> QED BY <3>2, <3>3
  <2> QED BY <2>1, <2>5, <2>6
<1>9. CASE StopError \/ AcquireNothing \/ Acquire \/ OpenTransactionFails
  <2>1. owing \subseteq owed /\ owing' = owing /\ owed' = owed /\ unstarted' = unstarted
        /\ NoneUnresolved /\ stage' \in {"begin", "refusing"}
    BY <1>9, <1>a DEF StopError, AcquireNothing, Acquire, OpenTransactionFails
  <2>2. Nothing \notin Apps BY QuiescenceAssumption, ActionStoreAssumption
  <2> QED BY <2>1, <2>2
<1>10. CASE Resolve BY <1>10, <1>a DEF Resolve, Owe
<1>11. CASE ResolveFails
  <2>1. at \in Apps /\ owing \subseteq owed \cup {at} /\ owing' = owing /\ owed' = owed
    BY <1>11, <1>a DEF ResolveFails, Place
  <2>2. unstarted'[at] = "unresolved" /\ stage' = "refusing"
    BY <1>11, <1>a, <2>1 DEF ResolveFails, TypeQ
  <2> QED BY <2>1, <2>2
<1>12. CASE OpenTransaction BY <1>12, <1>a DEF OpenTransaction
<1>13. CASE Transact BY <1>13, <1>a DEF Transact
<1>14. CASE Release BY <1>14, <1>a DEF Release
<1>15. CASE SettleNothing
  <2>1. /\ stage = "settle" /\ stage' = "settled" /\ owing' = owing
        /\ Open \/ Uninstalled
        /\ unstarted' = [e \in Apps |-> IF Open /\ e \in owed THEN "open" ELSE unstarted[e]]
        /\ Uninstalled' = Uninstalled
    BY <1>15 DEF SettleNothing, Forgiven, storeVars, journal, Uninstalled
  <2>2. ASSUME Open PROVE owing' \subseteq Told'
    <3>1. owing \subseteq Apps /\ owing \subseteq owed \cup Told BY <1>a, <2>1 DEF TypeQ
    <3>2. ASSUME NEW e \in owing PROVE e \in Told' BY <2>1, <2>2, <3>1, <3>2
    <3> QED BY <2>1, <3>2
  <2>3. stage' \notin {"stop", "begin", "transact", "settle", "resolve", "refusing", "refused"}
    BY <2>1
  <2> QED BY <2>1, <2>2, <2>3
<1>16. CASE FinishSettling BY <1>16, <1>a DEF FinishSettling, AllResumed, Resuming
<1>17. ASSUME NEW h \in Hashes, Fetch(h) \/ LoseProgram(h) PROVE Given'
  BY <1>17, <1>a DEF Fetch, LoseProgram, Lose, journal, Open, Uninstalled
<1>18. CASE UNCHANGED vars BY <1>18, <1>a DEF vars, storeVars, journal, Open, Uninstalled
<1> QED
  BY <1>1, <1>2, <1>3, <1>4, <1>5, <1>6, <1>7, <1>8, <1>9, <1>10, <1>11, <1>12, <1>13, <1>14,
     <1>15, <1>16, <1>17, <1>18 DEF Next

\* Every variable around the transaction keeps its type.
THEOREM TypeCorrectQ == Spec => []TypeQ
<1>1. Init => QInv BY InitGInv DEF GInv
<1>2. QInv => TypeQ BY DEF QInv
<1> QED BY <1>1, <1>2, StepQInv, PTL DEF Spec

\* A run that is over owes no restart it has not settled.
THEOREM Settled == Spec => []SettledAtEnd
<1>1. Init => QInv BY InitGInv DEF GInv
<1>2. QInv => SettledAtEnd BY DEF QInv
<1> QED BY <1>1, <1>2, StepQInv, PTL DEF Spec

\* Stopping, extracting, closing, refusing and resuming around a transaction
\* are steps of ActionStore, or none.
THEOREM Refinement == Spec => ImplementsStore
<1>1. Init => QInv BY InitGInv DEF GInv
<1>2. Init => StoreInit BY DEF Init
<1> QED BY <1>1, <1>2, StepQInv, StepImplements, PTL DEF Spec, StoreSpec, ImplementsStore

\* Until the transaction is over, what the session closed and nobody started
\* again is in the session.
Sessioned ==
  /\ stage \in {"stop", "resolve"} => shut = {}
  /\ stage \in {"begin", "transact"} => shut \subseteq closed
  /\ RestartedAfterTransaction

LEMMA StepSessioned == QInv /\ Sessioned /\ [Next]_vars => Sessioned'
<1> SUFFICES ASSUME QInv, Sessioned, [Next]_vars PROVE Sessioned' OBVIOUS
<1> USE DEF Sessioned, RestartedAfterTransaction, memory, apps, others
<1>1. CASE \/ \E exe \in Exes : StartRun(exe)
           \/ \E p \in {"installs", "uninstall"} : Prepare(p)
           \/ EndRun \/ CrashRun
  BY <1>1 DEF StartRun, Prepare, EndRun, CrashRun
<1>2. CASE \/ RecoverRun \/ Leave \/ Transact \/ User
           \/ \E h \in Hashes : Fetch(h) \/ LoseProgram(h)
  BY <1>2 DEF RecoverRun, Leave, Transact, User, Fetch, LoseProgram
<1>3. CASE \/ \E e \in Apps : StopApp(e) \/ NotRunning(e) \/ StopFails(e) \/ ResumeOne(e)
           \/ StopError \/ Resolve \/ ResolveFails
  BY <1>3 DEF StopApp, NotRunning, StopFails, ResumeOne, StopError, Resolve, ResolveFails
<1>4. CASE AcquireNothing \/ Acquire \/ OpenTransaction \/ OpenTransactionFails
  BY <1>4 DEF AcquireNothing, Acquire, OpenTransaction, OpenTransactionFails
<1>5. CASE Release BY <1>5 DEF Release, Restarted, QInv, TypeQ
<1>6. CASE SettleNothing \/ FinishSettling
  BY <1>6 DEF SettleNothing, FinishSettling, AllResumed, Resuming
<1>7. CASE UNCHANGED vars BY <1>7 DEF vars
<1> QED BY <1>1, <1>2, <1>3, <1>4, <1>5, <1>6, <1>7 DEF Next

\* Once the transaction is over, every holder the run closed and Windows can
\* restart has been restarted.
THEOREM Restarting == Spec => []RestartedAfterTransaction
<1>1. Init => QInv /\ Sessioned
  BY InitGInv DEF GInv, Init, Sessioned, RestartedAfterTransaction
<1>2. QInv /\ Sessioned /\ [Next]_vars => (QInv /\ Sessioned)' BY StepQInv, StepSessioned
<1>3. Sessioned => RestartedAfterTransaction BY DEF Sessioned
<1> QED BY <1>1, <1>2, <1>3, PTL DEF Spec

\* Whatever fails, is refused, rolled back or left open, and whichever resume
\* programs are gone or are not started, no run ends with an application
\* stopped that its report does not name, but for the one whose resolution
\* failed and for the applications of a product that is gone.
THEOREM NoneInSilence == Spec => []NoneLeftSilently
<1>1. GInv /\ [Next]_vars => GInv' BY StepQInv, StepGiven DEF GInv
<1>2. GInv => NoneLeftSilently BY DEF GInv, Given
<1> QED BY <1>1, <1>2, InitGInv, PTL DEF Spec

ChoicePages == {"Scope", "License", "Destination", "Options", "Ready", "Confirm"}

----------------------------------------------------------------------------
(* The session. *)

\* A refusal shows its page alone; everything else chooses, runs and tells.
\* The scope is chosen first, and the licence is asked for once.
Paged(p, refused) ==
  /\ p \in Seq(ChoicePages \cup {"Progress", "Finish"}) /\ Len(p) >= 1
  /\ \A i \in 1 .. Len(p) : p[i] = "Finish" <=> i = Len(p)
  /\ \A i \in 1 .. Len(p) : p[i] = "Progress" <=> i = Len(p) - 1
  /\ refused <=> Len(p) = 1
  /\ \A i, j \in 1 .. Len(p) : p[i] = "License" /\ p[j] = "License" => i = j
  /\ \A i \in 1 .. Len(p) : p[i] = "Scope" => i = 1

\* Where no page asks for the scope, the wizard was started with the rights
\* the one it is about needs, but for a copy that is about another scope.
Sound(s) ==
  /\ Paged(s.pages, s.refused)
  /\ s.refused \in BOOLEAN /\ s.scope \in Scopes /\ s.offered \subseteq Scopes
  /\ s.machine_needs_elevation \in BOOLEAN
  /\ s.scopePage \in {"choose", "select"} => "Scope" \in Range(s.pages)
  /\ s.kind = "fresh" => s.operation = "install"
  /\ s.served \in Scopes \cup {None}
  /\ "Scope" \notin Range(s.pages) /\ ~s.refused =>
       (s.scope = "machine" /\ s.machine_needs_elevation => s.served = "user")

\* The pages of the choices, as they are put together.
Choosing(p) ==
  /\ p \in Seq(ChoicePages)
  /\ \A i, j \in 1 .. Len(p) : p[i] = "License" /\ p[j] = "License" => i = j
  /\ \A i \in 1 .. Len(p) : p[i] = "Scope" => i = 1

Plain(p) == p \in Seq(ChoicePages \ {"Scope", "License"})

LEMMA Followed ==
  ASSUME NEW p, NEW q, Choosing(p), Plain(q)
  PROVE  /\ Choosing(p \o q)
         /\ Len(p) >= 1 => Len(p \o q) >= 1 /\ (p \o q)[1] = p[1]
  <1>1. p \in Seq(ChoicePages) /\ q \in Seq(ChoicePages) BY DEF Choosing, Plain
  <1>2. /\ p \o q \in Seq(ChoicePages) /\ Len(p \o q) = Len(p) + Len(q)
        /\ \A i \in 1 .. Len(p \o q) :
             (p \o q)[i] = IF i <= Len(p) THEN p[i] ELSE q[i - Len(p)]
    BY <1>1
  <1>3. \A i \in 1 .. Len(q) : q[i] \notin {"Scope", "License"} BY DEF Plain
  <1>4. \A i \in 1 .. Len(p \o q) :
          (p \o q)[i] \in {"Scope", "License"} => i \in 1 .. Len(p) /\ (p \o q)[i] = p[i]
    <2> SUFFICES ASSUME NEW i \in 1 .. Len(p \o q), (p \o q)[i] \in {"Scope", "License"}
                 PROVE  i \in 1 .. Len(p) /\ (p \o q)[i] = p[i]
      OBVIOUS
    <2>1. CASE i <= Len(p) BY <2>1, <1>1, <1>2
    <2>2. CASE i > Len(p)
      <3>1. i - Len(p) \in 1 .. Len(q) /\ (p \o q)[i] = q[i - Len(p)] BY <2>2, <1>1, <1>2
      <3> QED BY <3>1, <1>3
    <2> QED BY <2>1, <2>2, <1>1
  <1> QED BY <1>1, <1>2, <1>4 DEF Choosing

LEMMA Finished ==
  ASSUME NEW p, Choosing(p)
  PROVE  /\ Paged((p \o <<"Progress">>) \o <<"Finish">>, FALSE)
         /\ Len(p) >= 1 => ((p \o <<"Progress">>) \o <<"Finish">>)[1] = p[1]
  <1> DEFINE pages == (p \o <<"Progress">>) \o <<"Finish">>
  <1>1. p \in Seq(ChoicePages) BY DEF Choosing
  <1>2. /\ pages \in Seq(ChoicePages \cup {"Progress", "Finish"})
        /\ Len(pages) = Len(p) + 2 /\ Len(p) \in Nat
        /\ \A i \in 1 .. Len(p) : pages[i] = p[i] /\ p[i] \in ChoicePages
        /\ pages[Len(p) + 1] = "Progress" /\ pages[Len(p) + 2] = "Finish"
    BY <1>1
  <1> HIDE DEF pages
  <1>3. \A i \in 1 .. Len(pages) : i \in 1 .. Len(p) \/ i = Len(p) + 1 \/ i = Len(p) + 2
    BY <1>2
  <1>4. \A i \in 1 .. Len(p) : pages[i] \notin {"Progress", "Finish"}
    BY <1>2 DEF ChoicePages
  <1>5. \A i \in 1 .. Len(pages) : pages[i] \in {"License", "Scope"} => i \in 1 .. Len(p)
    BY <1>2, <1>3
  <1>6. \A i \in 1 .. Len(pages) : pages[i] = "Finish" <=> i = Len(pages)
    BY <1>2, <1>3, <1>4
  <1>7. \A i \in 1 .. Len(pages) : pages[i] = "Progress" <=> i = Len(pages) - 1
    BY <1>2, <1>3, <1>4
  <1>8. Paged(pages, FALSE) BY <1>2, <1>5, <1>6, <1>7 DEF Paged, Choosing
  <1>9. Len(p) >= 1 => pages[1] = p[1] BY <1>2
  <1> QED BY <1>8, <1>9 DEF pages

LEMMA PagesSound ==
  ASSUME NEW in, in.options \in Nat, NEW select \in BOOLEAN, NEW refused \in BOOLEAN, NEW kind,
         NEW describable \in BOOLEAN, NEW continuing \in BOOLEAN, NEW asksLicense \in BOOLEAN,
         select => ~refused
  PROVE  LET p == Pages(in, select, refused, kind, describable, continuing, asksLicense)
         IN  /\ Paged(p, refused)
             /\ \/ select
                \/ /\ ~refused /\ describable /\ kind \in {"fresh", "upgrade"}
                   /\ Len(in.scopes) > 1 /\ in.given = None
                => p[1] = "Scope"
  <1> DEFINE only(condition, page) == IF condition THEN <<page>> ELSE <<>>
             undecided == Len(in.scopes) > 1 /\ in.given = None
             options   == [i \in 1 .. in.options |-> "Options"]
             asked     == only(undecided, "Scope") \o only(asksLicense, "License")
             p == Pages(in, select, refused, kind, describable, continuing, asksLicense)
  <1>1. Choosing(<<>>) /\ Choosing(<<"Scope">>) /\ Choosing(<<"License">>) /\ Choosing(<<"Ready">>)
        /\ Choosing(<<"Confirm">>)
    BY DEF Choosing, ChoicePages
  <1>2. Plain(<<>>) /\ Plain(<<"Destination">>) /\ Plain(<<"Ready">>) /\ Plain(options)
    <2>1. options \in Seq({"Options"}) OBVIOUS
    <2> QED BY <2>1 DEF Plain, ChoicePages
  <1>3. Choosing(asked) /\ (undecided => Len(asked) >= 1 /\ asked[1] = "Scope")
    <2>1. CASE undecided /\ asksLicense
      <3> DEFINE both == <<"Scope">> \o <<"License">>
      <3>1. /\ both \in Seq(ChoicePages) /\ Len(both) = 2
            /\ both[1] = "Scope" /\ both[2] = "License"
        BY DEF ChoicePages
      <3>2. asked = both BY <2>1
      <3>3. Choosing(both)
        <4> HIDE DEF both
        <4> QED BY <3>1 DEF Choosing
      <3> QED BY <3>1, <3>2, <3>3
    <2>2. CASE ~(undecided /\ asksLicense)
      <3>1. /\ <<>> \o <<>> = <<>>
            /\ <<"Scope">> \o <<>> = <<"Scope">>
            /\ <<>> \o <<"License">> = <<"License">>
        <4>1. <<"Scope">> \in Seq(ChoicePages) /\ <<"License">> \in Seq(ChoicePages)
              /\ <<>> \in Seq(ChoicePages)
          BY DEF ChoicePages
        <4> QED BY <4>1, ConcatEmptySeq
      <3>2. asked \in {<<>>, <<"Scope">>, <<"License">>} /\ (undecided => asked = <<"Scope">>)
        <4>1. CASE undecided BY <2>2, <3>1, <4>1
        <4>2. CASE ~undecided BY <3>1, <4>2
        <4> QED BY <4>1, <4>2
      <3> HIDE DEF asked
      <3> QED BY <1>1, <3>2
    <2> QED BY <2>1, <2>2
  <1>4. CASE refused
    <2>1. p = (<<>> \o <<>>) \o <<"Finish">> BY <1>4 DEF Pages
    <2>2. p = <<"Finish">> BY <2>1
    <2>3. Paged(<<"Finish">>, TRUE) BY DEF Paged
    <2> QED BY <1>4, <2>2, <2>3
  <1>5. CASE ~refused
    <2> DEFINE fresh    == (asked \o <<"Destination">> \o options) \o <<"Ready">>
               upgrade  == (asked \o options) \o <<"Ready">>
               finished(c) == (c \o <<"Progress">>) \o <<"Finish">>
    <2>1. Choosing(fresh) /\ (undecided => Len(fresh) >= 1 /\ fresh[1] = "Scope")
      BY <1>2, <1>3, Followed
    <2>2. Choosing(upgrade) /\ (undecided => Len(upgrade) >= 1 /\ upgrade[1] = "Scope")
      BY <1>2, <1>3, Followed
    <2> HIDE DEF asked, options, undecided
    <2>3. CASE select
      <3>1. p = finished(<<"Scope">>) BY <1>5, <2>3 DEF Pages
      <3>2. Len(<<"Scope">>) >= 1 /\ <<"Scope">>[1] = "Scope" OBVIOUS
      <3>3. Paged(p, FALSE) /\ p[1] = "Scope" BY <1>1, <3>1, <3>2, Finished
      <3> QED BY <1>5, <3>3
    <2>4. CASE ~select /\ kind = "fresh" /\ describable
      <3>1. p = finished(fresh) BY <1>5, <2>4 DEF Pages, asked, options, undecided
      <3>2. Paged(p, FALSE) /\ (undecided => p[1] = "Scope") BY <2>1, <3>1, Finished
      <3> QED BY <1>5, <2>4, <3>2 DEF undecided
    <2>5. CASE ~select /\ kind = "upgrade" /\ describable
      <3>1. p = finished(upgrade) BY <1>5, <2>5 DEF Pages, asked, options, undecided
      <3>2. Paged(p, FALSE) /\ (undecided => p[1] = "Scope") BY <2>2, <3>1, Finished
      <3> QED BY <1>5, <2>5, <3>2 DEF undecided
    <2>6. CASE ~select /\ ~(kind \in {"fresh", "upgrade"} /\ describable)
      <3>1. \E c \in {<<>>, <<"Confirm">>, <<"Ready">>} : p = finished(c)
        BY <1>5, <2>6 DEF Pages
      <3> QED BY <1>1, <1>5, <2>6, <3>1, Finished
    <2> QED BY <2>3, <2>4, <2>5, <2>6
  <1> QED BY <1>4, <1>5

LEMMA Decided ==
  ASSUME NEW in \in Starts, NEW r \in Scopes \cup {None}
  PROVE  /\ default_scope(in) \in Scopes
         /\ decide(in, r) \in Scopes \cup {Conflict, Ambiguous}
         /\ r # None => decide(in, r) \in {r, Conflict}
         /\ Existing(in) = {} /\ r = None => decide(in, r) = default_scope(in)
         /\ \A s \in Scopes :
              Existing(in) = {s} /\ default_scope(in) = s /\ r = None => decide(in, r) = s
         /\ r = None /\ Existing(in) = Scopes => decide(in, r) = Ambiguous
  <1>1. in.scopes \in Seq(Scopes) /\ in.scopes # <<>> /\ in.served \in Scopes \cup {None}
    BY WizardAssumption
  <1>2. Head(in.scopes) \in Scopes BY <1>1
  <1>3. default_scope(in) \in Scopes BY <1>1, <1>2 DEF default_scope
  <1> DEFINE only == CHOOSE s \in Scopes : s \in Existing(in)
  <1>4. Existing(in) \subseteq Scopes /\ (Existing(in) # {} => only \in Existing(in))
    BY DEF Existing
  <1>5. None \notin Scopes /\ Conflict \notin Scopes /\ Ambiguous \notin Scopes /\ Conflict # Ambiguous
    BY WizardAssumption DEF Conflict, Ambiguous, Scopes
  <1>6. decide(in, r) =
          IF r # None
          THEN IF \/ r \in Existing(in) \/ Existing(in) = {}
                  \/ in.operation # "install" \/ in.policy = "allow-parallel"
               THEN r ELSE Conflict
          ELSE IF Existing(in) = {} THEN default_scope(in)
          ELSE IF Existing(in) = Scopes THEN Ambiguous
          ELSE IF only = default_scope(in) \/ in.policy # "error" THEN only ELSE Conflict
    BY DEF decide
  <1> HIDE DEF only
  <1>7. Scopes # {} /\ \A s \in Scopes : Scopes # {s} BY DEF Scopes
  <1> QED BY <1>3, <1>4, <1>5, <1>6, <1>7

LEMMA BuildSound ==
  ASSUME NEW in \in Starts, ~RelaunchFirst(in)
  PROVE  Sound(Build(in))
  <1> DEFINE s == Build(in)
             decision    == decide(in, Asked(in))
             scope       == IF decision \in Scopes THEN decision ELSE MainScope(in)
             select      == in.given = None /\ decision = Ambiguous
             refused     == ~select /\ decision \notin Scopes
             describable == scope \in Range(in.scopes)
             continuing  == describable /\ in.versions[scope] # None
             kind        == CASE in.operation = "uninstall" -> "uninstall"
                              [] in.operation = "repair" -> "repair"
                              [] OTHER -> IF continuing THEN "upgrade" ELSE "fresh"
             asksLicense == in.license /\ ~(continuing /\ in.accepted[scope])
             pages       == Pages(in, select, refused, kind, describable, continuing, asksLicense)
  <1>1. /\ in.scopes \in Seq(Scopes) /\ in.scopes # <<>> /\ in.options \in Nat
        /\ in.served \in Scopes \cup {None} /\ in.given \in Scopes \cup {None}
        /\ in.operation \in {"install", "uninstall", "repair"}
    BY WizardAssumption
  <1>2. None \notin Scopes /\ Conflict \notin Scopes /\ Ambiguous \notin Scopes /\ Conflict # Ambiguous
    BY WizardAssumption DEF Conflict, Ambiguous, Scopes
  <1>3. Requested(in) \in Scopes \cup {None} BY <1>1 DEF Requested
  <1>4. MainScope(in) \in Scopes BY <1>3, Decided DEF MainScope, Resolved
  <1>5. Asked(in) \in Scopes \cup {None} BY <1>4 DEF Asked
  <1>6. decision \in Scopes \cup {Conflict, Ambiguous} /\ scope \in Scopes
    BY <1>4, <1>5, Decided
  <1>7. /\ s.pages = pages /\ s.refused = refused /\ s.scope = scope /\ s.kind = kind
        /\ s.operation = in.operation /\ s.offered = Range(in.scopes) /\ s.served = in.served
        /\ s.machine_needs_elevation = needs_elevation(in, "machine")
        /\ s.scopePage = (IF "Scope" \notin Range(pages) THEN None
                          ELSE IF select THEN "select"
                          ELSE IF kind = "fresh" THEN "choose" ELSE "existing")
    BY DEF Build
  <1>8. /\ Paged(pages, refused)
        /\ \/ select
           \/ /\ ~refused /\ describable /\ kind \in {"fresh", "upgrade"}
              /\ Len(in.scopes) > 1 /\ in.given = None
           => pages[1] = "Scope"
    <2> HIDE DEF decision, scope, describable, continuing, kind
    <2>1. select \in BOOLEAN /\ refused \in BOOLEAN /\ (select => ~refused) OBVIOUS
    <2>2. describable \in BOOLEAN /\ continuing \in BOOLEAN /\ asksLicense \in BOOLEAN
      BY DEF describable, continuing
    <2> HIDE DEF select, refused, asksLicense
    <2> QED BY <1>1, <2>1, <2>2, PagesSound
  <1>9. Range(in.scopes) \subseteq Scopes BY <1>1 DEF Range
  <1>10. /\ kind = "fresh" => in.operation = "install"
         /\ in.operation = "install" => kind \in {"fresh", "upgrade"}
    BY <1>1
  <1>11. "Scope" \notin Range(pages) /\ ~refused =>
           (scope = "machine" /\ needs_elevation(in, "machine") => in.served = "user")
    <2> SUFFICES ASSUME "Scope" \notin Range(pages), ~refused,
                        scope = "machine", needs_elevation(in, "machine"), in.served # "user"
                 PROVE  FALSE
      OBVIOUS
    <2>1. pages[1] # "Scope"
      <3> HIDE DEF pages, refused
      <3>1. 1 \in DOMAIN pages BY <1>8 DEF Paged
      <3> QED BY <3>1 DEF Range
    <2>2. ~select BY <1>8, <2>1
    <2>3. decision \in Scopes /\ scope = decision BY <1>6, <2>2
    <2>4. describable BY DEF needs_elevation
    <2>5. in.given = None => Asked(in) = None /\ Requested(in) = in.served
      BY DEF Asked, Requested
    <2> HIDE DEF select, refused, describable, kind, pages
    <2>6. ~wizard_decides_scope(in)
      <3> SUFFICES ASSUME wizard_decides_scope(in) PROVE FALSE OBVIOUS
      <3>1. in.given = None /\ in.served = None BY DEF wizard_decides_scope
      <3>2. Resolved(in) = decision BY <2>5, <3>1 DEF Resolved
      <3>3. in.operation = "install" /\ Len(in.scopes) > 1
        BY <2>3, <3>2 DEF wizard_decides_scope
      <3> QED BY <1>8, <1>10, <2>1, <2>4, <3>1, <3>3
    <2>7. MainScope(in) # "machine" BY <2>6 DEF RelaunchFirst
    <2>8. CASE in.given # None
      <3>1. Asked(in) = MainScope(in) BY <2>8 DEF Asked
      <3>2. decision \in {MainScope(in), Conflict} BY <1>2, <1>4, <3>1, Decided
      <3> QED BY <1>2, <2>3, <2>7, <3>2
    <2>9. CASE in.given = None /\ in.served = None
      BY <2>3, <2>5, <2>7, <2>9 DEF MainScope, Resolved
    <2>10. CASE in.given = None /\ in.served # None
      <3>1. default_scope(in) = "machine" /\ in.served = "machine"
        BY <1>1, <2>10 DEF default_scope, Scopes
      <3>2. Requested(in) = "machine" /\ "machine" \in Scopes
        BY <2>5, <2>10, <3>1 DEF Scopes
      <3>3. Resolved(in) \in {"machine", Conflict} BY <1>2, <3>2, Decided DEF Resolved
      <3>4. MainScope(in) = "machine" BY <1>2, <3>1, <3>3 DEF MainScope
      <3> QED BY <2>7, <3>4
    <2> QED BY <2>8, <2>9, <2>10
  <1>12. needs_elevation(in, "machine") \in BOOLEAN /\ refused \in BOOLEAN
    BY DEF needs_elevation
  <1>13. s.scopePage \in {"choose", "select"} => "Scope" \in Range(pages)
    BY <1>7, WizardAssumption
  <1>14. in.served \in Scopes \cup {None} BY <1>1
  <1>15. Sound(s)
    <2> HIDE DEF s, pages, refused, scope, kind
    <2> QED BY <1>6, <1>7, <1>8, <1>9, <1>10, <1>11, <1>12, <1>13, <1>14 DEF Sound
  <1> QED BY <1>15

----------------------------------------------------------------------------
(* The invariant. *)

Texts == {"user", "machine", "custom", session.install_root}
Boxes == [box : {"cancel", "question", "report", "launch"}, answer : BOOLEAN \cup {None}]

UI == [page : 1 .. Len(session.pages), accepted : BOOLEAN, radio : Scopes, text : Texts,
       boxes : Seq(Boxes), enabled : BOOLEAN, visible : BOOLEAN, elevating : BOOLEAN,
       launching : BOOLEAN, quit : BOOLEAN, run : {"none", "running", "finished"},
       outcome : Results \cup {"refused", None}, exit : Results \cup {"refused", "elevation"}]

Engines == [state : {"none", "working", "asking", "asked", "ended"}, asks : Nat,
            cancel : BOOLEAN, close : BOOLEAN, scope : Scopes \cup {None},
            root : Texts \cup {None}, accepted : BOOLEAN]

Messages == [message : {"done", "started", "relaunched", "launched"},
             result : Results \cup {"elevation", None} \cup BOOLEAN]

Typed ==
  /\ Sound(session)
  /\ ui \in UI /\ engine \in Engines /\ inbox \in Seq(Messages)
  /\ loop \in {"starting", "open", "joining", "closed"}
  /\ child \in {"none", "prompt", "starting", "running"}
  /\ launcher \in {"none", "starting"}
  /\ typed \in {"user", "machine", "custom", None}
  /\ ended \in Results \cup {None}

\* The page tells how far the run is; a window that is gone was told to go.
Flow ==
  /\ Page(ui) = "Finish" <=> ui.run = "finished"
  /\ loop # "starting" => (Page(ui) = "Progress" <=> ui.run = "running")
  /\ loop = "starting" =>
       /\ ui.page = 1 /\ ui.run # "running" /\ ~ui.quit /\ ~ui.elevating /\ ui.boxes = <<>>
       /\ ui.enabled /\ inbox = <<>> /\ child = "none" /\ launcher = "none"
  /\ loop \in {"joining", "closed"} => ui.quit

Is(i, message) == i \in 1 .. Len(inbox) /\ inbox[i].message = message

\* The engine's thread is where the window takes the run to be, but for the
\* one message that tells its end.
Running ==
  /\ ui.run = "none" => engine.state = "none"
  /\ ui.run = "running" =>
       /\ engine.state # "none" /\ ~ui.quit
       /\ engine.state = "ended" <=> ended # None
  /\ ui.run = "finished" => engine.state \in {"none", "ended"}
  /\ \A i \in 1 .. Len(inbox) : Is(i, "done") =>
       ui.run = "running" /\ engine.state = "ended" /\ inbox[i].result = ended
  /\ \A i, j \in 1 .. Len(inbox) : Is(i, "done") /\ Is(j, "done") => i = j

\* A relaunch holds the page the scope is chosen on, without a box over it,
\* until the one message that tells its end.
Elevating ==
  /\ ui.elevating => /\ Page(ui) = "Scope" /\ ui.boxes = <<>> /\ ui.enabled /\ ~ui.quit
                     /\ loop = "open"
  /\ child # "none" =>
       ui.elevating /\ ended = None /\ \A i \in 1 .. Len(inbox) : ~Is(i, "relaunched")
  /\ \A i \in 1 .. Len(inbox) : Is(i, "relaunched") =>
       /\ ui.elevating /\ inbox[i].result \in Results \cup {"elevation"}
       /\ ended = IF inbox[i].result \in Results THEN inbox[i].result ELSE None
  /\ \A i, j \in 1 .. Len(inbox) : Is(i, "relaunched") /\ Is(j, "relaunched") => i = j

Launching ==
  /\ launcher # "none" => ui.run = "finished"
  /\ \A i \in 1 .. Len(inbox) : Is(i, "launched") => ui.run = "finished"

\* Before the run at most one box is open, and it holds the window.
Boxed ==
  /\ ui.run = "none" =>
       \/ ui.boxes = <<>> /\ ui.enabled
       \/ Len(ui.boxes) = 1 /\ ~ui.enabled /\ ui.boxes[1].box = "report" /\ ~ui.quit
  /\ \A i \in 1 .. Len(ui.boxes) :
       /\ ui.boxes[i].box = "launch" => ui.run = "finished"
       /\ ui.boxes[i].box = "question" => engine.state = "asked"
  /\ \A i, j \in 1 .. Len(ui.boxes) :
       ui.boxes[i].box = "question" /\ ui.boxes[j].box = "question" => i = j

\* The exit code is the end of the run, or the wizard still waits for one.
Answers ==
  /\ ui.run = "none" /\ ~ui.elevating =>
       IF ui.quit THEN ui.exit = (IF ended # None THEN ended ELSE "cancelled") ELSE ended = None
  /\ ui.run = "finished" =>
       IF session.refused THEN ui.exit = "refused" /\ ended = None
       ELSE ended # None /\ ui.exit = ended

\* What the pages behind this one chose.
Put == IF typed # None THEN typed ELSE session.install_root

Chosen ==
  /\ ui.accepted => "License" \in Range(session.pages)
  /\ \A i \in 1 .. Len(session.pages) :
       i < ui.page /\ session.pages[i] = "License" => ui.accepted
  /\ "Scope" \in Range(session.pages) /\ ui.page > 1 =>
       session.scopePage # "select" /\ ~needs_elevation_now(ui)
  /\ "Destination" \in Range(session.pages) =>
       \/ ui.text = Put
       \/ /\ Put \in session.offered /\ ui.text \in session.offered
          /\ chosen_scope(ui) \in session.offered => ui.text = chosen_scope(ui)

WInv == /\ Typed /\ Flow /\ Running /\ Elevating /\ Launching /\ Boxed /\ Answers /\ Chosen
        /\ StartedAsChosen

LEMMA Places ==
  ASSUME Typed
  PROVE  /\ Len(session.pages) \in Nat /\ Len(session.pages) >= 1
         /\ DOMAIN session.pages = 1 .. Len(session.pages)
         /\ FinishPage = Len(session.pages)
         /\ ui.page \in 1 .. Len(session.pages)
         /\ Page(ui) \in ChoicePages \cup {"Progress", "Finish"}
         /\ Page(ui) = "Finish" <=> ui.page = Len(session.pages)
         /\ Page(ui) = "Progress" <=> ui.page = Len(session.pages) - 1
         /\ Page(ui) = "Scope" => ui.page = 1
  <1>1. /\ session.pages \in Seq(ChoicePages \cup {"Progress", "Finish"})
        /\ Paged(session.pages, session.refused) /\ ui.page \in 1 .. Len(session.pages)
    BY DEF Typed, Sound, Paged, UI
  <1>2. /\ Len(session.pages) \in Nat /\ Len(session.pages) >= 1
        /\ DOMAIN session.pages = 1 .. Len(session.pages)
    BY <1>1 DEF Paged
  <1>3. FinishPage = Len(session.pages)
    <2>1. \A i \in DOMAIN session.pages : session.pages[i] = "Finish" <=> i = Len(session.pages)
      BY <1>1, <1>2 DEF Paged
    <2>2. Len(session.pages) \in DOMAIN session.pages BY <1>2
    <2> QED BY <2>1, <2>2 DEF FinishPage
  <1> QED BY <1>1, <1>2, <1>3 DEF Paged, Page

LEMMA InitWInv == WizardInit => WInv
  <1> SUFFICES ASSUME WizardInit PROVE WInv OBVIOUS
  <1>1. Sound(session) BY BuildSound DEF WizardInit
  <1>2. None \notin Scopes \cup Results \cup {"custom", "choose", "select"}
    BY WizardAssumption
  <1>3. Typed
    <2>1. session.scope \in Scopes /\ 1 \in 1 .. Len(session.pages) BY <1>1 DEF Sound, Paged
    <2> QED BY <1>1, <2>1 DEF WizardInit, Typed, UI, Engines, Idle, Texts, Results
  <1>4. /\ ui.page = 1 /\ ~ui.quit /\ ~ui.elevating /\ ui.boxes = <<>> /\ ui.enabled
        /\ ui.run = (IF session.refused THEN "finished" ELSE "none")
        /\ ui.exit = (IF session.refused THEN "refused" ELSE "cancelled")
        /\ ~ui.accepted /\ ui.text = session.install_root
        /\ loop = "starting" /\ inbox = <<>> /\ engine.state = "none"
        /\ child = "none" /\ launcher = "none" /\ typed = None /\ ended = None
    BY DEF WizardInit, Idle
  <1>5. Page(ui) = "Finish" <=> session.refused BY <1>1, <1>3, <1>4, Places DEF Sound, Paged
  <1> QED
    BY <1>2, <1>3, <1>4, <1>5, Places
       DEF WInv, Flow, Running, Elevating, Launching, Boxed, Answers, Chosen, Put, StartedAsChosen

\* What the pages chose is kept by whatever leaves the page and its fields.
LEMMA ChosenKept ==
  ASSUME Chosen, UNCHANGED <<session, typed>>, ui'.page = ui.page, ui'.accepted = ui.accepted,
         ui'.radio = ui.radio, ui'.text = ui.text
  PROVE  Chosen'
  <1>1. chosen_scope(ui)' = chosen_scope(ui) BY DEF chosen_scope
  <1>2. needs_elevation_now(ui)' = needs_elevation_now(ui) BY <1>1 DEF needs_elevation_now
  <1>3. Put' = Put BY DEF Put
  <1> QED BY <1>1, <1>2, <1>3 DEF Chosen

\* And so is what the run was started with.
LEMMA StartedKept ==
  ASSUME StartedAsChosen, UNCHANGED <<session, typed>>,
         \/ engine'.state = "none"
         \/ /\ engine.state # "none" /\ engine'.scope = engine.scope
            /\ engine'.root = engine.root /\ engine'.accepted = engine.accepted
  PROVE  StartedAsChosen'
  BY DEF StartedAsChosen

\* What a posted message, and one taken, makes of the messages there.
LEMMA Posted ==
  ASSUME inbox \in Seq(Messages), NEW m \in Messages, inbox' = Append(inbox, m)
  PROVE  /\ inbox' \in Seq(Messages)
         /\ \A i, kind : Is(i, kind)' =>
              \/ Is(i, kind) /\ inbox'[i] = inbox[i]
              \/ i = Len(inbox) + 1 /\ inbox'[i] = m /\ m.message = kind
  <1>1. /\ inbox' \in Seq(Messages) /\ Len(inbox') = Len(inbox) + 1 /\ Len(inbox) \in Nat
        /\ inbox'[Len(inbox) + 1] = m /\ \A i \in 1 .. Len(inbox) : inbox'[i] = inbox[i]
    OBVIOUS
  <1>2. \A i \in 1 .. Len(inbox') : i \in 1 .. Len(inbox) \/ i = Len(inbox) + 1 BY <1>1
  <1> QED BY <1>1, <1>2 DEF Is

LEMMA Taken ==
  ASSUME inbox \in Seq(Messages), inbox # <<>>, inbox' = Tail(inbox)
  PROVE  /\ inbox' \in Seq(Messages) /\ Head(inbox) \in Messages /\ Head(inbox) = inbox[1]
         /\ 1 \in 1 .. Len(inbox)
         /\ \A i, kind : Is(i, kind)' =>
              /\ Is(i + 1, kind) /\ inbox'[i] = inbox[i + 1]
              /\ i \in 1 .. Len(inbox') /\ i + 1 \in 1 .. Len(inbox) /\ i + 1 # 1
  <1>1. /\ inbox' \in Seq(Messages) /\ Head(inbox) \in Messages /\ Head(inbox) = inbox[1]
        /\ Len(inbox') = Len(inbox) - 1 /\ Len(inbox) \in Nat /\ Len(inbox) >= 1
        /\ \A i \in 1 .. Len(inbox') : inbox'[i] = inbox[i + 1]
    OBVIOUS
  <1> QED BY <1>1 DEF Is

\* Where the window thread does nothing.
LEMMA ThreadStep ==
  ASSUME WInv, EngineAsks \/ EngineEnds \/ ChildStarts \/ ChildEnds \/ LaunchEnds \/ Join
  PROVE  WInv'
  <1> USE DEF WInv
  <1>1. None \notin Scopes \cup Results /\ "elevation" \notin Results
    BY WizardAssumption DEF Results
  <1>2. CASE EngineAsks
    <2>1. /\ UNCHANGED <<session, ui, loop, inbox, child, launcher, typed, ended>>
          /\ engine.state = "working" /\ engine' = [engine EXCEPT !.state = "asking", !.asks = @ + 1]
      BY <1>2 DEF EngineAsks
    <2>2. /\ engine' \in Engines /\ engine'.state = "asking"
          /\ engine'.scope = engine.scope /\ engine'.root = engine.root
          /\ engine'.accepted = engine.accepted
      <3>1. engine \in Engines /\ engine.asks + 1 \in Nat BY DEF Typed, Engines
      <3> QED BY <2>1, <3>1 DEF Engines
    <2>3. Typed' BY <2>1, <2>2 DEF Typed, UI, Engines, Texts
    <2>4. StartedAsChosen' /\ Chosen' BY <2>1, <2>2, StartedKept, ChosenKept
    <2>5. Flow' /\ Launching' /\ Answers' BY <2>1 DEF Flow, Page, Launching, Is, Answers
    <2>6. Running' /\ Elevating' /\ Boxed'
      BY <2>1, <2>2 DEF Running, Is, Elevating, Page, Boxed
    <2> QED BY <2>3, <2>4, <2>5, <2>6
  <1>3. CASE EngineEnds
    <2>1. PICK result \in Results :
            /\ inbox' = Append(inbox, [message |-> "done", result |-> result]) /\ ended' = result
            /\ engine' = [engine EXCEPT !.state = "ended"]
            /\ engine.state = "working"
            /\ UNCHANGED <<session, ui, loop, child, launcher, typed>>
      BY <1>3 DEF EngineEnds, Post
    <2>2. /\ engine' \in Engines /\ engine'.state = "ended"
          /\ engine'.scope = engine.scope /\ engine'.root = engine.root
          /\ engine'.accepted = engine.accepted
      BY <2>1 DEF Typed, Engines
    <2>3. [message |-> "done", result |-> result] \in Messages BY DEF Messages
    <2>4. /\ inbox' \in Seq(Messages)
          /\ \A i : Is(i, "done")' =>
               Is(i, "done") \/ (i = Len(inbox) + 1 /\ inbox'[i].result = result)
          /\ \A i : Is(i, "relaunched")' => Is(i, "relaunched")
          /\ \A i : Is(i, "launched")' => Is(i, "launched")
      BY <2>1, <2>3, Posted DEF Typed
    <2>5. ui.run = "running" /\ loop # "starting" /\ ~ui.elevating /\ child = "none"
      BY <2>1 DEF Typed, UI, Running, Flow, Elevating
    <2>6. \A i : ~Is(i, "done") /\ ~Is(i, "relaunched")
      BY <2>1, <2>5 DEF Running, Elevating, Is
    <2>7. Typed' BY <2>1, <2>2, <2>4 DEF Typed, UI, Engines, Texts
    <2>8. StartedAsChosen' /\ Chosen' BY <2>1, <2>2, StartedKept, ChosenKept
    <2>9. Flow' /\ Boxed' /\ Answers' BY <2>1, <2>2, <2>5 DEF Flow, Page, Boxed, Answers
    <2>10. Running' BY <1>1, <2>1, <2>2, <2>4, <2>5, <2>6 DEF Running
    <2>11. Elevating' BY <2>1, <2>4, <2>5, <2>6 DEF Elevating
    <2>12. Launching' BY <2>1, <2>4 DEF Launching, Is
    <2> QED BY <2>7, <2>8, <2>9, <2>10, <2>11, <2>12
  <1>4. CASE ChildStarts \/ ChildEnds
    <2>1. /\ UNCHANGED <<session, ui, loop, engine, launcher, typed>>
          /\ child # "none" /\ child' \in {"none", "running"}
      BY <1>4 DEF ChildStarts, ChildEnds
    <2>2. /\ ui.elevating /\ loop = "open" /\ ui.run = "none" /\ ended = None
          /\ \A i : ~Is(i, "relaunched") /\ ~Is(i, "done") /\ ~Is(i, "launched")
      <3>1. ui.elevating /\ loop = "open" /\ Page(ui) = "Scope" /\ ended = None
        BY <2>1 DEF Elevating
      <3>2. ui.run = "none" BY <3>1 DEF Typed, UI, Flow
      <3> QED BY <2>1, <3>1, <3>2 DEF Elevating, Running, Launching, Is
    <2>3. /\ inbox' \in Seq(Messages)
          /\ \A i : Is(i, "done")' => Is(i, "done")
          /\ \A i : Is(i, "launched")' => Is(i, "launched")
          /\ \/ /\ child' = "running" /\ ended' = None
                /\ \A i : Is(i, "relaunched")' => Is(i, "relaunched")
             \/ /\ child' = "none"
                /\ \E result \in Results \cup {"elevation"} :
                     /\ ended' = IF result \in Results THEN result ELSE None
                     /\ \A i : Is(i, "relaunched")' =>
                          i = Len(inbox) + 1 /\ inbox'[i].result = result
      <3>1. CASE ChildStarts /\ child' = "running"
        <4>1. ended' = ended /\ \/ UNCHANGED inbox
                                \/ inbox' = Append(inbox, [message |-> "started", result |-> None])
          BY <3>1 DEF ChildStarts, Post
        <4>2. [message |-> "started", result |-> None] \in Messages BY DEF Messages
        <4>3. CASE inbox' = Append(inbox, [message |-> "started", result |-> None])
          BY <2>2, <3>1, <4>1, <4>2, <4>3, Posted DEF Typed
        <4>4. CASE UNCHANGED inbox BY <2>2, <3>1, <4>1, <4>4 DEF Typed, Is
        <4> QED BY <4>1, <4>3, <4>4
      <3>2. ASSUME NEW result \in Results \cup {"elevation"}, child' = "none",
                   inbox' = Append(inbox, [message |-> "relaunched", result |-> result]),
                   ended' = IF result \in Results THEN result ELSE None
            PROVE  /\ inbox' \in Seq(Messages)
                   /\ \A i : Is(i, "done")' => Is(i, "done")
                   /\ \A i : Is(i, "launched")' => Is(i, "launched")
                   /\ \A i : Is(i, "relaunched")' =>
                        i = Len(inbox) + 1 /\ inbox'[i].result = result
        <4>1. [message |-> "relaunched", result |-> result] \in Messages BY DEF Messages
        <4>2. /\ inbox' \in Seq(Messages)
              /\ \A i : Is(i, "done")' => Is(i, "done")
              /\ \A i : Is(i, "launched")' => Is(i, "launched")
              /\ \A i : Is(i, "relaunched")' =>
                   Is(i, "relaunched") \/ (i = Len(inbox) + 1 /\ inbox'[i].result = result)
          BY <3>2, <4>1, Posted DEF Typed
        <4> QED BY <2>2, <3>2, <4>2
      <3>3. CASE ChildStarts /\ child' # "running"
        BY <1>1, <2>2, <3>2, <3>3 DEF ChildStarts, Post
      <3>4. CASE ChildEnds BY <3>2, <3>4 DEF ChildEnds, Post
      <3> QED BY <1>4, <3>1, <3>3, <3>4
    <2>4. ended' \in Results \cup {None} BY <2>3
    <2>5. Typed' BY <2>1, <2>3, <2>4 DEF Typed, UI, Engines, Texts
    <2>6. StartedAsChosen' /\ Chosen' BY <2>1, <2>2, StartedKept, ChosenKept DEF Running
    <2>7. Flow' /\ Boxed' /\ Answers' BY <2>1, <2>2 DEF Flow, Page, Boxed, Answers
    <2>8. Running' BY <2>1, <2>2, <2>3 DEF Running
    <2>9. Elevating' BY <2>1, <2>2, <2>3 DEF Elevating, Page
    <2>10. Launching' BY <2>1, <2>2, <2>3 DEF Launching
    <2> QED BY <2>5, <2>6, <2>7, <2>8, <2>9, <2>10
  <1>5. CASE LaunchEnds
    <2>1. PICK started \in BOOLEAN :
            /\ inbox' = Append(inbox, [message |-> "launched", result |-> started])
            /\ launcher = "starting" /\ launcher' = "none"
            /\ UNCHANGED <<session, ui, loop, engine, child, typed, ended>>
      BY <1>5 DEF LaunchEnds, Post
    <2>2. [message |-> "launched", result |-> started] \in Messages BY DEF Messages
    <2>3. /\ inbox' \in Seq(Messages)
          /\ \A i : Is(i, "done")' => Is(i, "done") /\ inbox'[i] = inbox[i]
          /\ \A i : Is(i, "relaunched")' => Is(i, "relaunched") /\ inbox'[i] = inbox[i]
      BY <2>1, <2>2, Posted DEF Typed
    <2>4. ui.run = "finished" /\ loop # "starting" BY <2>1 DEF Launching, Flow
    <2>5. Typed' BY <2>1, <2>3 DEF Typed, UI, Engines, Texts
    <2>6. StartedAsChosen' /\ Chosen' BY <2>1, StartedKept, ChosenKept
    <2>7. Flow' /\ Boxed' /\ Answers' /\ Launching'
      BY <2>1, <2>4 DEF Flow, Page, Boxed, Answers, Launching
    <2>8. Running' BY <2>1, <2>3, <2>4 DEF Running, Is
    <2>9. Elevating' BY <2>1, <2>3 DEF Elevating, Page, Is
    <2> QED BY <2>5, <2>6, <2>7, <2>8, <2>9
  <1>6. CASE Join
    <2>1. /\ UNCHANGED <<session, ui, inbox, engine, child, launcher, typed, ended>>
          /\ loop = "joining" /\ loop' = "closed"
      BY <1>6 DEF Join
    <2>2. Typed' BY <2>1 DEF Typed, UI, Engines, Texts
    <2>3. StartedAsChosen' /\ Chosen' BY <2>1, StartedKept, ChosenKept
    <2>4. Flow' /\ Running' /\ Launching' /\ Answers'
      BY <2>1 DEF Flow, Page, Running, Is, Launching, Answers
    <2>5. Elevating' /\ Boxed' BY <2>1 DEF Elevating, Page, Is, Boxed
    <2> QED BY <2>2, <2>3, <2>4, <2>5
  <1> QED BY <1>2, <1>3, <1>4, <1>5, <1>6

----------------------------------------------------------------------------
(* The window thread. *)

LEMMA EnteredChosen ==
  ASSUME Chosen, UNCHANGED <<session, typed>>, ui'.accepted = ui.accepted,
         ui'.radio = ui.radio, ui'.text = ui.text,
         \A j \in 1 .. Len(session.pages) :
           j < ui'.page /\ session.pages[j] = "License" => ui.accepted,
         "Scope" \in Range(session.pages) /\ ui'.page > 1 =>
           session.scopePage # "select" /\ ~needs_elevation_now(ui)
  PROVE  Chosen'
  <1>1. chosen_scope(ui)' = chosen_scope(ui) BY DEF chosen_scope
  <1>2. needs_elevation_now(ui)' = needs_elevation_now(ui) BY <1>1 DEF needs_elevation_now
  <1>3. Put' = Put BY DEF Put
  <1> QED BY <1>1, <1>2, <1>3 DEF Chosen

\* Entering Progress before the run starts it, as the pages behind chose; any
\* other page of the choices does not.
LEMMA Entered ==
  ASSUME WInv, NEW u, NEW i \in 1 .. Len(session.pages) - 1,
         u = enter_page(ui, i), Handle(u), UNCHANGED <<session, inbox, typed, ended>>,
         loop' = "open", ui.run = "none", ~ui.elevating, ~ui.quit, ui.enabled,
         \A j \in 1 .. Len(session.pages) :
           j < i /\ session.pages[j] = "License" => ui.accepted,
         "Scope" \in Range(session.pages) /\ i > 1 =>
           session.scopePage # "select" /\ ~needs_elevation_now(ui)
  PROVE  WInv'
  <1> USE DEF WInv
  <1>1. /\ ui' = [ui EXCEPT !.page = i, !.run = IF session.pages[i] = "Progress" THEN "running" ELSE @]
        /\ child' = child /\ launcher' = launcher
    BY DEF Handle, enter_page, Typed, UI
  <1>2. /\ ui' \in UI /\ ui'.page = i
        /\ ui'.run = (IF session.pages[i] = "Progress" THEN "running" ELSE "none")
        /\ ui'.accepted = ui.accepted /\ ui'.radio = ui.radio /\ ui'.text = ui.text
        /\ ui'.boxes = ui.boxes /\ ui'.enabled /\ ~ui'.elevating /\ ~ui'.quit
        /\ ui'.exit = ui.exit
    <2>1. i \in 1 .. Len(session.pages) /\ ui \in UI BY Places DEF Typed
    <2> QED BY <1>1, <2>1 DEF UI
  <1>3. /\ Len(session.pages) \in Nat /\ i \in 1 .. Len(session.pages) /\ i # Len(session.pages)
        /\ session.pages[i] = "Progress" <=> i = Len(session.pages) - 1
        /\ session.pages[i] # "Finish"
    <2>1. /\ Len(session.pages) \in Nat /\ i \in 1 .. Len(session.pages)
          /\ i # Len(session.pages)
      BY Places
    <2>2. Paged(session.pages, session.refused) BY DEF Typed, Sound
    <2> HIDE DEF WInv
    <2> QED BY <2>1, <2>2 DEF Paged
  <1>4. /\ ui.boxes = <<>> /\ engine.state = "none" /\ child = "none" /\ launcher = "none"
        /\ ended = None
        /\ \A k : ~Is(k, "done") /\ ~Is(k, "relaunched") /\ ~Is(k, "launched")
    BY DEF Typed, UI, Boxed, Running, Elevating, Launching, Answers, Is
  <1>5. /\ "License" \in Range(session.pages) /\ session.pages[i] = "Progress" => ui.accepted
        /\ ~session.refused
    <2>1. Paged(session.pages, session.refused) /\ Len(session.pages) > 1
      BY <1>3 DEF Typed, Sound
    <2>2. ASSUME "License" \in Range(session.pages), session.pages[i] = "Progress" PROVE ui.accepted
      <3>1. PICK j \in 1 .. Len(session.pages) : session.pages[j] = "License"
        BY <2>2, Places DEF Range
      <3>2. j # i /\ j # Len(session.pages) BY <1>3, <2>1, <2>2, <3>1 DEF Paged
      <3> QED BY <1>3, <2>2, <3>1, <3>2
    <2> QED BY <2>1, <2>2 DEF Paged
  <1>6. CASE session.pages[i] = "Progress"
    <2>1. engine' = [Idle EXCEPT !.state = "working", !.scope = chosen_scope(u),
                                 !.accepted = u.accepted,
                                 !.root = IF session.operation = "install" THEN chosen_root(u)
                                          ELSE None]
      BY <1>1, <1>2, <1>6 DEF Handle
    <2>2. /\ chosen_scope(u) = chosen_scope(ui) /\ chosen_root(u) = chosen_root(ui)
          /\ u.accepted = ui.accepted
      BY DEF enter_page, chosen_scope, chosen_root, Typed, UI
    <2>3. chosen_scope(ui) \in Scopes /\ chosen_root(ui) \in Texts
      BY DEF chosen_scope, chosen_root, Typed, UI, Sound, Texts
    <2>4. /\ engine' \in Engines /\ engine'.state = "working" /\ engine'.scope = chosen_scope(ui)
          /\ engine'.accepted = ui.accepted
          /\ engine'.root = IF session.operation = "install" THEN chosen_root(ui) ELSE None
      BY <2>1, <2>2, <2>3 DEF Idle, Engines, Typed, UI
    <2>5. Typed' BY <1>1, <1>2, <2>4 DEF Typed, UI, Engines, Texts
    <2>6. StartedAsChosen'
      <3>1. ui.accepted <=> "License" \in Range(session.pages) BY <1>5, <1>6 DEF Chosen
      <3>2. /\ chosen_scope(ui) = "machine" /\ session.machine_needs_elevation
                 => session.served = "user"
            /\ session.scopePage # "select"
        <4>1. CASE "Scope" \in Range(session.pages)
          <5>1. i > 1
            <6>1. PICK j \in 1 .. Len(session.pages) : session.pages[j] = "Scope"
              BY <4>1, Places DEF Range
            <6>2. j = 1 /\ i # 1 BY <1>6, <6>1 DEF Typed, Sound, Paged
            <6> QED BY <1>3, <6>2
          <5> QED BY <4>1, <5>1 DEF needs_elevation_now
        <4>2. CASE "Scope" \notin Range(session.pages)
          BY <1>5, <4>2 DEF Typed, Sound, chosen_scope
        <4> QED BY <4>1, <4>2
      <3>3. ASSUME session.kind = "fresh", "Destination" \in Range(session.pages)
            PROVE  \/ engine'.root = Put
                   \/ Put \in session.offered /\ engine'.root = engine'.scope
        <4>1. engine'.root = ui.text BY <2>4, <3>3 DEF Typed, Sound, chosen_root
        <4>2. session.offered \subseteq {"user", "machine"} /\ chosen_scope(ui) \in {"user", "machine"}
          BY <2>3 DEF Typed, Sound, Scopes
        <4> QED BY <2>4, <3>3, <4>1, <4>2 DEF Chosen
      <3> QED BY <2>4, <3>1, <3>2, <3>3 DEF StartedAsChosen, Put
    <2>7. Flow' /\ Running' /\ Elevating'
      BY <1>1, <1>2, <1>3, <1>4, <1>6, <2>4 DEF Flow, Page, Running, Elevating, Is
    <2>8. Launching' /\ Boxed' /\ Answers'
      BY <1>1, <1>2, <1>4, <1>6, <2>4 DEF Launching, Boxed, Answers, Is
    <2> QED BY <1>2, <2>5, <2>6, <2>7, <2>8, EnteredChosen
  <1>7. CASE session.pages[i] # "Progress"
    <2>1. engine' = engine BY <1>1, <1>2, <1>7 DEF Handle
    <2>2. Typed' BY <1>1, <1>2, <2>1 DEF Typed, UI, Engines, Texts
    <2>3. StartedAsChosen' BY <1>4, <2>1, StartedKept
    <2>4. Flow' /\ Running' /\ Elevating'
      BY <1>1, <1>2, <1>3, <1>4, <1>7, <2>1 DEF Flow, Page, Running, Elevating, Is
    <2>5. Launching' /\ Boxed' /\ Answers'
      BY <1>1, <1>2, <1>4, <1>7, <2>1 DEF Launching, Boxed, Answers, Is
    <2> QED BY <1>2, <2>2, <2>3, <2>4, <2>5, EnteredChosen
  <1> QED BY <1>6, <1>7

LEMMA ShowStep == ASSUME WInv, Show PROVE WInv'
  <1> DEFINE u == enter_page(ui, 1)
  <1>1. /\ loop = "starting" /\ loop' = "open" /\ Handle(u)
        /\ UNCHANGED <<session, inbox, typed, ended>>
    BY DEF Show
  <1>2. /\ Typed /\ Flow /\ Running /\ Elevating /\ Launching /\ Boxed /\ Answers /\ Chosen
        /\ StartedAsChosen
    BY DEF WInv
  <1>3. /\ ui.page = 1 /\ ui.run # "running" /\ ~ui.quit /\ ~ui.elevating /\ ui.boxes = <<>>
        /\ ui.enabled /\ (Page(ui) = "Finish" <=> ui.run = "finished") /\ ui \in UI
    BY <1>1, <1>2 DEF Flow, Typed
  <1>4. /\ Len(session.pages) \in Nat /\ Len(session.pages) >= 1
        /\ Page(ui) = session.pages[1] /\ (Page(ui) = "Finish" <=> 1 = Len(session.pages))
    BY <1>2, <1>3, Places DEF Page
  <1>5. CASE session.pages[1] = "Finish"
    <2>1. ui.run = "finished" BY <1>3, <1>4, <1>5
    <2>2. u \in UI /\ u = ui BY <1>3, <1>5, <2>1 DEF enter_page, UI
    <2>3. UNCHANGED <<ui, engine, child, launcher>> BY <1>1, <2>1, <2>2 DEF Handle
    <2>4. Typed' BY <1>1, <1>2, <2>3 DEF Typed, UI, Engines, Texts
    <2>5. StartedAsChosen' /\ Chosen' BY <1>1, <1>2, <2>3, StartedKept, ChosenKept
    <2>6. Flow' /\ Running' /\ Launching' /\ Answers'
      BY <1>1, <1>2, <1>3, <1>4, <1>5, <2>1, <2>3 DEF Flow, Page, Running, Is, Launching, Answers
    <2>7. Elevating' /\ Boxed' BY <1>1, <1>2, <2>3 DEF Elevating, Page, Is, Boxed
    <2> QED BY <2>4, <2>5, <2>6, <2>7 DEF WInv
  <1>6. CASE session.pages[1] # "Finish"
    <2>1. 1 \in 1 .. Len(session.pages) - 1 /\ ui.run = "none"
      <3>1. ui.run \in {"none", "running", "finished"} /\ Page(ui) # "Finish"
        BY <1>3, <1>4, <1>6 DEF UI
      <3>2. PICK n \in Nat : n = Len(session.pages) BY <1>4
      <3>3. n >= 1 /\ n # 1 BY <1>4, <3>1, <3>2
      <3>4. 1 \in 1 .. n - 1 BY <3>3
      <3> QED BY <1>3, <3>1, <3>2, <3>4
    <2>2. \A j \in 1 .. Len(session.pages) : j < 1 /\ session.pages[j] = "License" => ui.accepted
      BY <1>4
    <2>3. "Scope" \in Range(session.pages) /\ 1 > 1 =>
            session.scopePage # "select" /\ ~needs_elevation_now(ui)
      OBVIOUS
    <2> HIDE DEF u
    <2> QED BY <1>1, <1>3, <2>1, <2>2, <2>3, Entered DEF u
  <1> QED BY <1>5, <1>6

\* A box that opens, one that is answered, and the last that closes.
LEMMA BoxOpens ==
  ASSUME NEW bs \in Seq(Boxes), NEW kind \in {"cancel", "question", "report", "launch"}
  PROVE  LET cs == Append(bs, [box |-> kind, answer |-> None])
         IN  /\ cs \in Seq(Boxes) /\ Len(cs) = Len(bs) + 1 /\ cs # <<>>
             /\ cs[Len(cs)].box = kind
             /\ \A i \in 1 .. Len(cs) : i # Len(cs) => i \in 1 .. Len(bs) /\ cs[i] = bs[i]
  <1> DEFINE b == [box |-> kind, answer |-> None]
  <1>1. b \in Boxes /\ b.box = kind BY DEF Boxes
  <1> HIDE DEF b
  <1> QED BY <1>1 DEF b

LEMMA BoxAnswered ==
  ASSUME NEW bs \in Seq(Boxes), NEW n \in 1 .. Len(bs), NEW answer \in BOOLEAN
  PROVE  LET cs == [bs EXCEPT ![n].answer = answer]
         IN  /\ cs \in Seq(Boxes) /\ Len(cs) = Len(bs)
             /\ \A i \in 1 .. Len(bs) : cs[i].box = bs[i].box
  <1> DEFINE b == [bs[n] EXCEPT !.answer = answer]
             cs == [bs EXCEPT ![n] = b]
  <1>1. b \in Boxes /\ b.box = bs[n].box
    <2>1. bs[n] \in Boxes OBVIOUS
    <2> QED BY <2>1 DEF Boxes
  <1> HIDE DEF b
  <1>2. /\ cs \in Seq(Boxes) /\ Len(cs) = Len(bs)
        /\ \A i \in 1 .. Len(bs) : cs[i] = IF i = n THEN b ELSE bs[i]
    BY <1>1
  <1> QED BY <1>1, <1>2 DEF b

LEMMA BoxCloses ==
  ASSUME NEW bs \in Seq(Boxes), bs # <<>>
  PROVE  /\ Front(bs) \in Seq(Boxes) /\ Len(Front(bs)) = Len(bs) - 1
         /\ \A i \in 1 .. Len(Front(bs)) :
              i \in 1 .. Len(bs) /\ i # Len(bs) /\ Front(bs)[i] = bs[i]
         /\ Len(bs) \in 1 .. Len(bs) /\ Last(bs) = bs[Len(bs)] /\ Last(bs) \in Boxes
  <1>1. Len(bs) \in Nat /\ Len(bs) >= 1 OBVIOUS
  <1>2. /\ Front(bs) \in Seq(Boxes) /\ Len(Front(bs)) = Len(bs) - 1
        /\ \A i \in 1 .. Len(bs) - 1 : Front(bs)[i] = bs[i]
    <2>1. PICK n \in Nat : n = Len(bs) - 1 BY <1>1
    <2>2. /\ Front(bs) = SubSeq(bs, 1, n) /\ Len(bs) = n + 1
          /\ \A i \in 1 .. n : bs[i] \in Boxes
      BY <1>1, <2>1 DEF Front
    <2>3. /\ SubSeq(bs, 1, n) \in Seq(Boxes)
          /\ Len(SubSeq(bs, 1, n)) = IF 1 <= n THEN n - 1 + 1 ELSE 0
          /\ \A i \in 1 .. n - 1 + 1 : SubSeq(bs, 1, n)[i] = bs[1 + i - 1]
      BY <2>2, SubSeqProperties
    <2>4. /\ Len(SubSeq(bs, 1, n)) = n
          /\ \A i \in 1 .. n : SubSeq(bs, 1, n)[i] = bs[i]
      BY <2>3
    <2> QED BY <2>1, <2>2, <2>3, <2>4
  <1> QED BY <1>1, <1>2 DEF Last

\* A step that leaves the page, what was chosen and the run where they are.
LEMMA Stays ==
  ASSUME WInv, loop = "open", loop' = "open", UNCHANGED <<session, inbox, typed, ended>>,
         ui'.page = ui.page, ui'.accepted = ui.accepted, ui'.radio = ui.radio,
         ui'.text = ui.text, ui'.run = ui.run,
         launcher' # "none" => launcher # "none" \/ ui.run = "finished"
  PROVE  /\ Page(ui)' = Page(ui) /\ Flow' /\ Chosen' /\ Launching'
         /\ \A i, kind : Is(i, kind)' <=> Is(i, kind)
  <1>1. Page(ui)' = Page(ui) /\ \A i, kind : Is(i, kind)' <=> Is(i, kind) BY DEF Page, Is
  <1> QED BY <1>1, ChosenKept DEF WInv, Flow, Launching

LEMMA QuestionStep == ASSUME WInv, Question PROVE WInv'
  <1>1. /\ Typed /\ Flow /\ Running /\ Elevating /\ Launching /\ Boxed /\ Answers /\ Chosen
        /\ StartedAsChosen
    BY DEF WInv
  <1>2. /\ loop = "open" /\ loop' = "open" /\ UNCHANGED <<session, inbox, child, launcher, typed, ended>>
        /\ engine.state = "asking" /\ engine' = [engine EXCEPT !.state = "asked"]
        /\ ui' = ask(ui, "question")
    BY DEF Question, Pumps
  <1>3. /\ engine' \in Engines /\ engine'.state = "asked" /\ engine'.scope = engine.scope
        /\ engine'.root = engine.root /\ engine'.accepted = engine.accepted
    BY <1>1, <1>2 DEF Typed, Engines
  <1>4. /\ ui.run = "running" /\ Page(ui) = "Progress" /\ ~ui.elevating /\ child = "none"
        /\ ui \in UI /\ ui.boxes \in Seq(Boxes)
    BY <1>1, <1>2 DEF Typed, UI, Running, Flow, Elevating
  <1>5. /\ ui' \in UI /\ ui' = [ui EXCEPT !.boxes = ui'.boxes, !.enabled = FALSE]
        /\ ui'.boxes = Append(ui.boxes, [box |-> "question", answer |-> None])
    <2>1. Append(ui.boxes, [box |-> "question", answer |-> None]) \in Seq(Boxes)
      BY <1>4, BoxOpens
    <2> QED BY <1>2, <1>4, <2>1 DEF UI, ask
  <1>6. /\ Len(ui'.boxes) = Len(ui.boxes) + 1
        /\ \A i \in 1 .. Len(ui'.boxes) : i # Len(ui'.boxes) =>
             i \in 1 .. Len(ui.boxes) /\ ui'.boxes[i] = ui.boxes[i]
    BY <1>4, <1>5, BoxOpens
  <1>7. /\ ui'.page = ui.page /\ ui'.accepted = ui.accepted /\ ui'.radio = ui.radio
        /\ ui'.text = ui.text /\ ui'.run = ui.run /\ ui'.quit = ui.quit /\ ui'.exit = ui.exit
        /\ ui'.elevating = ui.elevating
    BY <1>4, <1>5 DEF UI
  <1>8. Typed' BY <1>1, <1>2, <1>3, <1>5 DEF Typed, UI, Engines, Texts
  <1>9. /\ Page(ui)' = Page(ui) /\ Flow' /\ Chosen' /\ Launching'
        /\ \A i, kind : Is(i, kind)' <=> Is(i, kind)
    BY <1>2, <1>7, Stays
  <1>10. StartedAsChosen' BY <1>1, <1>2, <1>3, StartedKept
  <1>11. Running' BY <1>1, <1>2, <1>3, <1>4, <1>7, <1>9 DEF Running
  <1>12. Elevating' /\ Answers' BY <1>1, <1>2, <1>4, <1>7, <1>9 DEF Elevating, Answers
  <1>13. Boxed'
    <2>1. \A i \in 1 .. Len(ui.boxes) : ui.boxes[i].box # "question" BY <1>1, <1>2 DEF Boxed
    <2>2. \A i \in 1 .. Len(ui'.boxes) :
            /\ ui'.boxes[i].box = "launch" => ui.run = "finished"
            /\ ui'.boxes[i].box = "question" => i = Len(ui'.boxes)
      <3> SUFFICES ASSUME NEW i \in 1 .. Len(ui'.boxes)
                   PROVE  /\ ui'.boxes[i].box = "launch" => ui.run = "finished"
                          /\ ui'.boxes[i].box = "question" => i = Len(ui'.boxes)
        OBVIOUS
      <3>1. ui'.boxes[Len(ui'.boxes)].box = "question" BY <1>4, <1>5, BoxOpens
      <3> QED BY <1>1, <1>6, <2>1, <3>1 DEF Boxed
    <2> QED BY <1>3, <1>4, <1>7, <2>2 DEF Boxed
  <1> QED BY <1>8, <1>9, <1>10, <1>11, <1>12, <1>13 DEF WInv

LEMMA QuitStep == ASSUME WInv, Quit PROVE WInv'
  <1>1. /\ Typed /\ Flow /\ Running /\ Elevating /\ Launching /\ Boxed /\ Answers /\ Chosen
        /\ StartedAsChosen
    BY DEF WInv
  <1>2. /\ loop = "open" /\ UNCHANGED <<session, inbox, engine, child, launcher, typed, ended>>
        /\ ui.quit /\ ~ui.elevating /\ child = "none"
    BY <1>1 DEF Quit, Pumps, Elevating
  <1>3. StartedAsChosen' BY <1>1, <1>2, StartedKept
  <1>4. CASE loop' = "joining" /\ UNCHANGED ui
    <2>1. Typed' BY <1>1, <1>2, <1>4 DEF Typed, UI, Engines, Texts
    <2>2. Flow' /\ Running' /\ Launching' /\ Answers'
      BY <1>1, <1>2, <1>4 DEF Flow, Page, Running, Is, Launching, Answers
    <2>3. Elevating' /\ Boxed' /\ Chosen'
      BY <1>1, <1>2, <1>4, ChosenKept DEF Elevating, Is, Boxed
    <2> QED BY <1>3, <2>1, <2>2, <2>3 DEF WInv
  <1>5. ASSUME ui.boxes # <<>>, loop' = "open", NEW answer \in BOOLEAN,
               ui' = [ui EXCEPT !.quit = FALSE, !.boxes[Len(ui.boxes)].answer = answer]
        PROVE  WInv'
    <2>1. ui \in UI /\ ui.boxes \in Seq(Boxes) /\ Len(ui.boxes) \in 1 .. Len(ui.boxes)
      BY <1>1, <1>5 DEF Typed, UI
    <2> DEFINE cs == [ui.boxes EXCEPT ![Len(ui.boxes)].answer = answer]
    <2>2. /\ cs \in Seq(Boxes) /\ Len(cs) = Len(ui.boxes)
          /\ \A i \in 1 .. Len(ui.boxes) : cs[i].box = ui.boxes[i].box
      BY <2>1, BoxAnswered
    <2>3. ui' = [ui EXCEPT !.quit = FALSE, !.boxes = cs] BY <1>5, <2>1 DEF UI
    <2> HIDE DEF cs
    <2>4. /\ ui' \in UI /\ ui'.boxes = cs /\ ~ui'.quit
          /\ ui'.page = ui.page /\ ui'.accepted = ui.accepted /\ ui'.radio = ui.radio
          /\ ui'.text = ui.text /\ ui'.run = ui.run /\ ui'.exit = ui.exit
          /\ ui'.elevating = ui.elevating
      BY <2>1, <2>2, <2>3 DEF UI
    <2>5. ui.run = "finished" BY <1>1, <1>2, <1>5, <2>1 DEF Boxed, Running, UI
    <2>6. Typed' BY <1>1, <1>2, <1>5, <2>4 DEF Typed, UI, Engines, Texts
    <2>7. /\ Page(ui)' = Page(ui) /\ Flow' /\ Chosen' /\ Launching'
          /\ \A i, kind : Is(i, kind)' <=> Is(i, kind)
      BY <1>2, <1>5, <2>4, Stays
    <2>8. Running' /\ Elevating' /\ Answers'
      BY <1>1, <1>2, <2>4, <2>5, <2>7 DEF Running, Elevating, Answers
    <2>9. Boxed' BY <1>1, <1>2, <2>2, <2>4, <2>5 DEF Boxed
    <2> QED BY <1>3, <2>6, <2>7, <2>8, <2>9 DEF WInv
  <1>6. CASE ui.boxes # <<>>
    <2> DEFINE answer == Last(ui.boxes).box \in {"report", "launch"}
    <2>1. /\ answer \in BOOLEAN /\ loop' = "open"
          /\ ui' = [ui EXCEPT !.quit = FALSE, !.boxes[Len(ui.boxes)].answer = answer]
      BY <1>2, <1>6 DEF Quit
    <2> HIDE DEF answer
    <2> QED BY <1>5, <1>6, <2>1
  <1> QED BY <1>4, <1>6 DEF Quit

LEMMA ReturnStep == ASSUME WInv, Return PROVE WInv'
  <1>1. /\ Typed /\ Flow /\ Running /\ Elevating /\ Launching /\ Boxed /\ Answers /\ Chosen
        /\ StartedAsChosen
    BY DEF WInv
  <1> DEFINE b == Last(ui.boxes)
             u == [ui EXCEPT !.boxes = Front(@), !.enabled = TRUE]
             gone == b.box = "launch"
  <1>2. /\ loop = "open" /\ loop' = "open" /\ ui.boxes # <<>> /\ b.answer # None
        /\ UNCHANGED <<session, inbox, child, launcher, typed, ended>>
        /\ ui' = IF gone THEN Dismiss(u) ELSE u
        /\ engine' = CASE b.box = "cancel" /\ b.answer /\ ui.run = "running" ->
                            [engine EXCEPT !.cancel = TRUE]
                       [] b.box = "question" ->
                            [engine EXCEPT !.state = "working", !.close = b.answer]
                       [] OTHER -> engine
    BY DEF Return
  <1>3. ui \in UI /\ ui.boxes \in Seq(Boxes) /\ ~ui.elevating /\ engine \in Engines
    BY <1>1, <1>2 DEF Typed, UI, Elevating
  <1>4. /\ Front(ui.boxes) \in Seq(Boxes) /\ Len(Front(ui.boxes)) = Len(ui.boxes) - 1
        /\ \A i \in 1 .. Len(Front(ui.boxes)) :
             i \in 1 .. Len(ui.boxes) /\ i # Len(ui.boxes) /\ Front(ui.boxes)[i] = ui.boxes[i]
        /\ Len(ui.boxes) \in 1 .. Len(ui.boxes) /\ b = ui.boxes[Len(ui.boxes)] /\ b \in Boxes
    BY <1>2, <1>3, BoxCloses
  <1>5. b.answer \in BOOLEAN /\ b.box \in {"cancel", "question", "report", "launch"}
    BY <1>2, <1>4 DEF Boxes
  <1>6. /\ b.box = "launch" => ui.run = "finished"
        /\ b.box = "question" => engine.state = "asked"
        /\ ui.run = "none" => b.box = "report" /\ Len(ui.boxes) = 1 /\ ~ui.quit
    BY <1>1, <1>2, <1>4 DEF Boxed
  <1> HIDE DEF b
  <1>7. /\ engine' \in Engines /\ engine'.scope = engine.scope /\ engine'.root = engine.root
        /\ engine'.accepted = engine.accepted
        /\ engine'.state = IF b.box = "question" THEN "working" ELSE engine.state
    <2>1. CASE b.box = "cancel" /\ b.answer /\ ui.run = "running"
      BY <1>2, <1>3, <2>1 DEF Engines
    <2>2. CASE b.box = "question" BY <1>2, <1>3, <1>5, <2>2 DEF Engines
    <2>3. CASE ~(b.box = "cancel" /\ b.answer /\ ui.run = "running") /\ b.box # "question"
      BY <1>2, <1>3, <2>3
    <2> QED BY <2>1, <2>2, <2>3
  <1>8. /\ ui' \in UI /\ ui'.boxes = Front(ui.boxes) /\ ui'.enabled
        /\ (ui'.quit <=> ui.quit \/ gone)
        /\ ui'.page = ui.page /\ ui'.accepted = ui.accepted /\ ui'.radio = ui.radio
        /\ ui'.text = ui.text /\ ui'.run = ui.run /\ ui'.exit = ui.exit
        /\ ui'.elevating = ui.elevating
    <2> HIDE DEF gone
    <2>1. /\ u \in UI /\ u.boxes = Front(ui.boxes) /\ u.enabled /\ u.quit = ui.quit
          /\ u.page = ui.page /\ u.accepted = ui.accepted /\ u.radio = ui.radio
          /\ u.text = ui.text /\ u.run = ui.run /\ u.exit = ui.exit
          /\ u.elevating = ui.elevating
      BY <1>3, <1>4 DEF UI
    <2> HIDE DEF u
    <2>2. CASE gone
      <3>1. ui' = [[u EXCEPT !.visible = FALSE] EXCEPT !.quit = TRUE]
        BY <1>2, <2>2 DEF Dismiss
      <3>2. /\ ui' \in UI /\ ui'.boxes = u.boxes /\ ui'.enabled = u.enabled /\ ui'.quit = TRUE
            /\ ui'.page = u.page /\ ui'.accepted = u.accepted /\ ui'.radio = u.radio
            /\ ui'.text = u.text /\ ui'.run = u.run /\ ui'.exit = u.exit
            /\ ui'.elevating = u.elevating
        BY <2>1, <3>1 DEF UI
      <3> QED BY <2>1, <2>2, <3>2
    <2>3. CASE ~gone BY <1>2, <2>1, <2>3
    <2> QED BY <2>2, <2>3
  <1>9. Typed' BY <1>1, <1>2, <1>7, <1>8 DEF Typed, UI, Engines, Texts
  <1>10. /\ Page(ui)' = Page(ui) /\ Flow' /\ Chosen' /\ Launching'
         /\ \A i, kind : Is(i, kind)' <=> Is(i, kind)
    BY <1>2, <1>8, Stays
  <1>11. StartedAsChosen'
    <2>1. engine.state # "none" \/ engine'.state = "none" BY <1>6, <1>7
    <2> QED BY <1>1, <1>2, <1>7, <2>1, StartedKept
  <1>12. Running'
    <2>1. engine'.state = "ended" <=> engine.state = "ended" BY <1>6, <1>7
    <2>2. ui.run = "running" => engine'.state # "none" /\ ~ui'.quit
      BY <1>1, <1>6, <1>7, <1>8 DEF Running
    <2>3. ui.run # "running" => engine'.state = engine.state
      BY <1>1, <1>3, <1>6, <1>7 DEF Running, UI
    <2> QED BY <1>1, <1>2, <1>8, <1>10, <2>1, <2>2, <2>3 DEF Running
  <1>13. Elevating' BY <1>1, <1>2, <1>3, <1>8, <1>10 DEF Elevating
  <1>14. Answers' BY <1>1, <1>2, <1>6, <1>8 DEF Answers
  <1>15. Boxed'
    <2>1. ui.run = "none" => ui'.boxes = <<>>
      <3>1. ui.run = "none" => Len(ui'.boxes) = 0 BY <1>4, <1>6, <1>8
      <3> QED BY <1>4, <1>8, <3>1
    <2>2. \A i \in 1 .. Len(ui'.boxes) :
            i \in 1 .. Len(ui.boxes) /\ i # Len(ui.boxes) /\ ui'.boxes[i] = ui.boxes[i]
      BY <1>4, <1>8
    <2>3. \A i \in 1 .. Len(ui'.boxes) :
            ui'.boxes[i].box = "question" => engine'.state = "asked" /\ b.box # "question"
      BY <1>1, <1>4, <1>7, <2>2 DEF Boxed
    <2>4. \A i \in 1 .. Len(ui'.boxes) :
            ui'.boxes[i].box = "launch" => ui'.run = "finished"
      BY <1>1, <1>8, <2>2 DEF Boxed
    <2>5. ASSUME NEW i \in 1 .. Len(ui'.boxes), NEW j \in 1 .. Len(ui'.boxes),
                 ui'.boxes[i].box = "question", ui'.boxes[j].box = "question"
          PROVE  i = j
      <3>1. /\ i \in 1 .. Len(ui.boxes) /\ ui.boxes[i].box = "question"
            /\ j \in 1 .. Len(ui.boxes) /\ ui.boxes[j].box = "question"
        BY <2>2, <2>5
      <3> QED BY <1>1, <3>1 DEF Boxed
    <2> QED BY <1>8, <2>1, <2>3, <2>4, <2>5 DEF Boxed
  <1> QED BY <1>9, <1>10, <1>11, <1>12, <1>13, <1>14, <1>15 DEF WInv

LEMMA AnswerStep == ASSUME WInv, Answer PROVE WInv'
  <1>1. /\ Typed /\ Flow /\ Running /\ Elevating /\ Launching /\ Boxed /\ Answers /\ Chosen
        /\ StartedAsChosen
    BY DEF WInv
  <1>2. PICK n \in DOMAIN ui.boxes, answer \in BOOLEAN :
          ui' = [ui EXCEPT !.boxes[n].answer = answer]
    BY DEF Answer
  <1>3. /\ loop = "open" /\ loop' = "open"
        /\ UNCHANGED <<session, inbox, engine, child, launcher, typed, ended>>
    BY DEF Answer, Input, Pumps
  <1>4. ui \in UI /\ ui.boxes \in Seq(Boxes) /\ n \in 1 .. Len(ui.boxes)
    BY <1>1, <1>2 DEF Typed, UI
  <1> DEFINE cs == [ui.boxes EXCEPT ![n].answer = answer]
  <1>5. /\ cs \in Seq(Boxes) /\ Len(cs) = Len(ui.boxes)
        /\ \A i \in 1 .. Len(ui.boxes) : cs[i].box = ui.boxes[i].box
    BY <1>4, BoxAnswered
  <1>6. ui' = [ui EXCEPT !.boxes = cs] BY <1>2, <1>4 DEF UI
  <1> HIDE DEF cs
  <1>7. /\ ui' \in UI /\ ui'.boxes = cs /\ ui'.quit = ui.quit /\ ui'.enabled = ui.enabled
        /\ ui'.page = ui.page /\ ui'.accepted = ui.accepted /\ ui'.radio = ui.radio
        /\ ui'.text = ui.text /\ ui'.run = ui.run /\ ui'.exit = ui.exit
        /\ ui'.elevating = ui.elevating
    BY <1>4, <1>5, <1>6 DEF UI
  <1>8. Typed' /\ StartedAsChosen'
    BY <1>1, <1>3, <1>7, StartedKept DEF Typed, UI, Engines, Texts
  <1>9. /\ Page(ui)' = Page(ui) /\ Flow' /\ Chosen' /\ Launching'
        /\ \A i, kind : Is(i, kind)' <=> Is(i, kind)
    BY <1>3, <1>7, Stays
  <1>10. ui.boxes # <<>> /\ ~ui.elevating BY <1>1, <1>4 DEF Elevating
  <1>11. Running' /\ Elevating' /\ Answers'
    BY <1>1, <1>3, <1>7, <1>9, <1>10 DEF Running, Elevating, Answers
  <1>12. Boxed'
    <2>1. ui.run = "none" => Len(ui.boxes) = 1 /\ ~ui.enabled /\ ui.boxes[1].box = "report" /\ ~ui.quit
      BY <1>1, <1>10 DEF Boxed
    <2> QED BY <1>1, <1>3, <1>5, <1>7, <2>1 DEF Boxed
  <1> QED BY <1>8, <1>9, <1>11, <1>12 DEF WInv

\* What the person does finds the wizard waiting for it.
LEMMA Taking ==
  ASSUME WInv, TakesInput
  PROVE  /\ loop = "open" /\ inbox = <<>> /\ ~ui.quit /\ ui.enabled
         /\ ui \in UI /\ ui.boxes \in Seq(Boxes)
         /\ ui.run = "none" <=> Page(ui) \notin {"Progress", "Finish"}
         /\ ui.run = "running" <=> Page(ui) = "Progress"
         /\ ui.run = "finished" <=> Page(ui) = "Finish"
         /\ ui.run = "none" => ui.boxes = <<>> /\ engine.state = "none"
         /\ ui.run = "none" /\ ~ui.elevating => ended = None /\ child = "none"
  <1>1. Typed /\ Flow /\ Running /\ Boxed /\ Answers /\ Elevating BY DEF WInv
  <1>2. loop = "open" /\ inbox = <<>> /\ ~ui.quit /\ ui.enabled /\ ui \in UI
    BY <1>1 DEF TakesInput, Input, Pumps, Typed
  <1>3. ui.boxes \in Seq(Boxes) /\ ui.run \in {"none", "running", "finished"} BY <1>2 DEF UI
  <1>4. /\ ui.run = "running" <=> Page(ui) = "Progress"
        /\ ui.run = "finished" <=> Page(ui) = "Finish"
    BY <1>1, <1>2 DEF Flow
  <1>5. ui.run = "none" => ui.boxes = <<>> /\ engine.state = "none"
    BY <1>1, <1>2 DEF Boxed, Running
  <1>6. ui.run = "none" /\ ~ui.elevating => ended = None /\ child = "none"
    BY <1>1, <1>2 DEF Answers, Elevating
  <1> QED BY <1>2, <1>3, <1>4, <1>5, <1>6

LEMMA ChooseStep == ASSUME WInv, Choose PROVE WInv'
  <1>1. /\ Typed /\ Flow /\ Running /\ Elevating /\ Launching /\ Boxed /\ Answers /\ Chosen
        /\ StartedAsChosen
    BY DEF WInv
  <1>2. /\ UNCHANGED <<session, loop, inbox, engine, child, launcher, ended>>
        /\ ~ui.elevating /\ TakesInput
    BY DEF Choose
  <1>3. Page(ui) \in {"License", "Scope", "Destination"} BY DEF Choose
  <1>4. /\ loop = "open" /\ ui \in UI /\ ui.run = "none" /\ engine.state = "none"
        /\ child = "none"
    BY <1>2, <1>3, Taking
  <1>5. \A scope \in Scopes :
          LET v == [ui EXCEPT !.radio = scope]
          IN  /\ v \in UI
              /\ chosen_scope(v) =
                   IF session.scopePage \in {"choose", "select"} THEN scope ELSE session.scope
    BY <1>4 DEF UI, chosen_scope
  <1>6. /\ ui' \in UI /\ ui'.boxes = ui.boxes /\ ui'.enabled = ui.enabled /\ ui'.quit = ui.quit
        /\ ui'.page = ui.page /\ ui'.run = ui.run /\ ui'.exit = ui.exit
        /\ ui'.elevating = ui.elevating
        /\ typed' \in {"user", "machine", "custom", None}
        /\ Chosen'
    <2>1. /\ Len(session.pages) \in Nat /\ ui.page \in 1 .. Len(session.pages)
          /\ Page(ui) = session.pages[ui.page] /\ DOMAIN session.pages = 1 .. Len(session.pages)
          /\ Page(ui) = "Scope" => ui.page = 1
      BY <1>1, Places DEF Page
    <2>2. Page(ui) \in Range(session.pages) BY <2>1 DEF Range
    <2>3. CASE Page(ui) = "License" /\ UNCHANGED typed
               /\ \E accepted \in BOOLEAN : ui' = [ui EXCEPT !.accepted = accepted]
      <3>1. PICK accepted \in BOOLEAN : ui' = [ui EXCEPT !.accepted = accepted] BY <2>3
      <3>2. /\ ui' \in UI /\ ui'.boxes = ui.boxes /\ ui'.enabled = ui.enabled
            /\ ui'.quit = ui.quit /\ ui'.page = ui.page /\ ui'.run = ui.run
            /\ ui'.exit = ui.exit /\ ui'.elevating = ui.elevating
            /\ ui'.radio = ui.radio /\ ui'.text = ui.text
        BY <1>4, <3>1 DEF UI
      <3>3. chosen_scope(ui)' = chosen_scope(ui) BY <1>2, <3>2 DEF chosen_scope
      <3>4. needs_elevation_now(ui)' = needs_elevation_now(ui) /\ Put' = Put
        BY <1>2, <2>3, <3>3 DEF needs_elevation_now, Put
      <3>5. \A i \in 1 .. Len(session.pages) : session.pages[i] = "License" => i = ui.page
        BY <1>1, <2>1, <2>3 DEF Typed, Sound, Paged
      <3>6. \A i \in 1 .. Len(session.pages) : ~(i < ui.page /\ session.pages[i] = "License")
        BY <2>1, <3>5
      <3>7. Chosen' BY <1>1, <1>2, <2>2, <2>3, <3>2, <3>3, <3>4, <3>6 DEF Chosen
      <3> QED BY <1>1, <2>3, <3>2, <3>7 DEF Typed
    <2>4. CASE /\ Page(ui) = "Scope" /\ session.scopePage \in {"choose", "select"} /\ UNCHANGED typed
               /\ \E scope \in Scopes :
                    ui' = follow_scope_in_destination([ui EXCEPT !.radio = scope])
      <3>1. PICK scope \in Scopes :
              ui' = follow_scope_in_destination([ui EXCEPT !.radio = scope])
        BY <2>4
      <3> DEFINE v == [ui EXCEPT !.radio = scope]
                 follows == /\ {"Destination", "Scope"} \subseteq Range(session.pages)
                            /\ scope \in session.offered /\ ui.text \in session.offered
      <3>2. /\ v \in UI /\ chosen_scope(v) = scope /\ v.text = ui.text
            /\ v.accepted = ui.accepted /\ v.boxes = ui.boxes /\ v.enabled = ui.enabled
            /\ v.quit = ui.quit /\ v.page = ui.page /\ v.run = ui.run /\ v.exit = ui.exit
            /\ v.elevating = ui.elevating /\ v.radio = scope
        BY <1>4, <1>5, <2>4 DEF UI
      <3> HIDE DEF v
      <3>3. ui' = IF follows THEN [v EXCEPT !.text = scope] ELSE v
        BY <3>1, <3>2 DEF follow_scope_in_destination, v
      <3>4. scope \in Texts BY DEF Texts, Scopes
      <3> HIDE DEF follows
      <3>5. /\ ui' \in UI /\ ui'.boxes = ui.boxes /\ ui'.enabled = ui.enabled
            /\ ui'.quit = ui.quit /\ ui'.page = ui.page /\ ui'.run = ui.run
            /\ ui'.exit = ui.exit /\ ui'.elevating = ui.elevating
            /\ ui'.radio = scope /\ ui'.text = (IF follows THEN scope ELSE ui.text)
            /\ ui'.accepted = ui.accepted
        <4>1. CASE follows
          <5>1. ui' = [v EXCEPT !.text = scope] BY <3>3, <4>1
          <5>2. /\ ui' \in UI /\ ui'.boxes = v.boxes /\ ui'.enabled = v.enabled
                /\ ui'.quit = v.quit /\ ui'.page = v.page /\ ui'.run = v.run
                /\ ui'.exit = v.exit /\ ui'.elevating = v.elevating
                /\ ui'.radio = v.radio /\ ui'.text = scope /\ ui'.accepted = v.accepted
            BY <3>2, <3>4, <5>1 DEF UI
          <5> QED BY <3>2, <4>1, <5>2
        <4>2. CASE ~follows BY <3>2, <3>3, <4>2
        <4> QED BY <4>1, <4>2
      <3>6. chosen_scope(ui)' = scope /\ Put' = Put
        BY <1>2, <2>4, <3>5 DEF chosen_scope, Put
      <3>7. ASSUME "Destination" \in Range(session.pages)
            PROVE  \/ ui'.text = Put
                   \/ /\ Put \in session.offered /\ ui'.text \in session.offered
                      /\ scope \in session.offered => ui'.text = scope
        <4>1. follows <=> scope \in session.offered /\ ui.text \in session.offered
          <5>1. "Scope" \in Range(session.pages) BY <2>2, <2>4
          <5>2. {"Destination", "Scope"} \subseteq Range(session.pages) BY <3>7, <5>1
          <5> QED BY <5>2 DEF follows
        <4>2. \/ ui.text = Put
              \/ Put \in session.offered /\ ui.text \in session.offered
          BY <1>1, <3>7 DEF Chosen
        <4> QED BY <3>5, <4>1, <4>2
      <3>8. Chosen'
        <4>1. ui'.page = 1 BY <2>1, <2>4, <3>5
        <4> QED BY <1>1, <1>2, <2>1, <3>5, <3>6, <3>7, <4>1 DEF Chosen
      <3> QED BY <1>1, <2>4, <3>5, <3>8 DEF Typed
    <2>5. CASE /\ Page(ui) = "Destination"
               /\ \E root \in {"user", "machine", "custom"} :
                    ui' = [ui EXCEPT !.text = root] /\ typed' = root
      <3>1. PICK root \in {"user", "machine", "custom"} :
              ui' = [ui EXCEPT !.text = root] /\ typed' = root
        BY <2>5
      <3>2. /\ ui' \in UI /\ ui'.boxes = ui.boxes /\ ui'.enabled = ui.enabled
            /\ ui'.quit = ui.quit /\ ui'.page = ui.page /\ ui'.run = ui.run
            /\ ui'.exit = ui.exit /\ ui'.elevating = ui.elevating
            /\ ui'.radio = ui.radio /\ ui'.text = root /\ ui'.accepted = ui.accepted
        BY <1>4, <3>1 DEF UI, Texts
      <3>3. chosen_scope(ui)' = chosen_scope(ui) BY <1>2, <3>2 DEF chosen_scope
      <3>4. needs_elevation_now(ui)' = needs_elevation_now(ui)
        BY <1>2, <3>3 DEF needs_elevation_now
      <3>5. Put' = root BY <3>1, WizardAssumption DEF Put, Scopes
      <3>6. Chosen' BY <1>1, <1>2, <3>2, <3>3, <3>4, <3>5 DEF Chosen
      <3> QED BY <3>1, <3>2, <3>6
    <2> QED BY <2>3, <2>4, <2>5 DEF Choose
  <1>7. Typed' /\ StartedAsChosen'
    BY <1>1, <1>2, <1>4, <1>6 DEF Typed, UI, Engines, Texts, StartedAsChosen
  <1>8. Page(ui)' = Page(ui) /\ \A i, kind : Is(i, kind)' <=> Is(i, kind)
    BY <1>2, <1>6 DEF Page, Is
  <1>9. Flow' /\ Running' /\ Launching'
    BY <1>1, <1>2, <1>4, <1>6, <1>8 DEF Flow, Running, Launching
  <1>10. Elevating' /\ Answers' /\ Boxed'
    BY <1>1, <1>2, <1>6, <1>8 DEF Elevating, Answers, Boxed
  <1> QED BY <1>6, <1>7, <1>9, <1>10 DEF WInv

LEMMA Stutters == ASSUME WInv, UNCHANGED wizardVars PROVE WInv'
  <1>1. /\ Typed /\ Flow /\ Running /\ Elevating /\ Launching /\ Boxed /\ Answers /\ Chosen
        /\ StartedAsChosen
    BY DEF WInv
  <1>2. UNCHANGED <<session, ui, loop, inbox, engine, child, launcher, typed, ended>>
    BY DEF wizardVars
  <1>3. Typed' BY <1>1, <1>2 DEF Typed, UI, Engines, Texts
  <1>4. StartedAsChosen' /\ Chosen' BY <1>1, <1>2, StartedKept, ChosenKept
  <1>5. Flow' /\ Running' /\ Launching' /\ Answers'
    BY <1>1, <1>2 DEF Flow, Page, Running, Is, Launching, Answers
  <1>6. Elevating' /\ Boxed' BY <1>1, <1>2 DEF Elevating, Page, Is, Boxed
  <1> QED BY <1>3, <1>4, <1>5, <1>6 DEF WInv

LEMMA Stands ==
  ASSUME Handle(ui)
  PROVE  UNCHANGED <<ui, engine, child, launcher>>
  BY DEF Handle

\* Asking something of the person, on a page of the choices or over the run.
LEMMA Asks ==
  ASSUME WInv, TakesInput, NEW kind, Handle(ask(ui, kind)), ~ui.elevating,
         UNCHANGED <<session, loop, inbox, typed, ended>>,
         \/ kind = "cancel" /\ ui.run = "running"
         \/ kind = "report" /\ ui.run = "none"
  PROVE  WInv'
  <1>1. /\ Typed /\ Flow /\ Running /\ Elevating /\ Launching /\ Boxed /\ Answers /\ Chosen
        /\ StartedAsChosen
    BY DEF WInv
  <1>2. /\ loop = "open" /\ loop' = "open" /\ inbox = <<>> /\ ~ui.quit /\ ui \in UI
        /\ ui.boxes \in Seq(Boxes) /\ (ui.run = "none" => ui.boxes = <<>>)
    BY Taking
  <1> DEFINE cs == Append(ui.boxes, [box |-> kind, answer |-> None])
  <1>3. /\ cs \in Seq(Boxes) /\ Len(cs) = Len(ui.boxes) + 1 /\ cs[Len(cs)].box = kind
        /\ \A i \in 1 .. Len(cs) : i # Len(cs) => i \in 1 .. Len(ui.boxes) /\ cs[i] = ui.boxes[i]
    BY <1>2, BoxOpens
  <1>4. ask(ui, kind) = [ui EXCEPT !.boxes = cs, !.enabled = FALSE] BY <1>2 DEF ask, UI
  <1> HIDE DEF cs
  <1>5. /\ ui' \in UI /\ ui'.boxes = cs /\ ~ui'.enabled /\ ui'.quit = ui.quit
        /\ ui'.page = ui.page /\ ui'.accepted = ui.accepted /\ ui'.radio = ui.radio
        /\ ui'.text = ui.text /\ ui'.run = ui.run /\ ui'.exit = ui.exit
        /\ ui'.elevating = ui.elevating
        /\ engine' = engine /\ child' = child /\ launcher' = launcher
    BY <1>2, <1>3, <1>4 DEF Handle, UI
  <1>6. Typed' /\ StartedAsChosen'
    BY <1>1, <1>2, <1>5, StartedKept DEF Typed, UI, Engines, Texts
  <1>7. /\ Page(ui)' = Page(ui) /\ Flow' /\ Chosen' /\ Launching'
        /\ \A i, message : Is(i, message)' <=> Is(i, message)
    BY <1>2, <1>5, Stays
  <1>8. Running' /\ Elevating' /\ Answers'
    BY <1>1, <1>2, <1>5, <1>7 DEF Running, Elevating, Answers
  <1>9. Boxed'
    <2>1. ui.run = "none" => Len(cs) = 1 /\ cs[1].box = "report" BY <1>2, <1>3
    <2>2. cs[Len(cs)].box \notin {"question", "launch"} BY <1>3
    <2>3. \A i \in 1 .. Len(cs) :
            cs[i].box \in {"question", "launch"} =>
              i \in 1 .. Len(ui.boxes) /\ cs[i] = ui.boxes[i]
      BY <1>3, <2>2
    <2>4. ui'.run = "none" => Len(ui'.boxes) = 1 /\ ~ui'.enabled /\ ui'.boxes[1].box = "report" /\ ~ui'.quit
      BY <1>2, <1>5, <2>1
    <2>5. \A i \in 1 .. Len(ui'.boxes) :
            /\ ui'.boxes[i].box = "launch" => ui'.run = "finished"
            /\ ui'.boxes[i].box = "question" => engine'.state = "asked"
      BY <1>1, <1>5, <2>3 DEF Boxed
    <2>6. \A i, j \in 1 .. Len(ui'.boxes) :
            ui'.boxes[i].box = "question" /\ ui'.boxes[j].box = "question" => i = j
      BY <1>1, <1>5, <2>3 DEF Boxed
    <2> QED BY <2>4, <2>5, <2>6 DEF Boxed
  <1> QED BY <1>6, <1>7, <1>8, <1>9 DEF WInv

\* The last page: its window goes, or the installed program is started first.
LEMMA Finishes ==
  ASSUME WInv, TakesInput, Page(ui) = "Finish", NEW checked \in BOOLEAN,
         Handle(finish(ui, checked)), UNCHANGED <<session, loop, inbox, typed, ended>>
  PROVE  WInv'
  <1>1. /\ Typed /\ Flow /\ Running /\ Elevating /\ Launching /\ Boxed /\ Answers /\ Chosen
        /\ StartedAsChosen
    BY DEF WInv
  <1>2. /\ loop = "open" /\ loop' = "open" /\ inbox = <<>> /\ ui \in UI /\ ui.run = "finished"
    BY Taking
  <1>3. ~ui.elevating BY <1>1 DEF Elevating
  <1>4. finish(ui, checked) \in {ui, [ui EXCEPT !.launching = TRUE], [ui EXCEPT !.quit = TRUE]}
    BY DEF finish
  <1>5. /\ ui' \in UI /\ ui'.boxes = ui.boxes /\ ui'.enabled = ui.enabled
        /\ ui'.page = ui.page /\ ui'.accepted = ui.accepted /\ ui'.radio = ui.radio
        /\ ui'.text = ui.text /\ ui'.run = ui.run /\ ui'.exit = ui.exit
        /\ ui'.elevating = ui.elevating
        /\ engine' = engine /\ child' = child /\ launcher' \in {launcher, "starting"}
    <2>1. ui' \in {ui, [ui EXCEPT !.launching = TRUE], [ui EXCEPT !.quit = TRUE]}
      BY <1>4 DEF Handle
    <2>2. /\ ui' \in UI /\ ui'.boxes = ui.boxes /\ ui'.enabled = ui.enabled
          /\ ui'.page = ui.page /\ ui'.accepted = ui.accepted /\ ui'.radio = ui.radio
          /\ ui'.text = ui.text /\ ui'.run = ui.run /\ ui'.exit = ui.exit
          /\ ui'.elevating = ui.elevating
      BY <1>2, <2>1 DEF UI
    <2> QED BY <1>2, <2>2 DEF Handle
  <1>6. Typed' /\ StartedAsChosen'
    BY <1>1, <1>2, <1>5, StartedKept DEF Typed, UI, Engines, Texts
  <1>7. /\ Page(ui)' = Page(ui) /\ Flow' /\ Chosen' /\ Launching'
        /\ \A i, kind : Is(i, kind)' <=> Is(i, kind)
    BY <1>2, <1>5, Stays
  <1>8. Running' /\ Elevating' /\ Answers' /\ Boxed'
    BY <1>1, <1>2, <1>3, <1>5, <1>7 DEF Running, Elevating, Answers, Boxed
  <1> QED BY <1>6, <1>7, <1>8 DEF WInv

LEMMA CancelStep == ASSUME WInv, PressCancel PROVE WInv'
  <1>1. /\ Typed /\ Flow /\ Running /\ Elevating /\ Launching /\ Boxed /\ Answers /\ Chosen
        /\ StartedAsChosen
    BY DEF WInv
  <1>2. PICK checked \in BOOLEAN : Handle(on_cancel(ui, checked)) BY DEF PressCancel
  <1>3. TakesInput /\ UNCHANGED <<session, loop, inbox, typed, ended>> BY DEF PressCancel
  <1>4. /\ loop = "open" /\ inbox = <<>> /\ ~ui.quit /\ ui.enabled /\ ui \in UI
        /\ ui.run = "none" <=> Page(ui) \notin {"Progress", "Finish"}
        /\ ui.run = "running" <=> Page(ui) = "Progress"
        /\ ui.run = "none" => ui.boxes = <<>> /\ engine.state = "none"
        /\ ui.run = "none" /\ ~ui.elevating => ended = None /\ child = "none"
    BY <1>3, Taking
  <1>5. CASE ui.elevating \/ ui.launching
    <2>1. Handle(ui) BY <1>2, <1>5 DEF on_cancel
    <2>2. UNCHANGED wizardVars BY <1>3, <2>1, Stands DEF wizardVars
    <2> QED BY <2>2, Stutters
  <1>6. CASE ~(ui.elevating \/ ui.launching) /\ Page(ui) = "Progress"
    <2>1. Handle(ask(ui, "cancel")) BY <1>2, <1>4, <1>6 DEF on_cancel, cancels
    <2> QED BY <1>3, <1>4, <1>6, <2>1, Asks
  <1>7. CASE ~(ui.elevating \/ ui.launching) /\ Page(ui) = "Finish"
    <2>1. Handle(finish(ui, checked)) BY <1>2, <1>7 DEF on_cancel, cancels
    <2> QED BY <1>3, <1>7, <2>1, Finishes
  <1>8. CASE ~(ui.elevating \/ ui.launching) /\ Page(ui) \notin {"Progress", "Finish"}
    <2>1. Handle([ui EXCEPT !.exit = "cancelled", !.quit = TRUE])
      BY <1>2, <1>8 DEF on_cancel, cancels
    <2>2. /\ ui' \in UI /\ ui'.boxes = ui.boxes /\ ui'.enabled = ui.enabled /\ ui'.quit
          /\ ui'.page = ui.page /\ ui'.accepted = ui.accepted /\ ui'.radio = ui.radio
          /\ ui'.text = ui.text /\ ui'.run = ui.run /\ ui'.exit = "cancelled"
          /\ ui'.elevating = ui.elevating
          /\ engine' = engine /\ child' = child /\ launcher' = launcher
      BY <1>4, <2>1 DEF Handle, UI, Results
    <2>3. Typed' /\ StartedAsChosen'
      BY <1>1, <1>3, <2>2, StartedKept DEF Typed, UI, Engines, Texts
    <2>4. /\ Page(ui)' = Page(ui) /\ Flow' /\ Chosen' /\ Launching'
          /\ \A i, kind : Is(i, kind)' <=> Is(i, kind)
      BY <1>3, <1>4, <2>2, Stays
    <2>5. ui.run = "none" /\ ~ui.elevating /\ ended = None BY <1>4, <1>8
    <2>6. Running' /\ Elevating' /\ Answers' /\ Boxed'
      BY <1>1, <1>3, <1>4, <2>2, <2>4, <2>5 DEF Running, Elevating, Answers, Boxed
    <2> QED BY <2>3, <2>4, <2>6 DEF WInv
  <1> QED BY <1>5, <1>6, <1>7, <1>8

LEMMA NextStep == ASSUME WInv, PressNext PROVE WInv'
  <1>1. /\ Typed /\ Flow /\ Running /\ Elevating /\ Launching /\ Boxed /\ Answers /\ Chosen
        /\ StartedAsChosen
    BY DEF WInv
  <1>2. PICK usable \in BOOLEAN, checked \in BOOLEAN : Handle(on_next(ui, usable, checked))
    BY DEF PressNext
  <1>3. /\ TakesInput /\ next_enabled /\ ~ui.elevating
        /\ UNCHANGED <<session, loop, inbox, typed, ended>>
    BY DEF PressNext, next_enabled
  <1>4. /\ loop = "open" /\ loop' = "open" /\ inbox = <<>> /\ ~ui.quit /\ ui.enabled /\ ui \in UI
        /\ ui.run = "none" <=> Page(ui) \notin {"Progress", "Finish"}
        /\ ui.run = "none" => ui.boxes = <<>> /\ engine.state = "none"
        /\ ui.run = "none" /\ ~ui.elevating => ended = None /\ child = "none"
    BY <1>3, Taking
  <1>5. Page(ui) # "Progress" /\ (Page(ui) = "License" => ui.accepted)
    BY <1>3 DEF next_enabled
  <1> DEFINE held == Page(ui) = "Scope" /\ (session.scopePage = "select" \/ needs_elevation_now(ui))
  <1>6. CASE held
    <2>1. Handle(begin_relaunch(ui)) /\ ui.run = "none" BY <1>2, <1>4, <1>6 DEF on_next
    <2>2. Handle([ui EXCEPT !.elevating = TRUE, !.visible = needs_elevation_now(ui)])
      BY <1>3, <2>1 DEF begin_relaunch
    <2>3. needs_elevation_now(ui) \in BOOLEAN BY <1>1 DEF needs_elevation_now, Typed, Sound
    <2>4. /\ ui' \in UI /\ ui'.boxes = ui.boxes /\ ui'.enabled = ui.enabled /\ ui'.quit = ui.quit
          /\ ui'.page = ui.page /\ ui'.accepted = ui.accepted /\ ui'.radio = ui.radio
          /\ ui'.text = ui.text /\ ui'.run = ui.run /\ ui'.exit = ui.exit
          /\ ui'.elevating
          /\ engine' = engine /\ child' \in {"prompt", "starting", child} /\ launcher' = launcher
      <3> HIDE DEF held
      <3>1. ui' = [ui EXCEPT !.elevating = TRUE, !.visible = needs_elevation_now(ui)]
        BY <2>2 DEF Handle
      <3>2. /\ ui' \in UI /\ ui'.boxes = ui.boxes /\ ui'.enabled = ui.enabled /\ ui'.quit = ui.quit
            /\ ui'.page = ui.page /\ ui'.accepted = ui.accepted /\ ui'.radio = ui.radio
            /\ ui'.text = ui.text /\ ui'.run = ui.run /\ ui'.exit = ui.exit
            /\ ui'.elevating /\ ui'.launching = ui.launching
        BY <1>4, <2>3, <3>1 DEF UI
      <3> QED BY <2>1, <2>2, <3>1, <3>2 DEF Handle
    <2>5. Typed' /\ StartedAsChosen'
      BY <1>1, <1>3, <2>4, StartedKept DEF Typed, UI, Engines, Texts
    <2>6. /\ Page(ui)' = Page(ui) /\ Flow' /\ Chosen' /\ Launching'
          /\ \A i, kind : Is(i, kind)' <=> Is(i, kind)
      BY <1>3, <1>4, <2>4, Stays
    <2>7. Elevating' BY <1>3, <1>4, <1>6, <2>1, <2>4, <2>6 DEF Elevating, Is
    <2>8. Running' /\ Answers' /\ Boxed'
      BY <1>1, <1>3, <1>4, <2>1, <2>4, <2>6 DEF Running, Answers, Boxed
    <2> QED BY <2>5, <2>6, <2>7, <2>8 DEF WInv
  <1>7. CASE ~held /\ Page(ui) = "Destination" /\ ~usable
    <2>1. Handle(ask(ui, "report")) /\ ui.run = "none" BY <1>2, <1>4, <1>7 DEF on_next
    <2> QED BY <1>3, <2>1, Asks
  <1>8. CASE ~held /\ Page(ui) = "Finish"
    <2>1. Handle(finish(ui, checked)) BY <1>2, <1>8 DEF on_next
    <2> QED BY <1>3, <1>8, <2>1, Finishes
  <1>9. CASE ~held /\ ~(Page(ui) = "Destination" /\ ~usable) /\ Page(ui) # "Finish"
    <2>1. PICK n \in Nat : n = Len(session.pages) BY <1>1, Places
    <2>2. /\ ui.page \in 1 .. n /\ ui.page # n /\ ui.page # n - 1
          /\ DOMAIN session.pages = 1 .. n
          /\ ui.run = "none" /\ Page(ui) = session.pages[ui.page]
      BY <1>1, <1>4, <1>5, <1>9, <2>1, Places DEF Page
    <2> DEFINE i == ui.page + 1
    <2>3. i \in 1 .. n - 1 /\ i \in Nat /\ i > 1 /\ \A j \in 1 .. n : j < i => j < ui.page \/ j = ui.page
      BY <2>2
    <2>4. Handle(enter_page(ui, i))
      <3>1. on_next(ui, usable, checked) =
              IF ui.page < Len(session.pages) THEN enter_page(ui, ui.page + 1) ELSE ui
        BY <1>9 DEF on_next
      <3>2. ui.page < Len(session.pages) BY <2>1, <2>2
      <3> QED BY <1>2, <3>1, <3>2
    <2>5. \A j \in 1 .. Len(session.pages) :
            j < i /\ session.pages[j] = "License" => ui.accepted
      BY <1>1, <1>5, <2>1, <2>2, <2>3 DEF Chosen
    <2>6. "Scope" \in Range(session.pages) =>
            session.scopePage # "select" /\ ~needs_elevation_now(ui)
      <3>1. CASE ui.page = 1
        <4> SUFFICES ASSUME "Scope" \in Range(session.pages)
                     PROVE  session.scopePage # "select" /\ ~needs_elevation_now(ui)
          OBVIOUS
        <4>1. PICK j \in 1 .. n : session.pages[j] = "Scope" BY <2>2 DEF Range
        <4>2. j = 1 BY <1>1, <2>1, <4>1 DEF Typed, Sound, Paged
        <4> QED BY <1>9, <2>2, <3>1, <4>1, <4>2
      <3>2. CASE ui.page # 1 BY <1>1, <2>2, <3>2 DEF Chosen
      <3> QED BY <3>1, <3>2
    <2> HIDE DEF i, held
    <2> QED BY <1>3, <1>4, <2>1, <2>2, <2>3, <2>4, <2>5, <2>6, Entered
  <1> QED BY <1>6, <1>7, <1>8, <1>9

LEMMA BackStep == ASSUME WInv, PressBack PROVE WInv'
  <1>1. /\ Typed /\ Chosen BY DEF WInv
  <1>2. /\ TakesInput /\ ~ui.elevating /\ ui.page > 1 /\ Page(ui) \notin {"Progress", "Finish"}
        /\ Handle(enter_page(ui, ui.page - 1)) /\ UNCHANGED <<session, loop, inbox, typed, ended>>
    BY DEF PressBack, back_enabled
  <1>3. /\ loop' = "open" /\ ~ui.quit /\ ui.enabled /\ ui.run = "none" BY <1>2, Taking
  <1>4. PICK n \in Nat : n = Len(session.pages) BY <1>1, Places
  <1> DEFINE i == ui.page - 1
  <1>5. ui.page \in 1 .. n BY <1>1, <1>4, Places
  <1>6. /\ i \in 1 .. n - 1 /\ i < ui.page /\ \A j \in 1 .. n : j < i => j < ui.page
    BY <1>2, <1>5
  <1>7. /\ \A j \in 1 .. Len(session.pages) :
             j < i /\ session.pages[j] = "License" => ui.accepted
        /\ "Scope" \in Range(session.pages) =>
             session.scopePage # "select" /\ ~needs_elevation_now(ui)
    BY <1>1, <1>2, <1>4, <1>6 DEF Chosen
  <1> HIDE DEF i
  <1> QED BY <1>2, <1>3, <1>4, <1>6, <1>7, Entered DEF i

\* The end of the run takes the wizard to its last page, with its exit code.
LEMMA DoneStep ==
  ASSUME WInv, loop = "open", loop' = "open", inbox # <<>>, inbox' = Tail(inbox),
         Head(inbox).message = "done", Handle(on_engine_done(ui, Head(inbox).result)),
         UNCHANGED <<session, typed, ended>>
  PROVE  WInv'
  <1>1. /\ Typed /\ Flow /\ Running /\ Elevating /\ Launching /\ Boxed /\ Answers /\ Chosen
        /\ StartedAsChosen
    BY DEF WInv
  <1>2. /\ inbox' \in Seq(Messages) /\ Head(inbox) = inbox[1] /\ Is(1, "done")
        /\ \A i, kind : Is(i, kind)' =>
             Is(i + 1, kind) /\ inbox'[i] = inbox[i + 1] /\ i + 1 \in 1 .. Len(inbox) /\ i + 1 # 1
    BY <1>1, Taken DEF Typed, Is
  <1>3. /\ ui.run = "running" /\ engine.state = "ended" /\ inbox[1].result = ended
        /\ \A i : ~Is(i, "done")'
    BY <1>1, <1>2 DEF Running, Is
  <1>4. /\ ended \in Results /\ ended # None /\ Page(ui) = "Progress" /\ ~ui.elevating
        /\ child = "none" /\ \A i : ~Is(i, "relaunched")
    <2>1. ended # None /\ Page(ui) = "Progress" BY <1>1, <1>3 DEF Running, Flow
    <2>2. ~ui.elevating BY <1>1, <2>1 DEF Elevating
    <2> QED BY <1>1, <2>1, <2>2 DEF Typed, Elevating, Is
  <1>5. PICK n \in Nat : n = Len(session.pages) BY <1>1, Places
  <1>6. /\ n >= 1 /\ DOMAIN session.pages = 1 .. n /\ FinishPage = n /\ ui.page \in 1 .. n
        /\ ui.page = n - 1 /\ Page(ui) = session.pages[ui.page]
    BY <1>1, <1>4, <1>5, Places DEF Page
  <1>7. /\ session.pages[n] = "Finish" /\ n \in 1 .. n /\ ~session.refused
        /\ \A j \in 1 .. n : session.pages[j] = "Scope" => j = 1
    <2>1. Paged(session.pages, session.refused) BY <1>1 DEF Typed, Sound
    <2>2. n # 1 BY <1>6
    <2> QED BY <1>5, <1>6, <2>1, <2>2 DEF Paged
  <1>8. on_engine_done(ui, ended) =
          [ui EXCEPT !.run = "finished", !.outcome = ended, !.exit = ended, !.page = n]
    BY <1>1, <1>6, <1>7 DEF on_engine_done, enter_page, Typed, UI
  <1>9. /\ ui' \in UI /\ ui'.boxes = ui.boxes /\ ui'.page = n
        /\ ui'.accepted = ui.accepted /\ ui'.radio = ui.radio
        /\ ui'.text = ui.text /\ ui'.run = "finished" /\ ui'.exit = ended
        /\ ui'.elevating = ui.elevating
        /\ engine' = engine /\ child' = child /\ launcher' = launcher
    <2>1. ui' = [ui EXCEPT !.run = "finished", !.outcome = ended, !.exit = ended, !.page = n]
      BY <1>2, <1>3, <1>8 DEF Handle
    <2>2. /\ ui' \in UI /\ ui'.boxes = ui.boxes /\ ui'.page = n
          /\ ui'.accepted = ui.accepted /\ ui'.radio = ui.radio
          /\ ui'.text = ui.text /\ ui'.run = "finished" /\ ui'.exit = ended
          /\ ui'.elevating = ui.elevating /\ ui'.launching = ui.launching
      BY <1>1, <1>4, <1>5, <1>7, <2>1 DEF Typed, UI
    <2> QED BY <1>2, <1>3, <1>4, <2>2 DEF Handle
  <1>10. Typed' /\ StartedAsChosen'
    BY <1>1, <1>2, <1>9, StartedKept DEF Typed, UI, Engines, Texts
  <1>11. Flow' /\ Running' BY <1>1, <1>3, <1>7, <1>9 DEF Flow, Page, Running, Is
  <1>12. Elevating' /\ Launching' BY <1>1, <1>2, <1>4, <1>9 DEF Elevating, Launching
  <1>13. Boxed' /\ Answers' BY <1>1, <1>3, <1>4, <1>7, <1>9 DEF Boxed, Answers
  <1>14. Chosen'
    <2>1. \A j \in 1 .. n : j < n /\ session.pages[j] = "License" => ui.accepted
      <3>1. \A j \in 1 .. n : j < n => j < ui.page \/ j = ui.page BY <1>6
      <3> QED BY <1>1, <1>4, <1>5, <1>6, <3>1 DEF Chosen
    <2>2. "Scope" \in Range(session.pages) =>
            session.scopePage # "select" /\ ~needs_elevation_now(ui)
      <3> SUFFICES ASSUME "Scope" \in Range(session.pages)
                   PROVE  session.scopePage # "select" /\ ~needs_elevation_now(ui)
        OBVIOUS
      <3>1. PICK j \in 1 .. n : session.pages[j] = "Scope" BY <1>6 DEF Range
      <3>2. session.pages[1] = "Scope" BY <1>7, <3>1
      <3>3. ui.page > 1 BY <1>4, <1>6, <3>2
      <3> QED BY <1>1, <3>3 DEF Chosen
    <2> QED BY <1>1, <1>5, <1>9, <2>1, <2>2, EnteredChosen
  <1> QED BY <1>10, <1>11, <1>12, <1>13, <1>14 DEF WInv

\* A step of the window that takes a message, keeps the page and the run, and
\* leaves the engine's thread alone.
LEMMA Takes ==
  ASSUME WInv, loop = "open", loop' = "open", inbox # <<>>, inbox' = Tail(inbox),
         UNCHANGED <<session, engine, child, launcher, typed, ended>>, ui' \in UI,
         ui'.page = ui.page, ui'.accepted = ui.accepted, ui'.radio = ui.radio,
         ui'.text = ui.text, ui'.run = ui.run, ui.run = "running" => ui'.quit = ui.quit
  PROVE  /\ Typed' /\ Flow' /\ Running' /\ Launching' /\ Chosen' /\ StartedAsChosen'
         /\ Page(ui)' = Page(ui)
         /\ Head(inbox) = inbox[1] /\ 1 \in 1 .. Len(inbox) /\ Head(inbox) \in Messages
         /\ \A i, kind : Is(i, kind)' =>
              /\ Is(i + 1, kind) /\ inbox'[i] = inbox[i + 1]
              /\ i \in 1 .. Len(inbox') /\ i + 1 \in 1 .. Len(inbox) /\ i + 1 # 1
  <1>1. /\ Typed /\ Flow /\ Running /\ Launching /\ Chosen /\ StartedAsChosen BY DEF WInv
  <1>2. /\ inbox' \in Seq(Messages) /\ Head(inbox) = inbox[1] /\ 1 \in 1 .. Len(inbox)
        /\ Head(inbox) \in Messages
        /\ \A i, kind : Is(i, kind)' =>
             /\ Is(i + 1, kind) /\ inbox'[i] = inbox[i + 1]
             /\ i \in 1 .. Len(inbox') /\ i + 1 \in 1 .. Len(inbox) /\ i + 1 # 1
    BY <1>1, Taken DEF Typed
  <1>3. Typed' /\ StartedAsChosen' BY <1>1, <1>2, StartedKept DEF Typed, UI, Engines, Texts
  <1>4. Page(ui)' = Page(ui) /\ Flow' /\ Chosen' BY <1>1, ChosenKept DEF Flow, Page
  <1>5. Running'
    <2>1. \A i \in 1 .. Len(inbox') : Is(i, "done")' =>
            ui.run = "running" /\ engine.state = "ended" /\ inbox'[i].result = ended
      BY <1>1, <1>2 DEF Running
    <2>2. \A i, j \in 1 .. Len(inbox') : Is(i, "done")' /\ Is(j, "done")' => i = j
      <3> SUFFICES ASSUME NEW i \in 1 .. Len(inbox'), NEW j \in 1 .. Len(inbox'),
                          Is(i, "done")', Is(j, "done")'
                   PROVE  i = j
        OBVIOUS
      <3>1. i + 1 = j + 1 BY <1>1, <1>2 DEF Running
      <3> QED BY <3>1
    <2> QED BY <1>1, <2>1, <2>2 DEF Running
  <1>6. Launching' BY <1>1, <1>2 DEF Launching
  <1> QED BY <1>2, <1>3, <1>4, <1>5, <1>6

LEMMA RelaunchedStep ==
  ASSUME WInv, loop = "open", loop' = "open", inbox # <<>>, inbox' = Tail(inbox),
         Head(inbox).message = "relaunched", Handle(on_elevation_done(ui, Head(inbox).result)),
         UNCHANGED <<session, typed, ended>>
  PROVE  WInv'
  <1>1. /\ Typed /\ Flow /\ Running /\ Elevating /\ Launching /\ Boxed /\ Answers /\ Chosen
        /\ StartedAsChosen
    BY DEF WInv
  <1>2. PICK result : result = Head(inbox).result OBVIOUS
  <1>3. Head(inbox) = inbox[1] /\ Is(1, "relaunched") BY <1>1, Taken DEF Typed, Is
  <1>4. /\ ui.elevating /\ result \in Results \cup {"elevation"} /\ child = "none"
        /\ ended = IF result \in Results THEN result ELSE None
        /\ \A i : Is(i, "relaunched") => i = 1
    BY <1>1, <1>2, <1>3 DEF Elevating, Is
  <1>5. /\ Page(ui) = "Scope" /\ ui.boxes = <<>> /\ ui.enabled /\ ~ui.quit /\ ui \in UI
        /\ ui.run = "none"
    BY <1>1, <1>4 DEF Elevating, Flow, Typed, UI
  <1>6. None \notin Results /\ "elevation" \notin Results BY WizardAssumption DEF Results
  <1>7. /\ ui' = on_elevation_done(ui, result) /\ ui' \in UI
        /\ ui'.page = ui.page /\ ui'.accepted = ui.accepted /\ ui'.radio = ui.radio
        /\ ui'.text = ui.text /\ ui'.run = ui.run /\ ui'.exit = result /\ ~ui'.elevating
        /\ ui'.launching = ui.launching
        /\ \/ result \in Results /\ ui'.quit /\ ui'.boxes = <<>> /\ ui'.enabled
           \/ /\ result \notin Results /\ ~ui'.quit /\ ~ui'.enabled /\ Len(ui'.boxes) = 1
              /\ ui'.boxes[1].box = "report"
    <2> DEFINE v == [ui EXCEPT !.elevating = FALSE, !.exit = result]
    <2>1. ui' = on_elevation_done(ui, result) BY <1>2 DEF Handle
    <2>2. /\ v \in UI /\ v.boxes = <<>> /\ v.enabled /\ ~v.quit
          /\ v.page = ui.page /\ v.accepted = ui.accepted /\ v.radio = ui.radio
          /\ v.text = ui.text /\ v.run = ui.run /\ v.exit = result /\ ~v.elevating
          /\ v.launching = ui.launching
      BY <1>4, <1>5 DEF UI
    <2>3. on_elevation_done(ui, result) =
            IF result \in Results THEN [v EXCEPT !.quit = TRUE]
            ELSE ask([v EXCEPT !.visible = TRUE], "report")
      BY DEF on_elevation_done
    <2> HIDE DEF v
    <2>4. CASE result \in Results
      <3>1. ui' = [v EXCEPT !.quit = TRUE] BY <2>1, <2>3, <2>4
      <3>2. /\ ui' \in UI /\ ui'.boxes = v.boxes /\ ui'.enabled = v.enabled /\ ui'.quit
            /\ ui'.page = v.page /\ ui'.accepted = v.accepted /\ ui'.radio = v.radio
            /\ ui'.text = v.text /\ ui'.run = v.run /\ ui'.exit = v.exit
            /\ ui'.elevating = v.elevating /\ ui'.launching = v.launching
        BY <2>2, <3>1 DEF UI
      <3> QED BY <2>1, <2>2, <2>4, <3>2
    <2>5. CASE result \notin Results
      <3> DEFINE box == [box |-> "report", answer |-> None]
      <3>1. <<>> \in Seq(Boxes) /\ Append(<<>>, box) \in Seq(Boxes) /\ Len(Append(<<>>, box)) = 1
            /\ Append(<<>>, box)[1] = box /\ box.box = "report"
        <4>1. <<>> \in Seq(Boxes) /\ box \in Boxes /\ box.box = "report" BY DEF Boxes
        <4> HIDE DEF box
        <4> QED BY <4>1
      <3> HIDE DEF box
      <3>2. ui' = [v EXCEPT !.visible = TRUE, !.boxes = Append(<<>>, box), !.enabled = FALSE]
        BY <2>1, <2>2, <2>3, <2>5 DEF ask, box, UI
      <3>3. /\ ui' \in UI /\ ui'.boxes = Append(<<>>, box) /\ ~ui'.enabled /\ ui'.quit = v.quit
            /\ ui'.page = v.page /\ ui'.accepted = v.accepted /\ ui'.radio = v.radio
            /\ ui'.text = v.text /\ ui'.run = v.run /\ ui'.exit = v.exit
            /\ ui'.elevating = v.elevating /\ ui'.launching = v.launching
        BY <2>2, <3>1, <3>2 DEF UI
      <3> QED BY <2>1, <2>2, <2>5, <3>1, <3>3
    <2> QED BY <2>4, <2>5
  <1>8. engine' = engine /\ child' = child /\ launcher' = launcher
    BY <1>2, <1>4, <1>5, <1>7 DEF Handle
  <1>9. /\ Typed' /\ Flow' /\ Running' /\ Launching' /\ Chosen' /\ StartedAsChosen'
        /\ \A i, kind : Is(i, kind)' => Is(i + 1, kind) /\ i + 1 # 1
    BY <1>5, <1>7, <1>8, Takes
  <1>10. Elevating' BY <1>4, <1>7, <1>8, <1>9 DEF Elevating
  <1>11. Boxed' BY <1>5, <1>7 DEF Boxed
  <1>12. Answers' BY <1>4, <1>5, <1>6, <1>7 DEF Answers
  <1> QED BY <1>9, <1>10, <1>11, <1>12 DEF WInv

LEMMA LaunchedStep ==
  ASSUME WInv, loop = "open", loop' = "open", inbox # <<>>, inbox' = Tail(inbox),
         Head(inbox).message = "launched", Handle(on_launch_done(ui, Head(inbox).result)),
         UNCHANGED <<session, typed, ended>>
  PROVE  WInv'
  <1>1. /\ Typed /\ Flow /\ Running /\ Elevating /\ Launching /\ Boxed /\ Answers /\ Chosen
        /\ StartedAsChosen
    BY DEF WInv
  <1>2. /\ ui.run = "finished" /\ ui \in UI /\ ui.boxes \in Seq(Boxes)
    BY <1>1, Taken DEF Typed, UI, Is, Launching
  <1>3. ~ui.elevating /\ child = "none" /\ \A i : ~Is(i, "relaunched")
    <2>1. Page(ui) = "Finish" BY <1>1, <1>2 DEF Flow
    <2>2. ~ui.elevating BY <1>1, <2>1 DEF Elevating
    <2> QED BY <1>1, <2>2 DEF Elevating, Is
  <1> DEFINE cs == Append(ui.boxes, [box |-> "launch", answer |-> None])
  <1>4. /\ cs \in Seq(Boxes) /\ cs[Len(cs)].box = "launch"
        /\ \A i \in 1 .. Len(cs) : i # Len(cs) => i \in 1 .. Len(ui.boxes) /\ cs[i] = ui.boxes[i]
    BY <1>2, BoxOpens
  <1>5. ui' \in {Dismiss(ui), ask(ui, "launch")} BY DEF Handle, on_launch_done
  <1>6. ask(ui, "launch") = [ui EXCEPT !.boxes = cs, !.enabled = FALSE] BY <1>2 DEF ask, UI
  <1> HIDE DEF cs
  <1>7. /\ ui' \in UI /\ ui'.page = ui.page /\ ui'.accepted = ui.accepted /\ ui'.radio = ui.radio
        /\ ui'.text = ui.text /\ ui'.run = ui.run /\ ui'.exit = ui.exit
        /\ ui'.elevating = ui.elevating /\ ui'.launching = ui.launching
        /\ ui'.boxes \in {ui.boxes, cs}
    <2>1. CASE ui' = Dismiss(ui) BY <1>2, <2>1 DEF Dismiss, UI
    <2>2. CASE ui' = ask(ui, "launch") BY <1>2, <1>4, <1>6, <2>2 DEF UI
    <2> QED BY <1>5, <2>1, <2>2
  <1>8. engine' = engine /\ child' = child /\ launcher' = launcher
    <2>1. ui' = on_launch_done(ui, Head(inbox).result) BY DEF Handle
    <2> QED BY <1>2, <1>7, <2>1 DEF Handle
  <1>9. /\ Typed' /\ Flow' /\ Running' /\ Launching' /\ Chosen' /\ StartedAsChosen'
        /\ \A i, kind : Is(i, kind)' => Is(i + 1, kind)
    BY <1>2, <1>7, <1>8, Takes
  <1>10. Elevating' /\ Answers' BY <1>1, <1>2, <1>3, <1>7, <1>8, <1>9 DEF Elevating, Answers
  <1>11. Boxed'
    <2>1. CASE ui'.boxes = ui.boxes BY <1>1, <1>2, <1>7, <1>8, <2>1 DEF Boxed
    <2>2. CASE ui'.boxes = cs
      <3>1. \A i \in 1 .. Len(cs) :
              cs[i].box = "question" => i \in 1 .. Len(ui.boxes) /\ cs[i] = ui.boxes[i]
        BY <1>4
      <3> QED BY <1>1, <1>2, <1>7, <1>8, <2>2, <3>1 DEF Boxed
    <2> QED BY <1>7, <2>1, <2>2
  <1> QED BY <1>9, <1>10, <1>11 DEF WInv

LEMMA ElevationStartedStep ==
  ASSUME WInv, loop = "open", loop' = "open", inbox # <<>>, inbox' = Tail(inbox),
         Handle(on_elevation_started(ui)), UNCHANGED <<session, typed, ended>>
  PROVE  WInv'
  <1>1. Typed /\ Elevating /\ Boxed /\ Answers BY DEF WInv
  <1>2. ui \in UI BY <1>1 DEF Typed
  <1>3. /\ ui' \in UI /\ ui'.page = ui.page /\ ui'.accepted = ui.accepted /\ ui'.radio = ui.radio
        /\ ui'.text = ui.text /\ ui'.run = ui.run /\ ui'.exit = ui.exit /\ ui'.quit = ui.quit
        /\ ui'.elevating = ui.elevating /\ ui'.launching = ui.launching
        /\ ui'.boxes = ui.boxes /\ ui'.enabled = ui.enabled
    <2>1. ui' \in {ui, [ui EXCEPT !.visible = FALSE]} BY DEF Handle, on_elevation_started
    <2> QED BY <1>2, <2>1 DEF UI
  <1>4. engine' = engine /\ child' = child /\ launcher' = launcher
    <2>1. ui' = on_elevation_started(ui) BY DEF Handle
    <2> QED BY <1>3, <2>1 DEF Handle
  <1>5. /\ Typed' /\ Flow' /\ Running' /\ Launching' /\ Chosen' /\ StartedAsChosen'
        /\ Page(ui)' = Page(ui)
        /\ \A i, kind : Is(i, kind)' =>
             /\ Is(i + 1, kind) /\ inbox'[i] = inbox[i + 1]
             /\ i \in 1 .. Len(inbox') /\ i + 1 \in 1 .. Len(inbox) /\ i + 1 # 1
    BY <1>3, <1>4, Takes
  <1>6. Answers' /\ Boxed' BY <1>1, <1>3, <1>4 DEF Answers, Boxed
  <1>7. Elevating'
    <2>1. ui'.elevating => /\ Page(ui)' = "Scope" /\ ui'.boxes = <<>> /\ ui'.enabled /\ ~ui'.quit
                           /\ loop' = "open"
      BY <1>1, <1>3, <1>5 DEF Elevating
    <2>2. child' # "none" =>
            ui'.elevating /\ ended' = None /\ \A i \in 1 .. Len(inbox') : ~Is(i, "relaunched")'
      BY <1>1, <1>3, <1>4, <1>5 DEF Elevating
    <2>3. \A i \in 1 .. Len(inbox') : Is(i, "relaunched")' =>
            /\ ui'.elevating /\ inbox'[i].result \in Results \cup {"elevation"}
            /\ ended' = IF inbox'[i].result \in Results THEN inbox'[i].result ELSE None
      BY <1>1, <1>3, <1>5 DEF Elevating
    <2>4. \A i, j \in 1 .. Len(inbox') :
            Is(i, "relaunched")' /\ Is(j, "relaunched")' => i = j
      <3> SUFFICES ASSUME NEW i \in 1 .. Len(inbox'), NEW j \in 1 .. Len(inbox'),
                          Is(i, "relaunched")', Is(j, "relaunched")'
                   PROVE  i = j
        OBVIOUS
      <3>1. i + 1 = j + 1 BY <1>1, <1>5 DEF Elevating
      <3> QED BY <3>1
    <2> QED BY <2>1, <2>2, <2>3, <2>4 DEF Elevating
  <1> QED BY <1>5, <1>6, <1>7 DEF WInv

LEMMA DispatchStep == ASSUME WInv, Dispatch PROVE WInv'
  <1>1. /\ loop = "open" /\ loop' = "open" /\ inbox # <<>> /\ inbox' = Tail(inbox)
        /\ UNCHANGED <<session, typed, ended>>
    BY DEF Dispatch, Pumps
  <1> DEFINE m == Head(inbox)
  <1>2. Handle(CASE m.message = "done"       -> on_engine_done(ui, m.result)
                 [] m.message = "started"    -> on_elevation_started(ui)
                 [] m.message = "relaunched" -> on_elevation_done(ui, m.result)
                 [] m.message = "launched"   -> on_launch_done(ui, m.result))
    BY DEF Dispatch
  <1>3. m.message \in {"done", "started", "relaunched", "launched"}
    BY <1>1, Taken DEF WInv, Typed, Messages
  <1>4. CASE m.message = "done"
    <2>1. Handle(on_engine_done(ui, m.result)) BY <1>2, <1>4
    <2> QED BY <1>1, <1>4, <2>1, DoneStep
  <1>5. CASE m.message = "started"
    <2>1. Handle(on_elevation_started(ui)) BY <1>2, <1>5
    <2> QED BY <1>1, <2>1, ElevationStartedStep
  <1>6. CASE m.message = "relaunched"
    <2>1. Handle(on_elevation_done(ui, m.result)) BY <1>2, <1>6
    <2> QED BY <1>1, <1>6, <2>1, RelaunchedStep
  <1>7. CASE m.message = "launched"
    <2>1. Handle(on_launch_done(ui, m.result)) BY <1>2, <1>7
    <2> QED BY <1>1, <1>7, <2>1, LaunchedStep
  <1> QED BY <1>3, <1>4, <1>5, <1>6, <1>7

----------------------------------------------------------------------------
(* The induction, and what it shows. *)

LEMMA StepWInv == WInv /\ [WizardNext]_wizardVars => WInv'
  <1> SUFFICES ASSUME WInv, [WizardNext]_wizardVars PROVE WInv' OBVIOUS
  <1>1. CASE Show BY <1>1, ShowStep
  <1>2. CASE Dispatch BY <1>2, DispatchStep
  <1>3. CASE Question BY <1>3, QuestionStep
  <1>4. CASE Quit BY <1>4, QuitStep
  <1>5. CASE Return BY <1>5, ReturnStep
  <1>6. CASE PressNext BY <1>6, NextStep
  <1>7. CASE PressBack BY <1>7, BackStep
  <1>8. CASE PressCancel BY <1>8, CancelStep
  <1>9. CASE Choose BY <1>9, ChooseStep
  <1>10. CASE Answer BY <1>10, AnswerStep
  <1>11. CASE EngineAsks \/ EngineEnds \/ ChildStarts \/ ChildEnds \/ LaunchEnds \/ Join
    BY <1>11, ThreadStep
  <1>12. CASE Closed \/ UNCHANGED wizardVars BY <1>12, Stutters DEF Closed
  <1> QED
    BY <1>1, <1>2, <1>3, <1>4, <1>5, <1>6, <1>7, <1>8, <1>9, <1>10, <1>11, <1>12 DEF WizardNext

LEMMA Promises == WInv => WizardTypeOK /\ NothingUnwatched /\ ReportsTheRun
  <1> SUFFICES ASSUME WInv PROVE WizardTypeOK /\ NothingUnwatched /\ ReportsTheRun OBVIOUS
  <1>1. /\ Typed /\ Flow /\ Running /\ Elevating /\ Boxed /\ Answers /\ StartedAsChosen
    BY DEF WInv
  <1>2. WizardTypeOK
    <2>1. \A i \in DOMAIN ui.boxes : ui.boxes[i].box \in {"cancel", "question", "report", "launch"}
      <3>1. ui.boxes \in Seq(Boxes) BY <1>1 DEF Typed, UI
      <3>2. \A i \in DOMAIN ui.boxes : ui.boxes[i] \in Boxes BY <3>1
      <3> QED BY <3>2 DEF Boxes
    <2> QED BY <1>1, <2>1, Places DEF WizardTypeOK, Typed, UI, Engines
  <1>3. loop \in {"joining", "closed"} => ui.quit /\ ~ui.elevating /\ ui.run \in {"none", "finished"}
    BY <1>1 DEF Flow, Elevating, Running, Typed, UI
  <1>4. NothingUnwatched BY <1>1, <1>3 DEF NothingUnwatched, Running, Elevating
  <1>5. ExitIsTheRuns
    <2>1. session.refused => ui.run = "finished"
      <3>1. session.refused => Len(session.pages) = 1 BY <1>1 DEF Typed, Sound, Paged
      <3>2. session.refused => Page(ui) = "Finish"
        <4>1. PICK n \in Nat : n = Len(session.pages) BY <1>1, Places
        <4>2. ui.page \in 1 .. n /\ (Page(ui) = "Finish" <=> ui.page = n)
          BY <1>1, <4>1, Places
        <4> QED BY <3>1, <4>1, <4>2
      <3> QED BY <1>1, <3>2 DEF Flow
    <2> QED BY <1>1, <1>3, <2>1 DEF ExitIsTheRuns, Answers
  <1> QED BY <1>1, <1>2, <1>4, <1>5 DEF ReportsTheRun

\* The wizard's memory, its window and its threads are what they are taken to
\* be, wherever the installer or a copy of the uninstaller is started.
THEOREM WizardTypeCorrect == WizardSpec => []WizardTypeOK
  <1>1. WizardInit => WInv BY InitWInv
  <1>2. WInv /\ [WizardNext]_wizardVars => WInv' BY StepWInv
  <1>3. WInv => WizardTypeOK BY Promises
  <1> QED BY <1>1, <1>2, <1>3, PTL DEF WizardSpec

\* The window never goes with a run or an elevated child open.
THEOREM NobodyRunsUnwatched == WizardSpec => []NothingUnwatched
  <1>1. WizardInit => WInv BY InitWInv
  <1>2. WInv /\ [WizardNext]_wizardVars => WInv' BY StepWInv
  <1>3. WInv => NothingUnwatched BY Promises
  <1> QED BY <1>1, <1>2, <1>3, PTL DEF WizardSpec

\* The run does what the pages chose, in a scope this process has the rights
\* for unless it is the user's copy run for the machine's installation, and the
\* caller learns its end.
THEOREM AnswersForTheRun == WizardSpec => []ReportsTheRun
  <1>1. WizardInit => WInv BY InitWInv
  <1>2. WInv /\ [WizardNext]_wizardVars => WInv' BY StepWInv
  <1>3. WInv => ReportsTheRun BY Promises
  <1> QED BY <1>1, <1>2, <1>3, PTL DEF WizardSpec
==============================================================================
