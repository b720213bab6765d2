-------------------------- MODULE Processes_proofs --------------------------
(***************************************************************************)
(* What is proved of the processes one process of TigerSetup starts and    *)
(* waits for: the programs of custom actions, which the engine starts      *)
(* (Actions), and the engine, which the loader starts (Loader).            *)
(*                                                                         *)
(* Of Actions, for any number of actions, policies and packages: type      *)
(* correctness, the finality of a run that ended, what a commit and a      *)
(* closed transaction say of the evidence, and that no program in the job  *)
(* object runs without its evidence.                                       *)
(*                                                                         *)
(* Of Loader, for any number of launches, files, attempts and helpers, and *)
(* any directories somebody else made: each engine that runs is the        *)
(* verified one, no launch fails because of the others, and the launches   *)
(* leave nothing behind.                                                   *)
(***************************************************************************)
EXTENDS Actions, Loader, FiniteSetTheorems, TLAPS

----------------------------------------------------------------------------
(* The programs of custom actions. *)

\* Where the process is says what it knows of the transaction.
ProcessOK ==
  /\ pc # "down" => running \in Exes
  /\ pc \in {"walk", "apply"} => txnState = "running"
  /\ pc \in {"reverse", "undo"} => txnState = "rolling_back"
  /\ pc \in {"plan", "cleanup"} => ~Open
  /\ pc \in {"apply", "undo"} <=> at # None
  /\ pc # "apply" => step = "begin"

\* How far the run of the action being walked is, and what its row says.
RunOK ==
  pc = "apply" =>
    /\ opState[at] = "applying"
    /\ step = "start" => row[at] \notin Ended \cup {"started"}
    /\ step \in {"started", "spawned", "running", "ended"} => row[at] = "started"
    /\ step \in {"ended", "settle"} => verdict \in Verdicts
    /\ step = "settle" => row[at] = verdict

\* What the rows say of the operations.
RowsOK ==
  \A a \in Actions :
    /\ opState[a] = "planned" => row[a] = "none"
    /\ opState[a] = "applied" => /\ row[a] \in Verdicts
                                 /\ Policy[a] = "fail" => row[a] \in {"completed", "reboot"}
    /\ opState[a] = "rolled_back" => row[a] # "started"
    /\ txnState = "none" => opState[a] = "planned"
    /\ txnState = "running" => opState[a] \in {"planned", "applying", "applied"}
    /\ txnState = "committed" => opState[a] = "applied"
    /\ txnState = "rolled_back" => opState[a] \in {"planned", "rolled_back"}

IInv == TypeOK /\ ProcessOK /\ RunOK /\ RowsOK

\* The initial state satisfies the invariant.
LEMMA IInit == Init => IInv
BY ActionsAssumption
   DEF Init, IInv, TypeOK, ProcessOK, RunOK, RowsOK, Open, Verdicts, Ended

\* Every step preserves it.
LEMMA INext == IInv /\ [Next]_vars => IInv'
<1> SUFFICES ASSUME IInv, [Next]_vars PROVE IInv' OBVIOUS
<1> USE ActionsAssumption DEF IInv, TypeOK, ProcessOK, RunOK, RowsOK, Open, Verdicts, Ended,
        disk, world, process
<1>1. ASSUME NEW exe \in Exes, Start(exe) PROVE IInv' BY <1>1 DEF Start
<1>2. CASE Recover BY <1>2 DEF Recover, GoesForward
<1>3. CASE Begin BY <1>3 DEF Begin
<1>4. CASE LeaveBeforeTransaction BY <1>4 DEF LeaveBeforeTransaction, EndProcess
<1>5. CASE Cleanup BY <1>5 DEF Cleanup, EndProcess
<1>6. CASE FailByPolicy BY <1>6 DEF FailByPolicy
<1>7. CASE Commit
  <2>1. \A a \in Actions : opState[a] = "applied" BY <1>7 DEF Commit, Pending
  <2> QED BY <1>7, <2>1 DEF Commit
<1>8. ASSUME NEW a \in Actions, StartOperation(a) PROVE IInv'
  BY <1>8 DEF StartOperation, IsNext, Pending
<1>9. ASSUME NEW a \in Actions, Settle(a) PROVE IInv' BY <1>9 DEF Settle, Applying, WasEnded
<1>10. ASSUME NEW a \in Actions, MarkInterrupted(a) PROVE IInv'
  BY <1>10 DEF MarkInterrupted, Applying
<1>11. ASSUME NEW a \in Actions, RunAgain(a) PROVE IInv'
  BY <1>11 DEF RunAgain, Applying, WasEnded
<1>12. ASSUME NEW a \in Actions, StartRun(a) PROVE IInv' BY <1>12 DEF StartRun, Applying
<1>13. ASSUME NEW a \in Actions, Spawn(a) PROVE IInv' BY <1>13 DEF Spawn, Applying
<1>14. ASSUME NEW a \in Actions, AssignJob(a) PROVE IInv' BY <1>14 DEF AssignJob, Applying
<1>15. ASSUME NEW a \in Actions, Exit(a) PROVE IInv' BY <1>15 DEF Exit, Applying
<1>16. ASSUME NEW a \in Actions, Record(a) PROVE IInv' BY <1>16 DEF Record, Applying
<1>17. ASSUME NEW a \in Actions, Finish(a) PROVE IInv'
  <2>1. Policy[a] = "fail" => row[a] \in {"completed", "reboot"}
    BY <1>17 DEF Finish, Applying, Continues
  <2> QED BY <1>17, <2>1 DEF Finish, Applying
<1>18. CASE BeginRollback BY <1>18 DEF BeginRollback
<1>19. CASE FinishRollback
  <2>1. \A a \in Actions : opState[a] \in {"planned", "rolled_back"}
    BY <1>19 DEF FinishRollback, Undoable
  <2> QED BY <1>19, <2>1 DEF FinishRollback
<1>20. ASSUME NEW a \in Actions, StartUndo(a) PROVE IInv' BY <1>20 DEF StartUndo, Undoable
<1>21. ASSUME NEW a \in Actions, Undo(a) PROVE IInv' BY <1>21 DEF Undo
<1>28. ASSUME NEW a \in Actions, GiveUpRun(a) PROVE IInv' BY <1>28 DEF GiveUpRun
<1>22. CASE Crash BY <1>22 DEF Crash, EndProcess
<1>23. CASE FailForward BY <1>23 DEF FailForward
<1>24. ASSUME NEW a \in Actions, LaunchFailure(a) PROVE IInv'
  BY <1>24 DEF LaunchFailure, Applying
<1>25. ASSUME NEW a \in Actions, UndoError(a) PROVE IInv' BY <1>25 DEF UndoError, EndProcess
<1>26. ASSUME NEW a \in Actions, LooseExit(a) PROVE IInv' BY <1>26 DEF LooseExit
<1>27. CASE UNCHANGED vars BY <1>27 DEF vars
<1> QED BY <1>1, <1>2, <1>3, <1>4, <1>5, <1>6, <1>7, <1>8, <1>9, <1>10, <1>11, <1>12, <1>13,
           <1>14, <1>15, <1>16, <1>17, <1>18, <1>19, <1>20, <1>21, <1>22, <1>23, <1>24, <1>25,
           <1>26, <1>27, <1>28
        DEF Next, EngineStep, RunStep, WalkStep, RollbackStep, Fault

LEMMA Invariance == Spec => []IInv
<1>1. Init => IInv BY IInit
<1>2. IInv /\ [Next]_vars => IInv' BY INext
<1> QED BY <1>1, <1>2, PTL DEF Spec

\* Every variable keeps its type.
THEOREM TypeCorrect == Spec => []TypeOK
<1>1. IInv => TypeOK BY DEF IInv
<1> QED BY <1>1, Invariance, PTL

\* A committed transaction ran every action to a known end, and those whose
\* failure is fatal to a success, through any crashes and recoveries.
THEOREM CommittedActionsDone == Spec => []CommitMeansDone
<1>1. IInv => CommitMeansDone BY DEF IInv, RowsOK, CommitMeansDone
<1> QED BY <1>1, Invariance, PTL

\* No row of a closed transaction claims that a program is running.
THEOREM EvidenceClosed == Spec => []NoOpenEvidence
<1>1. IInv => NoOpenEvidence BY DEF IInv, TypeOK, RowsOK, NoOpenEvidence, Open, Verdicts
<1> QED BY <1>1, Invariance, PTL

\* The program in the job object is the one the engine waits for.
Supervised == jobbed # None => pc = "apply" /\ step = "running" /\ at = jobbed

LEMMA SupervisedNext == IInv /\ Supervised /\ [Next]_vars => Supervised'
<1> SUFFICES ASSUME IInv, Supervised, [Next]_vars PROVE Supervised' OBVIOUS
<1> USE ActionsAssumption DEF IInv, TypeOK, ProcessOK, Supervised, disk, world, process
<1>1. ASSUME NEW exe \in Exes, Start(exe) PROVE Supervised' BY <1>1 DEF Start
<1>2. CASE RunStep
  BY <1>2 DEF RunStep, Recover, Begin, LeaveBeforeTransaction, Cleanup, EndProcess
<1>3. CASE WalkStep
  BY <1>3 DEF WalkStep, FailByPolicy, Commit, StartOperation, Settle, MarkInterrupted, RunAgain,
              StartRun, Spawn, AssignJob, Exit, Record, Finish, Applying
<1>4. CASE RollbackStep
  BY <1>4 DEF RollbackStep, BeginRollback, FinishRollback, StartUndo, GiveUpRun, Undo
<1>5. CASE Fault
  BY <1>5 DEF Fault, Crash, FailForward, LaunchFailure, UndoError, EndProcess, Applying
<1>6. ASSUME NEW a \in Actions, LooseExit(a) PROVE Supervised' BY <1>6 DEF LooseExit
<1>7. CASE UNCHANGED vars BY <1>7 DEF vars
<1> QED BY <1>1, <1>2, <1>3, <1>4, <1>5, <1>6, <1>7 DEF Next, EngineStep

\* No program in the job object runs unrecorded, in a rollback, or after the
\* engine that started it.
THEOREM SupervisedIsEvidenced == Spec => []Evidenced
<1>1. Init => Supervised BY DEF Init, Supervised
<1>2. IInv /\ Supervised /\ [Next]_vars => Supervised' BY SupervisedNext
<1>3. IInv /\ Supervised => Evidenced
  BY DEF IInv, TypeOK, ProcessOK, RunOK, Supervised, Evidenced, Awaited
<1> QED BY <1>1, <1>2, <1>3, Invariance, PTL DEF Spec

\* No step of an open transaction changes the row of a run that ended.
LEMMA EndedStays ==
  ASSUME IInv, [Next]_vars, Open, NEW a \in Actions, row[a] \in Ended
  PROVE  row'[a] = row[a]
<1> USE DEF IInv, TypeOK, ProcessOK, RunOK, RowsOK, Ended, disk, world, process
<1>1. CASE \E exe \in Exes : Start(exe) BY <1>1 DEF Start
<1>2. CASE RunStep BY <1>2 DEF RunStep, Recover, Begin, LeaveBeforeTransaction, Cleanup
<1>3. CASE WalkStep
  BY <1>3 DEF WalkStep, FailByPolicy, Commit, StartOperation, Settle, MarkInterrupted, RunAgain,
              StartRun, Spawn, AssignJob, Exit, Record, Finish, Applying
<1>4. CASE RollbackStep
  BY <1>4 DEF RollbackStep, BeginRollback, FinishRollback, StartUndo, GiveUpRun, Undo
<1>5. CASE Fault BY <1>5 DEF Fault, Crash, FailForward, LaunchFailure, UndoError
<1>6. CASE \E b \in Actions : LooseExit(b) BY <1>6 DEF LooseExit
<1>7. CASE UNCHANGED vars BY <1>7 DEF vars
<1> QED BY <1>1, <1>2, <1>3, <1>4, <1>5, <1>6, <1>7 DEF Next, EngineStep

\* An action whose run ended is never run again by its transaction.
THEOREM EndedFinality == Spec => EndedIsFinal
<1>1. IInv /\ [Next]_vars => [Open => \A a \in Actions : row[a] \in Ended => row'[a] = row[a]]_vars
  BY EndedStays
<1> QED BY <1>1, Invariance, PTL DEF Spec, EndedIsFinal

----------------------------------------------------------------------------
(* The engine of each launch. *)

Searching == {"idle", "footer", "root", "sweep", "directory"}
Using     == {"extract", "extracting", "start", "wait"}
Cleaning  == {"cleanup", "unroot"}
Over      == {"done", "killed"}
Places    == Searching \cup Using \cup Cleaning \cup Over
Loaders   == [pc : Places, file : Files \cup {Nothing}, attempt : 0 .. MaxAttempts,
              dir : Names \cup {Nothing}, code : Codes \cup {Nothing}]

LaunchesTyped ==
  /\ elevated \subseteq Launches
  /\ path \in Files
  /\ content \in [Files -> Contents]
  /\ root \in BOOLEAN
  /\ folder \in [Names -> Folders \cup {Nothing}]
  /\ launch \in [Launches -> Loaders]
  /\ engine \in [Launches -> [pc : {"none", "started", "working", "refused", "ended"},
                              reads : Files \cup {Nothing}]]
  /\ helpers \in 0 .. Helpers

\* Where a launch is, what it has chosen by then, and who has a root.
PlacedAt(l) ==
  /\ launch[l].pc # "idle" => launch[l].file \in Files
  /\ launch[l].pc \in {"idle", "footer", "root"} => launch[l].attempt = 0
  /\ launch[l].pc \in Searching => launch[l].dir = Nothing
  /\ launch[l].pc \in Using \cup Cleaning => launch[l].dir # Nothing
  /\ launch[l].dir # Nothing => launch[l].dir[1] = l
  /\ launch[l].pc \in {"root", "sweep", "unroot"} => Root(l)

Placed == \A l \in Launches : PlacedAt(l)

\* A directory is the one its launch made, or one of somebody else.
Owned ==
  \A d \in Names : folder[d] # Nothing =>
    IF launch[d[1]].dir = d THEN folder[d].owner = d[1]
    ELSE folder[d].owner = Nothing /\ d \in Taken

\* Only a sweep takes a directory away from a launch that is using it.
SweptAt(l) == launch[l].pc \in Using /\ Own(l) = Nothing => l \in swept
Swept      == \A l \in Launches : SweptAt(l)

\* What was verified stays what it was.
VerifiedAt(l) ==
  /\ launch[l].pc \in {"start", "wait"} =>
       /\ content[launch[l].file] = "intact"
       /\ Own(l) # Nothing => Own(l).file = "engine"
  /\ launch[l].pc = "wait" /\ EngineAlive(l) => Own(l) # Nothing
  /\ launch[l].pc = "wait" /\ engine[l].pc = "working" => engine[l].reads = launch[l].file

Verified == \A l \in Launches : VerifiedAt(l)

\* The launches and helpers that can no longer remove the root, and the names
\* a launch found taken.
Others(l) == {m \in Launches \ {l} : launch[m].pc \in Over}
Met(l)    == {d \in Taken : d[1] = l /\ d[2] < launch[l].attempt}
Excuses(l) == Cardinality(Others(l)) + (Helpers - helpers) + Cardinality(Met(l))

\* Each attempt of a launch was spent on one of those.
SpentAt(l) ==
  launch[l].pc \in Searching =>
    /\ launch[l].attempt <= Excuses(l)
    /\ launch[l].pc \in {"sweep", "directory"} /\ Root(l) /\ ~root =>
         launch[l].attempt < Excuses(l)

Spent == \A l \in Launches : SpentAt(l)

\* A directory that outlives its launch is one it could not remove.
LeftAt(l) ==
  launch[l].pc \in {"unroot", "done"} /\ launch[l].dir # Nothing /\ Own(l) # Nothing =>
    Own(l).file = "held"

Left == \A l \in Launches : LeftAt(l)

\* An empty root has somebody who will remove it, or was killed before.
Minded ==
  root /\ Empty =>
    \E l \in Launches :
      Root(l) /\ launch[l].pc \in {"sweep", "directory", "killed"} \cup Using \cup Cleaning

LInv == LaunchesTyped /\ Placed /\ Owned /\ Swept /\ Verified /\ Spent /\ FailsAlone /\ Left /\ Minded

----------------------------------------------------------------------------
(* What the actions do to the launches.                                    *)

\* One launch changes, to a place and a code; but for what the last three
\* parameters say of it, it stays what it was.
Only(l, to, code, file, attempt, dir) ==
  /\ launch' \in [Launches -> Loaders]
  /\ \A m \in Launches \ {l} : launch'[m] = launch[m]
  /\ launch'[l].pc = to /\ launch'[l].code = code
  /\ launch'[l].file = file /\ launch'[l].attempt = attempt /\ launch'[l].dir = dir

Moved(l, from, to, code) ==
  /\ launch[l].pc = from
  /\ Only(l, to, code, launch[l].file, launch[l].attempt, launch[l].dir)

LEMMA GoesMoves ==
  ASSUME LaunchesTyped, NEW l \in Launches, NEW from, NEW to \in Places, Goes(l, from, to)
  PROVE  Moved(l, from, to, launch[l].code)
  BY DEF LaunchesTyped, Goes, Moved, Only, Loaders

LEMMA EndsMoves ==
  ASSUME LaunchesTyped, NEW l \in Launches, NEW from, NEW to \in Places, NEW code \in Codes,
         Ends(l, from, to, code)
  PROVE  Moved(l, from, to, code)
  BY DEF LaunchesTyped, Ends, Moved, Only, Loaders

\* The three outcomes of CreateDirectory.
Free(l) == folder[Name(l)] = Nothing /\ (Root(l) => root)

Makes(l) ==
  /\ launch[l].pc = "directory" /\ Free(l)
  /\ folder' = [folder EXCEPT ![Name(l)] = Folder(l, "none")]
  /\ Only(l, "extract", launch[l].code, launch[l].file, launch[l].attempt, Name(l))
  /\ root' = root

Retries(l) ==
  /\ launch[l].pc = "directory" /\ ~Free(l) /\ launch[l].attempt < MaxAttempts
  /\ Only(l, "directory", launch[l].code, launch[l].file, launch[l].attempt + 1, launch[l].dir)
  /\ root' = (root \/ Root(l)) /\ folder' = folder

GivesUp(l) ==
  /\ ~Free(l) /\ launch[l].attempt = MaxAttempts
  /\ Moved(l, "directory", "done", "unstarted")
  /\ root' = root /\ folder' = folder

\* What each action of a launch does to it.
LEMMA StepMoves ==
  ASSUME LaunchesTyped, NEW l \in Launches
  PROVE  /\ OpenInstaller(l) => /\ launch[l].pc = "idle"
                       /\ Only(l, "footer", launch[l].code, path, launch[l].attempt, launch[l].dir)
         /\ ReadFooter(l) => \/ Moved(l, "footer", "done", "damaged")
                             \/ Moved(l, "footer", "root", launch[l].code) /\ Root(l)
                             \/ Moved(l, "footer", "directory", launch[l].code) /\ ~Root(l)
         /\ CreateRoot(l) => Moved(l, "root", "sweep", launch[l].code)
         /\ SweepStale(l) => Moved(l, "sweep", "directory", launch[l].code)
         /\ CreateDirectory(l) => Makes(l) \/ Retries(l) \/ GivesUp(l)
         /\ StartExtracting(l) =>
              IF Own(l) = Nothing THEN Moved(l, "extract", "cleanup", "unstarted")
              ELSE Moved(l, "extract", "extracting", launch[l].code)
         /\ EndExtracting(l) =>
              IF Verifies(l) THEN Moved(l, "extracting", "start", launch[l].code)
              ELSE Moved(l, "extracting", "cleanup", "damaged")
         /\ StartEngine(l) =>
              IF Own(l) = Nothing THEN Moved(l, "start", "cleanup", "unstarted")
              ELSE Moved(l, "start", "wait", launch[l].code)
         /\ Waited(l) => Moved(l, "wait", "cleanup", engine[l].pc)
         /\ RemoveDirectory(l) => \/ Moved(l, "cleanup", "unroot", launch[l].code) /\ Root(l)
                                  \/ Moved(l, "cleanup", "done", launch[l].code) /\ ~Root(l)
         /\ RemoveRoot(l) => Moved(l, "unroot", "done", launch[l].code)
         /\ Kill(l) => /\ Moved(l, launch[l].pc, "killed", launch[l].code)
                       /\ launch[l].pc \notin {"idle", "done", "killed"}
<1> DEFINE code == launch[l].code
<1>0. {"footer", "root", "directory", "sweep", "extract", "extracting", "start", "wait",
       "cleanup", "unroot", "done", "killed"} \subseteq Places
      /\ {"damaged", "unstarted", "refused", "ended"} \subseteq Codes
  BY DEF Places, Searching, Using, Cleaning, Over, Codes
<1>1. OpenInstaller(l) => /\ launch[l].pc = "idle"
                 /\ Only(l, "footer", code, path, launch[l].attempt, launch[l].dir)
  <2>1. "footer" \in Places /\ path \in Files /\ launch \in [Launches -> Loaders]
    BY <1>0 DEF LaunchesTyped
  <2>2. OpenInstaller(l) => launch' = [launch EXCEPT ![l].pc = "footer", ![l].file = path]
    BY DEF OpenInstaller
  <2>3. OpenInstaller(l) => Only(l, "footer", code, path, launch[l].attempt, launch[l].dir)
    BY <2>1, <2>2 DEF Only, Loaders
  <2> QED BY <2>3 DEF OpenInstaller
<1>2. ReadFooter(l) => \/ Moved(l, "footer", "done", "damaged")
                       \/ Moved(l, "footer", "root", code) /\ Root(l)
                       \/ Moved(l, "footer", "directory", code) /\ ~Root(l)
  BY <1>0, GoesMoves, EndsMoves DEF ReadFooter
<1>3. CreateRoot(l) => Moved(l, "root", "sweep", code) BY <1>0, GoesMoves DEF CreateRoot
<1>4. SweepStale(l) => Moved(l, "sweep", "directory", code)
  BY <1>0, GoesMoves DEF SweepStale
<1>5. ASSUME CreateDirectory(l) PROVE Makes(l) \/ Retries(l) \/ GivesUp(l)
  <2> DEFINE attempt == launch[l].attempt
  <2>0. launch[l] \in Loaders /\ attempt \in 0 .. MaxAttempts /\ Name(l) \in Names
    BY DEF LaunchesTyped, Loaders, Name, Names
  <2>1. CASE Free(l)
    <3>1. launch' = [launch EXCEPT ![l].pc = "extract", ![l].dir = Name(l)]
      BY <1>5, <2>1 DEF CreateDirectory, Free
    <3>2. Only(l, "extract", code, launch[l].file, attempt, Name(l))
      BY <1>0, <2>0, <3>1 DEF Only, LaunchesTyped, Loaders
    <3> QED BY <1>5, <2>1, <3>2 DEF CreateDirectory, Free, Makes
  <2>2. CASE ~Free(l) /\ MayRetry(l)
    <3>1. /\ launch[l].pc = "directory" /\ attempt < MaxAttempts
          /\ launch' = [launch EXCEPT ![l].attempt = attempt + 1]
          /\ root' = (root \/ Root(l)) /\ folder' = folder
      BY <1>5, <2>2 DEF CreateDirectory, Free, MayRetry
    <3>2. attempt + 1 \in 0 .. MaxAttempts BY <2>0, <3>1, LoaderAssumption
    <3>3. Only(l, "directory", code, launch[l].file, attempt + 1, launch[l].dir)
      BY <1>0, <2>0, <3>1, <3>2 DEF Only, LaunchesTyped, Loaders
    <3> QED BY <2>2, <3>1, <3>3 DEF Retries
  <2>3. CASE ~Free(l) /\ ~MayRetry(l)
    <3>1. Ends(l, "directory", "done", "unstarted") /\ root' = root /\ folder' = folder
      BY <1>5, <2>3 DEF CreateDirectory, Free
    <3>2. attempt = MaxAttempts BY <2>0, <2>3, LoaderAssumption DEF Free, MayRetry
    <3> QED BY <1>0, <2>3, <3>1, <3>2, EndsMoves DEF GivesUp
  <2> QED BY <2>1, <2>2, <2>3
<1>6. StartExtracting(l) =>
        IF Own(l) = Nothing THEN Moved(l, "extract", "cleanup", "unstarted")
        ELSE Moved(l, "extract", "extracting", code)
  BY <1>0, GoesMoves, EndsMoves DEF StartExtracting
<1>7. EndExtracting(l) =>
        IF Verifies(l) THEN Moved(l, "extracting", "start", code)
        ELSE Moved(l, "extracting", "cleanup", "damaged")
  BY <1>0, GoesMoves, EndsMoves DEF EndExtracting
<1>8. StartEngine(l) =>
        IF Own(l) = Nothing THEN Moved(l, "start", "cleanup", "unstarted")
        ELSE Moved(l, "start", "wait", code)
  BY <1>0, GoesMoves, EndsMoves DEF StartEngine
<1>9. Waited(l) => Moved(l, "wait", "cleanup", engine[l].pc) BY <1>0, EndsMoves DEF Waited
<1>10. RemoveDirectory(l) => \/ Moved(l, "cleanup", "unroot", code) /\ Root(l)
                             \/ Moved(l, "cleanup", "done", code) /\ ~Root(l)
  BY <1>0, GoesMoves DEF RemoveDirectory, AfterCleanup
<1>11. RemoveRoot(l) => Moved(l, "unroot", "done", code) BY <1>0, GoesMoves DEF RemoveRoot
<1>12. Kill(l) => /\ Moved(l, launch[l].pc, "killed", code)
                  /\ launch[l].pc \notin {"idle", "done", "killed"}
  <2>1. Kill(l) => Goes(l, launch[l].pc, "killed") BY DEF Kill, Goes
  <2> QED BY <1>0, <2>1, GoesMoves DEF Kill
<1> QED BY <1>1, <1>2, <1>3, <1>4, <1>5, <1>6, <1>7, <1>8, <1>9, <1>10, <1>11, <1>12

----------------------------------------------------------------------------
(* Each part of the invariant is kept.                                     *)

\* Every step keeps the types.
LEMMA TypeNext == LaunchesTyped /\ [LoaderNext]_loaderVars => LaunchesTyped'
<1> SUFFICES ASSUME LaunchesTyped, [LoaderNext]_loaderVars PROVE LaunchesTyped' OBVIOUS
<1> DEFINE Goal == LaunchesTyped'
<1>0. \A l \in Launches, f \in {"none", "partial", "engine"} : Folder(l, f) \in Folders
  BY DEF Folder, Folders
<1> USE LoaderAssumption DEF LaunchesTyped
<1>1. ASSUME NEW l \in Launches, OpenInstaller(l) PROVE Goal
  BY <1>1, StepMoves DEF OpenInstaller, Moved, Only
<1>2. ASSUME NEW l \in Launches, ReadFooter(l) PROVE Goal
  BY <1>2, StepMoves DEF ReadFooter, Moved, Only
<1>3. ASSUME NEW l \in Launches, CreateRoot(l) PROVE Goal
  BY <1>3, StepMoves DEF CreateRoot, Moved, Only
<1>4. ASSUME NEW l \in Launches, SweepStale(l) PROVE Goal
  BY <1>4, StepMoves DEF SweepStale, Moved, Only, Stale
<1>5. ASSUME NEW l \in Launches, CreateDirectory(l) PROVE Goal
  <2>1. folder' \in [Names -> Folders \cup {Nothing}]
    BY <1>5, StepMoves, <1>0 DEF Makes, Retries, GivesUp
  <2>2. launch' \in [Launches -> Loaders] /\ root' \in BOOLEAN
    BY <1>5, StepMoves DEF Makes, Retries, GivesUp, Moved, Only
  <2> QED BY <1>5, <2>1, <2>2 DEF CreateDirectory
<1>6. ASSUME NEW l \in Launches, StartExtracting(l) PROVE Goal
  <2>1. folder' \in [Names -> Folders \cup {Nothing}] BY <1>6, <1>0 DEF StartExtracting
  <2>2. launch' \in [Launches -> Loaders] BY <1>6, StepMoves DEF Moved, Only
  <2> QED BY <1>6, <2>1, <2>2 DEF StartExtracting
<1>7. ASSUME NEW l \in Launches, EndExtracting(l) PROVE Goal
  <2>1. folder' \in [Names -> Folders \cup {Nothing}] BY <1>7, <1>0 DEF EndExtracting
  <2>2. launch' \in [Launches -> Loaders] BY <1>7, StepMoves DEF Moved, Only
  <2> QED BY <1>7, <2>1, <2>2 DEF EndExtracting
<1>8. ASSUME NEW l \in Launches, StartEngine(l) PROVE Goal
  <2>1. launch' \in [Launches -> Loaders] BY <1>8, StepMoves DEF Moved, Only
  <2>2. engine' = engine \/ engine' = [engine EXCEPT ![l].pc = "started"]
    BY <1>8 DEF StartEngine
  <2> QED BY <1>8, <2>1, <2>2 DEF StartEngine
<1>9. ASSUME NEW l \in Launches, EngineOpens(l) PROVE Goal BY <1>9 DEF EngineOpens
<1>10. ASSUME NEW l \in Launches, EngineEnds(l) PROVE Goal BY <1>10 DEF EngineEnds
<1>11. ASSUME NEW l \in Launches, Waited(l) PROVE Goal
  BY <1>11, StepMoves DEF Waited, Moved, Only
<1>12. ASSUME NEW l \in Launches, RemoveDirectory(l) PROVE Goal
  <2>1. launch' \in [Launches -> Loaders] BY <1>12, StepMoves DEF Moved, Only
  <2>2. ASSUME launch[l].dir \in Names, Own(l) # Nothing
        PROVE  [Own(l) EXCEPT !.file = "held"] \in Folders
    BY <2>2 DEF Own, Folders
  <2>3. folder' \in [Names -> Folders \cup {Nothing}]
    BY <1>12, <2>2 DEF RemoveDirectory, Own
  <2> QED BY <1>12, <2>1, <2>3 DEF RemoveDirectory
<1>13. ASSUME NEW l \in Launches, RemoveRoot(l) PROVE Goal
  BY <1>13, StepMoves DEF RemoveRoot, Moved, Only
<1>14. ASSUME NEW l \in Launches, Kill(l) PROVE Goal
  BY <1>14, StepMoves DEF Kill, Moved, Only
<1>15. CASE Help BY <1>15 DEF Help
<1>16. CASE Replace BY <1>16 DEF Replace
<1>17. ASSUME NEW d \in Names, Age(d) PROVE Goal
  <2>1. [folder[d] EXCEPT !.old = TRUE] \in Folders BY <1>17 DEF Age, Folders
  <2> QED BY <1>17, <2>1 DEF Age
<1>18. CASE UNCHANGED loaderVars BY <1>18 DEF loaderVars
<1> QED
  BY <1>1, <1>2, <1>3, <1>4, <1>5, <1>6, <1>7, <1>8, <1>9, <1>10, <1>11, <1>12, <1>13, <1>14, <1>15, <1>16, <1>17, <1>18 DEF LoaderNext, Step

\* Every step leaves each launch where it may be.
LEMMA PlacedNext == LaunchesTyped /\ Placed /\ [LoaderNext]_loaderVars => Placed'
<1> SUFFICES ASSUME LaunchesTyped /\ Placed, [LoaderNext]_loaderVars PROVE Placed' OBVIOUS
<1> DEFINE Goal == Placed'
<1>0. elevated' = elevated
  BY DEF LoaderNext, Step, OpenInstaller, ReadFooter, CreateRoot, SweepStale, CreateDirectory, StartExtracting, EndExtracting,
         StartEngine, EngineOpens, EngineEnds, Waited, RemoveDirectory, RemoveRoot, Kill, Help,
         Replace, Age, loaderVars
<1> USE LoaderAssumption DEF LaunchesTyped, Placed, PlacedAt, Root, Searching, Using, Cleaning
<1>1. ASSUME NEW l \in Launches, OpenInstaller(l) PROVE Goal
  <2>1. PlacedAt(l)' BY <1>1, <1>0, StepMoves DEF Only
  <2> QED BY <1>1, <1>0, <2>1, StepMoves DEF Only
<1>2. ASSUME NEW l \in Launches, ReadFooter(l) PROVE Goal
  <2>1. PlacedAt(l)' BY <1>2, <1>0, StepMoves DEF Moved, Only
  <2> QED BY <1>2, <1>0, <2>1, StepMoves DEF Moved, Only
<1>3. ASSUME NEW l \in Launches, CreateRoot(l) PROVE Goal
  BY <1>3, <1>0, StepMoves DEF Moved, Only
<1>4. ASSUME NEW l \in Launches, SweepStale(l) PROVE Goal
  BY <1>4, <1>0, StepMoves DEF Moved, Only
<1>5. ASSUME NEW l \in Launches, CreateDirectory(l) PROVE Goal
  <2>1. CASE Makes(l)
    <3>1. Name(l) \in Names /\ Name(l)[1] = l BY DEF Name, Names, Loaders
    <3>2. PlacedAt(l)' BY <1>0, <2>1, <3>1 DEF Makes, Only
    <3> QED BY <1>0, <2>1, <3>2 DEF Makes, Only
  <2>2. CASE Retries(l) BY <1>5, <1>0, <2>2 DEF Retries, Only
  <2>3. CASE GivesUp(l) BY <1>5, <1>0, <2>3 DEF GivesUp, Moved, Only
  <2> QED BY <1>5, <2>1, <2>2, <2>3, StepMoves
<1>6. ASSUME NEW l \in Launches, StartExtracting(l) PROVE Goal
  BY <1>6, <1>0, StepMoves DEF Moved, Only
<1>7. ASSUME NEW l \in Launches, EndExtracting(l) PROVE Goal
  BY <1>7, <1>0, StepMoves DEF Moved, Only
<1>8. ASSUME NEW l \in Launches, StartEngine(l) PROVE Goal
  <2>1. PlacedAt(l)' BY <1>8, <1>0, StepMoves DEF Moved, Only
  <2> QED BY <1>8, <1>0, <2>1, StepMoves DEF Moved, Only
<1>9. ASSUME NEW l \in Launches, EngineOpens(l) PROVE Goal BY <1>9 DEF EngineOpens
<1>10. ASSUME NEW l \in Launches, EngineEnds(l) PROVE Goal BY <1>10 DEF EngineEnds
<1>11. ASSUME NEW l \in Launches, Waited(l) PROVE Goal
  BY <1>11, <1>0, StepMoves DEF Moved, Only
<1>12. ASSUME NEW l \in Launches, RemoveDirectory(l) PROVE Goal
  <2>1. PlacedAt(l)' BY <1>12, <1>0, StepMoves DEF Moved, Only
  <2> QED BY <1>12, <1>0, <2>1, StepMoves DEF Moved, Only
<1>13. ASSUME NEW l \in Launches, RemoveRoot(l) PROVE Goal
  BY <1>13, <1>0, StepMoves DEF Moved, Only
<1>14. ASSUME NEW l \in Launches, Kill(l) PROVE Goal
  BY <1>14, <1>0, StepMoves DEF Moved, Only
<1>15. CASE Help BY <1>15 DEF Help
<1>16. CASE Replace BY <1>16 DEF Replace
<1>17. ASSUME NEW d \in Names, Age(d) PROVE Goal BY <1>17 DEF Age
<1>18. CASE UNCHANGED loaderVars BY <1>18 DEF loaderVars
<1> QED
  BY <1>1, <1>2, <1>3, <1>4, <1>5, <1>6, <1>7, <1>8, <1>9, <1>10, <1>11, <1>12, <1>13, <1>14, <1>15, <1>16, <1>17, <1>18 DEF LoaderNext, Step

\* Nobody but a sweep touches the directory of another launch.
LEMMA OthersKept ==
  ASSUME LaunchesTyped, Placed, NEW l \in Launches, Step(l) \/ Kill(l), NEW m \in Launches \ {l}
  PROVE  /\ launch'[m] = launch[m]
         /\ launch[m].dir # Nothing =>
              \/ Own(m)' = Own(m)
              \/ SweepStale(l) /\ launch[m].dir \in Stale /\ Own(m)' = Nothing
<1>1. launch'[m] = launch[m]
  <2>1. CreateDirectory(l) => launch'[m] = launch[m]
    BY StepMoves DEF Makes, Retries, GivesUp, Moved, Only
  <2> QED BY <2>1, StepMoves DEF Step, Moved, Only, EngineOpens, EngineEnds
<1>2. ASSUME launch[m].dir # Nothing
      PROVE  \/ Own(m)' = Own(m)
             \/ SweepStale(l) /\ launch[m].dir \in Stale /\ Own(m)' = Nothing
  <2> DEFINE d == launch[m].dir
  <2>1. d \in Names /\ d[1] = m /\ launch'[m].dir = d
    BY <1>1, <1>2 DEF LaunchesTyped, Loaders, Placed, PlacedAt
  <2>7. Own(m)' = folder'[d] /\ Own(m) = folder[d] BY <2>1 DEF Own
  <2>2. launch[l].dir # d /\ Name(l) # d
    BY <2>1, LoaderAssumption DEF Placed, PlacedAt, Name
  <2>3. CASE SweepStale(l) BY <2>1, <2>7, <2>3 DEF SweepStale
  <2>4. CASE CreateDirectory(l)
    BY <2>1, <2>7, <2>2, <2>4, StepMoves DEF Makes, Retries, GivesUp, LaunchesTyped
  <2>5. CASE StartExtracting(l) \/ EndExtracting(l) \/ RemoveDirectory(l)
    BY <2>1, <2>7, <2>2, <2>5 DEF StartExtracting, EndExtracting, RemoveDirectory, LaunchesTyped
  <2>6. CASE folder' = folder BY <2>7, <2>6
  <2> QED
    BY <2>3, <2>4, <2>5, <2>6 DEF Step, OpenInstaller, ReadFooter, CreateRoot, StartEngine, EngineOpens,
       EngineEnds, Waited, RemoveRoot, Kill
<1> QED BY <1>1, <1>2

\* Every step leaves the directories with their owners.
LEMMA OwnedNext == LaunchesTyped /\ Placed /\ Owned /\ [LoaderNext]_loaderVars => Owned'
<1> SUFFICES ASSUME LaunchesTyped /\ Placed /\ Owned, [LoaderNext]_loaderVars PROVE Owned'
  OBVIOUS
<1> DEFINE Goal == Owned'
<1> DEFINE SameDirs == \A m \in Launches : launch'[m].dir = launch[m].dir
           KeptAt(d) == \/ folder[d] # Nothing /\ folder'[d].owner = folder[d].owner
                        \/ launch[d[1]].dir = d /\ folder'[d].owner = d[1]
<1>0. ASSUME SameDirs, \A d \in Names : folder'[d] # Nothing => KeptAt(d)
      PROVE  Owned'
  BY <1>0 DEF Owned, Names
<1> USE LoaderAssumption DEF LaunchesTyped
<1>1. ASSUME NEW l \in Launches, OpenInstaller(l) PROVE Goal
  <2>1. SameDirs BY <1>1, StepMoves DEF Moved, Only
  <2> QED BY <1>1, <2>1, <1>0 DEF OpenInstaller
<1>2. ASSUME NEW l \in Launches, ReadFooter(l) PROVE Goal
  <2>1. SameDirs BY <1>2, StepMoves DEF Moved, Only
  <2> QED BY <1>2, <2>1, <1>0 DEF ReadFooter
<1>3. ASSUME NEW l \in Launches, CreateRoot(l) PROVE Goal
  <2>1. SameDirs BY <1>3, StepMoves DEF Moved, Only
  <2> QED BY <1>3, <2>1, <1>0 DEF CreateRoot
<1>4. ASSUME NEW l \in Launches, SweepStale(l) PROVE Goal
  <2>1. SameDirs BY <1>4, StepMoves DEF Moved, Only
  <2>2. ASSUME NEW d \in Names, folder'[d] # Nothing PROVE KeptAt(d)
    BY <1>4, <2>2 DEF SweepStale
  <2> QED BY <2>1, <2>2, <1>0
<1>5. ASSUME NEW l \in Launches, CreateDirectory(l) PROVE Goal
  <2>1. CASE Makes(l)
    <3>1. Name(l) \in Names /\ Name(l)[1] = l /\ launch[l].dir = Nothing
      BY <2>1 DEF Makes, Name, Names, Loaders, Placed, PlacedAt, Searching
    <3>2. ASSUME NEW d \in Names, folder'[d] # Nothing
          PROVE IF launch'[d[1]].dir = d THEN folder'[d].owner = d[1]
                ELSE folder'[d].owner = Nothing /\ d \in Taken
      <4>0. d[1] \in Launches BY DEF Names
      <4>1. CASE d = Name(l) BY <2>1, <3>1, <4>1 DEF Makes, Only, Folder
      <4>2. CASE d # Name(l) /\ d[1] = l
        BY <2>1, <3>1, <3>2, <4>2, LoaderAssumption DEF Makes, Only, Owned
      <4>3. CASE d[1] # l
        <5>1. folder'[d] = folder[d] /\ launch'[d[1]] = launch[d[1]]
          BY <2>1, <3>1, <4>0, <4>3 DEF Makes, Only
        <5> QED BY <3>2, <5>1 DEF Owned
      <4> QED BY <4>1, <4>2, <4>3
    <3> QED BY <3>2 DEF Owned
  <2>2. CASE Retries(l) \/ GivesUp(l)
    <3>1. SameDirs BY <2>2 DEF Retries, GivesUp, Moved, Only
    <3> QED BY <2>2, <3>1, <1>0 DEF Retries, GivesUp, Moved
  <2> QED BY <1>5, <2>1, <2>2, StepMoves
<1>6. ASSUME NEW l \in Launches, StartExtracting(l) PROVE Goal
  <2>1. SameDirs BY <1>6, StepMoves DEF Moved, Only
  <2>2. launch[l].pc \in Using /\ launch[l].dir \in Names /\ launch[l].dir[1] = l
    BY <1>6, StepMoves DEF Moved, Using, Placed, PlacedAt, Loaders
  <2>3. ASSUME NEW d \in Names, folder'[d] # Nothing PROVE KeptAt(d)
    BY <1>6, <2>1, <2>2, <2>3 DEF StartExtracting, Folder
  <2> QED BY <2>1, <2>3, <1>0
<1>7. ASSUME NEW l \in Launches, EndExtracting(l) PROVE Goal
  <2>1. SameDirs BY <1>7, StepMoves DEF Moved, Only
  <2>2. launch[l].pc \in Using /\ launch[l].dir \in Names /\ launch[l].dir[1] = l
    BY <1>7, StepMoves DEF Moved, Using, Placed, PlacedAt, Loaders
  <2>3. ASSUME NEW d \in Names, folder'[d] # Nothing PROVE KeptAt(d)
    BY <1>7, <2>1, <2>2, <2>3 DEF EndExtracting, Folder
  <2> QED BY <2>1, <2>3, <1>0
<1>8. ASSUME NEW l \in Launches, StartEngine(l) PROVE Goal
  <2>1. SameDirs BY <1>8, StepMoves DEF Moved, Only
  <2> QED BY <1>8, <2>1, <1>0 DEF StartEngine
<1>9. ASSUME NEW l \in Launches, EngineOpens(l) PROVE Goal BY <1>9, <1>0 DEF EngineOpens
<1>10. ASSUME NEW l \in Launches, EngineEnds(l) PROVE Goal BY <1>10, <1>0 DEF EngineEnds
<1>11. ASSUME NEW l \in Launches, Waited(l) PROVE Goal
  <2>1. SameDirs BY <1>11, StepMoves DEF Moved, Only
  <2> QED BY <1>11, <2>1, <1>0 DEF Waited
<1>12. ASSUME NEW l \in Launches, RemoveDirectory(l) PROVE Goal
  <2>1. SameDirs BY <1>12, StepMoves DEF Moved, Only
  <2>2. launch[l].dir \in Names /\ folder[launch[l].dir] \in Folders \cup {Nothing}
    BY <1>12, StepMoves DEF Moved, Cleaning, Placed, PlacedAt, Loaders
  <2>3. ASSUME NEW d \in Names, folder'[d] # Nothing PROVE KeptAt(d)
    BY <1>12, <2>2, <2>3 DEF RemoveDirectory, Folders
  <2> QED BY <2>1, <2>3, <1>0
<1>13. ASSUME NEW l \in Launches, RemoveRoot(l) PROVE Goal
  <2>1. SameDirs BY <1>13, StepMoves DEF Moved, Only
  <2> QED BY <1>13, <2>1, <1>0 DEF RemoveRoot
<1>14. ASSUME NEW l \in Launches, Kill(l) PROVE Goal
  <2>1. SameDirs BY <1>14, StepMoves DEF Moved, Only
  <2> QED BY <1>14, <2>1, <1>0 DEF Kill
<1>15. CASE Help BY <1>15, <1>0 DEF Help
<1>16. CASE Replace BY <1>16, <1>0 DEF Replace
<1>17. ASSUME NEW d \in Names, Age(d) PROVE Goal
  <2>1. ASSUME NEW e \in Names, folder'[e] # Nothing PROVE KeptAt(e)
    BY <1>17, <2>1 DEF Age, Folders
  <2> QED BY <1>17, <2>1, <1>0 DEF Age
<1>18. CASE UNCHANGED loaderVars BY <1>18, <1>0 DEF loaderVars
<1> QED
  BY <1>1, <1>2, <1>3, <1>4, <1>5, <1>6, <1>7, <1>8, <1>9, <1>10, <1>11, <1>12, <1>13, <1>14, <1>15, <1>16, <1>17, <1>18 DEF LoaderNext, Step

\* What holds of a launch and its directory.
UsedAt(l) == SweptAt(l) /\ VerifiedAt(l) /\ LeftAt(l)
Used      == Swept /\ Verified /\ Left

\* A step of another launch keeps it.
LEMMA OthersUsed ==
  ASSUME LaunchesTyped, Placed, Owned, Used, NEW l \in Launches, Step(l) \/ Kill(l),
         NEW m \in Launches \ {l}
  PROVE  UsedAt(m)'
<1>1. launch'[m] = launch[m] /\ UsedAt(m)
  BY OthersKept DEF Used, UsedAt, Swept, Verified, Left
<1>2. engine'[m] = engine[m] /\ content' = content /\ swept \subseteq swept'
  BY DEF Step, OpenInstaller, ReadFooter, CreateRoot, SweepStale, CreateDirectory, StartExtracting,
         EndExtracting, StartEngine, EngineOpens, EngineEnds, Waited, RemoveDirectory,
         RemoveRoot, Kill, LaunchesTyped
<1>3. launch[m].pc \in Using \/ launch[m].dir # Nothing \/ launch[m].pc \notin {"start", "wait"}
  BY DEF Using
<1>4. CASE launch[m].dir # Nothing /\ Own(m)' = Own(m)
  BY <1>1, <1>2, <1>4 DEF UsedAt, SweptAt, VerifiedAt, LeftAt, EngineAlive
<1>5. CASE launch[m].dir # Nothing /\ SweepStale(l) /\ launch[m].dir \in Stale /\ Own(m)' = Nothing
  <2>1. launch[m].dir[1] = m /\ folder[launch[m].dir].owner = m /\ ~InUse(launch[m].dir)
    BY <1>5 DEF Stale, Owned, Placed, PlacedAt
  <2>2. m \in swept' BY <1>5, <2>1 DEF SweepStale
  <2>3. ~EngineAlive(m) BY <2>1, LoaderAssumption DEF InUse
  <2> QED
    BY <1>1, <1>2, <1>5, <2>2, <2>3 DEF UsedAt, SweptAt, VerifiedAt, LeftAt, EngineAlive
<1>6. CASE launch[m].dir = Nothing
  BY <1>1, <1>6 DEF Placed, PlacedAt, UsedAt, SweptAt, VerifiedAt, LeftAt, Using
<1> QED BY <1>4, <1>5, <1>6, OthersKept

\* A step of the launch keeps it.
LEMMA OwnUsed ==
  ASSUME LaunchesTyped, Placed, Owned, Used, NEW l \in Launches, Step(l) \/ Kill(l)
  PROVE  UsedAt(l)'
<1>1. UsedAt(l) /\ PlacedAt(l) /\ launch[l] \in Loaders
  BY DEF Used, UsedAt, Swept, Verified, Left, Placed, LaunchesTyped
<1>0. \A f \in {"none", "partial", "engine"} : Folder(l, f) # Nothing /\ Folder(l, f).file = f
  <2>1. \A f \in {"none", "partial", "engine"} : Folder(l, f) \in Folders
    BY DEF Folder, Folders
  <2> QED BY <2>1, LoaderAssumption DEF Folder
<1> USE DEF UsedAt, SweptAt, VerifiedAt, LeftAt, Using
<1>2. CASE OpenInstaller(l) \/ ReadFooter(l) \/ CreateRoot(l) \/ SweepStale(l)
  <2>1. launch'[l].pc \notin Using \cup {"unroot"} /\ launch'[l].dir = Nothing
    BY <1>1, <1>2, StepMoves DEF Moved, Only, PlacedAt, Searching
  <2> QED BY <2>1
<1>3. CASE CreateDirectory(l)
  <2>1. CASE Makes(l)
    <3>1. launch'[l].pc = "extract" /\ launch'[l].dir = Name(l) /\ Name(l) \in Names
      BY <1>1, <2>1 DEF Makes, Only, Name, Names, Loaders
    <3>2. Own(l)' # Nothing BY <1>0, <2>1, <3>1 DEF Makes, Own, LaunchesTyped
    <3> QED BY <3>1, <3>2
  <2>2. CASE Retries(l) \/ GivesUp(l)
    <3>1. launch'[l].pc \in {"directory", "done"} /\ launch'[l].dir = Nothing
      BY <1>1, <2>2 DEF Retries, GivesUp, Moved, Only, PlacedAt, Searching
    <3> QED BY <3>1
  <2> QED BY <1>3, <2>1, <2>2, StepMoves
<1> DEFINE d == launch[l].dir
<1>4. CASE StartExtracting(l)
  <2>1. d \in Names /\ launch'[l].dir = d
    BY <1>1, <1>4, StepMoves DEF Moved, Only, PlacedAt, Loaders
  <2>2. CASE Own(l) = Nothing BY <1>4, <2>2, StepMoves DEF Moved, Only
  <2>3. CASE Own(l) # Nothing
    <3>1. launch'[l].pc = "extracting" /\ folder' = [folder EXCEPT ![d] = Folder(l, "partial")]
      BY <1>4, <2>3, StepMoves DEF Moved, Only, StartExtracting
    <3>2. Own(l)' # Nothing BY <1>0, <2>1, <3>1 DEF Own, LaunchesTyped
    <3> QED BY <3>1, <3>2
  <2> QED BY <2>2, <2>3
<1>5. CASE EndExtracting(l)
  <2>1. d \in Names /\ launch'[l].dir = d /\ launch'[l].file = launch[l].file
    BY <1>1, <1>5, StepMoves DEF Moved, Only, PlacedAt, Loaders
  <2>2. CASE ~Verifies(l) BY <1>5, <2>2, StepMoves DEF Moved, Only
  <2>3. CASE Verifies(l)
    <3>1. /\ launch'[l].pc = "start" /\ folder' = [folder EXCEPT ![d] = Folder(l, "engine")]
          /\ content' = content
      BY <1>5, <2>3, StepMoves DEF Moved, Only, EndExtracting
    <3>2. Own(l)' # Nothing /\ Own(l)'.file = "engine"
      BY <1>0, <2>1, <3>1 DEF Own, LaunchesTyped
    <3> QED BY <2>1, <2>3, <3>1, <3>2 DEF Verifies
  <2> QED BY <2>2, <2>3
<1>6. CASE StartEngine(l)
  <2>1. launch'[l].dir = d /\ launch'[l].file = launch[l].file /\ launch[l].pc = "start"
    BY <1>6, StepMoves DEF Moved, Only
  <2>2. Own(l)' = Own(l) /\ content' = content BY <1>6, <2>1 DEF StartEngine, Own
  <2>3. CASE Own(l) = Nothing BY <1>6, <2>3, StepMoves DEF Moved, Only
  <2>4. CASE Own(l) # Nothing
    <3>1. launch'[l].pc = "wait" /\ engine'[l].pc = "started"
      BY <1>6, <2>4, StepMoves DEF Moved, Only, StartEngine, LaunchesTyped
    <3> QED BY <1>1, <2>1, <2>2, <2>4, <3>1
  <2> QED BY <2>3, <2>4
<1>7. CASE EngineOpens(l) \/ EngineEnds(l)
  <2>1. launch' = launch /\ Own(l)' = Own(l) /\ content' = content /\ swept' = swept
    BY <1>7 DEF EngineOpens, EngineEnds, Own
  <2>2. EngineAlive(l)' => EngineAlive(l)
    BY <1>7 DEF EngineOpens, EngineEnds, EngineAlive, LaunchesTyped
  <2>3. engine'[l].pc = "working" => engine'[l].reads = launch[l].file
    BY <1>7 DEF EngineOpens, EngineEnds, LaunchesTyped
  <2> QED BY <1>1, <2>1, <2>2, <2>3
<1>8. CASE Waited(l) BY <1>8, StepMoves DEF Moved, Only
<1>9. CASE RemoveDirectory(l)
  <2>1. d \in Names /\ launch'[l].dir = d /\ launch'[l].pc \in {"unroot", "done"}
    BY <1>1, <1>9, StepMoves DEF Moved, Only, PlacedAt, Cleaning, Loaders
  <2>2. \/ folder'[d] = Nothing
        \/ folder[d] # Nothing /\ folder'[d] = [folder[d] EXCEPT !.file = "held"]
    BY <1>9, <2>1 DEF RemoveDirectory, LaunchesTyped
  <2>3. Own(l)' = folder'[d] BY <2>1 DEF Own
  <2>4. Own(l)' # Nothing => Own(l)'.file = "held"
    BY <2>1, <2>2, <2>3 DEF LaunchesTyped, Folders
  <2> QED BY <2>1, <2>4
<1>10. CASE RemoveRoot(l)
  <2>1. launch'[l].pc = "done" /\ launch'[l].dir = d /\ launch[l].pc = "unroot"
    BY <1>10, StepMoves DEF Moved, Only
  <2>2. Own(l)' = Own(l) BY <1>10, <2>1 DEF RemoveRoot, Own
  <2> QED BY <1>1, <2>1, <2>2
<1>11. CASE Kill(l) BY <1>11, StepMoves DEF Moved, Only
<1> QED BY <1>2, <1>3, <1>4, <1>5, <1>6, <1>7, <1>8, <1>9, <1>10, <1>11 DEF Step

\* So does every other step: a file that is held is not replaced.
LEMMA UsedNext == LaunchesTyped /\ Placed /\ Owned /\ Used /\ [LoaderNext]_loaderVars => Used'
<1> SUFFICES ASSUME LaunchesTyped, Placed, Owned, Used, [LoaderNext]_loaderVars, NEW m \in Launches
             PROVE  UsedAt(m)'
  BY DEF Used, UsedAt, Swept, Verified, Left
<1>1. UsedAt(m) /\ PlacedAt(m) /\ launch[m] \in Loaders
  BY DEF Used, UsedAt, Swept, Verified, Left, Placed, LaunchesTyped
<1> USE DEF UsedAt, SweptAt, VerifiedAt, LeftAt, EngineAlive
<1>2. ASSUME NEW l \in Launches, Step(l) \/ Kill(l) PROVE UsedAt(m)'
  BY <1>2, OthersUsed, OwnUsed
<1>3. CASE Help BY <1>1, <1>3 DEF Help, Own
<1>4. CASE Replace
  <2>1. launch' = launch /\ engine' = engine /\ swept' = swept /\ Own(m)' = Own(m)
    BY <1>4 DEF Replace, Own
  <2>2. launch[m].pc \in {"start", "wait"} => content'[launch[m].file] = content[launch[m].file]
    BY <1>1, <1>4 DEF Replace, Holds, LaunchesTyped, PlacedAt
  <2> QED BY <1>1, <2>1, <2>2
<1>5. ASSUME NEW d \in Names, Age(d) PROVE UsedAt(m)'
  <2>1. launch' = launch /\ engine' = engine /\ swept' = swept /\ content' = content
    BY <1>5 DEF Age
  <2>2. CASE launch[m].dir = Nothing BY <1>1, <2>1, <2>2 DEF PlacedAt, Using
  <2>3. CASE launch[m].dir # Nothing
    <3>1. launch[m].dir \in Names /\ folder[launch[m].dir] \in Folders \cup {Nothing}
      BY <1>1, <2>3 DEF Loaders, LaunchesTyped
    <3>2. \/ Own(m)' = Own(m)
          \/ Own(m) # Nothing /\ Own(m)' = [Own(m) EXCEPT !.old = TRUE]
      BY <1>5, <2>1, <3>1 DEF Age, Own, LaunchesTyped
    <3>3. /\ Own(m)' = Nothing <=> Own(m) = Nothing
          /\ Own(m) # Nothing => Own(m)'.file = Own(m).file
      BY <3>1, <3>2, LoaderAssumption DEF Folders, Own
    <3> QED BY <1>1, <2>1, <3>3
  <2> QED BY <2>2, <2>3
<1>6. CASE UNCHANGED loaderVars BY <1>1, <1>6 DEF loaderVars, Own
<1> QED BY <1>2, <1>3, <1>4, <1>5, <1>6 DEF LoaderNext

----------------------------------------------------------------------------
(* A launch never runs out of attempts.                                    *)

\* A part of a finite set is no larger, and smaller if something is missing.
LEMMA Parts ==
  ASSUME NEW S, NEW T, IsFiniteSet(T), S \subseteq T
  PROVE  /\ Cardinality(S) \in Nat /\ Cardinality(T) \in Nat
         /\ Cardinality(S) <= Cardinality(T)
         /\ \A x \in T \ S : Cardinality(S) + 1 <= Cardinality(T)
<1>1. IsFiniteSet(S) /\ Cardinality(S) <= Cardinality(T) BY FS_Subset
<1>2. Cardinality(S) \in Nat /\ Cardinality(T) \in Nat BY <1>1, FS_CardinalityType
<1>3. ASSUME NEW x \in T \ S PROVE Cardinality(S) + 1 <= Cardinality(T)
  <2>1. Cardinality(S \cup {x}) = Cardinality(S) + 1 BY <1>1, FS_AddElement
  <2> QED BY <2>1, FS_Subset
<1> QED BY <1>1, <1>2, <1>3

\* The directories somebody else made are finitely many.
LEMMA TakenFinite == IsFiniteSet(Taken)
<1>1. IsFiniteSet(0 .. MaxAttempts) BY LoaderAssumption, FS_Interval
<1>2. IsFiniteSet(Names) BY <1>1, LoaderAssumption, FS_Product DEF Names
<1> QED BY <1>2, LoaderAssumption, FS_Subset

\* What counts for a launch, and how much it can be.
LEMMA Counted ==
  ASSUME LaunchesTyped, NEW l \in Launches
  PROVE  /\ IsFiniteSet(Others(l)) /\ IsFiniteSet(Met(l))
         /\ Cardinality(Others(l)) \in Nat /\ Cardinality(Met(l)) \in Nat
         /\ Cardinality(Others(l)) <= Cardinality(Launches) - 1
         /\ Cardinality(Met(l)) <= Cardinality(Taken)
         /\ \A d \in Taken \ Met(l) : Cardinality(Met(l)) + 1 <= Cardinality(Taken)
         /\ Cardinality(Launches) \in Nat /\ Cardinality(Taken) \in Nat
         /\ Excuses(l) \in Nat
<1>1. Others(l) \subseteq Launches /\ l \in Launches \ Others(l) /\ Met(l) \subseteq Taken
  BY DEF Others, Met
<1>2. IsFiniteSet(Others(l)) /\ IsFiniteSet(Met(l))
  BY <1>1, TakenFinite, LoaderAssumption, FS_Subset
<1>3. /\ Cardinality(Others(l)) \in Nat /\ Cardinality(Launches) \in Nat
      /\ Cardinality(Others(l)) + 1 <= Cardinality(Launches)
  BY <1>1, LoaderAssumption, Parts
<1>4. /\ Cardinality(Met(l)) \in Nat /\ Cardinality(Taken) \in Nat
      /\ Cardinality(Met(l)) <= Cardinality(Taken)
      /\ \A d \in Taken \ Met(l) : Cardinality(Met(l)) + 1 <= Cardinality(Taken)
  BY <1>1, TakenFinite, Parts
<1>5. Excuses(l) \in Nat BY <1>3, <1>4, LoaderAssumption DEF Excuses, LaunchesTyped
<1> QED BY <1>2, <1>3, <1>4, <1>5

\* A launch that is over stays over, and attempts and helpers are used up.
LEMMA OnlyMore ==
  ASSUME LaunchesTyped, [LoaderNext]_loaderVars, NEW l \in Launches
  PROVE  /\ launch[l].pc \in Over => launch'[l].pc \in Over
         /\ launch[l].attempt <= launch'[l].attempt
         /\ helpers' \in 0 .. helpers
<1>0. launch[l] \in Loaders /\ launch[l].attempt \in Nat /\ helpers \in Nat
  BY LoaderAssumption DEF LaunchesTyped, Loaders
<1>1. ASSUME NEW k \in Launches, Step(k) \/ Kill(k)
      PROVE  /\ launch[l].pc \in Over => launch'[l].pc \in Over
             /\ launch[l].attempt <= launch'[l].attempt
  <2>1. CASE launch'[l] = launch[l] BY <1>0, <2>1
  <2>2. CASE CreateDirectory(k)
    BY <1>0, <2>2, StepMoves DEF Makes, Retries, GivesUp, Moved, Only, Over
  <2>3. CASE ~CreateDirectory(k) /\ k = l
    BY <1>0, <1>1, <2>1, <2>3, StepMoves DEF Step, Moved, Only, Over, EngineOpens, EngineEnds
  <2>4. CASE ~CreateDirectory(k) /\ k # l
    BY <1>0, <1>1, <2>1, <2>4, StepMoves DEF Step, Moved, Only, EngineOpens, EngineEnds
  <2> QED BY <2>2, <2>3, <2>4
<1>2. CASE Help \/ Replace \/ (\E d \in Names : Age(d)) \/ UNCHANGED loaderVars
  BY <1>0, <1>2 DEF Help, Replace, Age, loaderVars
<1>3. helpers' \in 0 .. helpers
  <2>1. helpers' = helpers \/ Help
    BY DEF LoaderNext, Step, OpenInstaller, ReadFooter, CreateRoot, SweepStale, CreateDirectory,
       StartExtracting, EndExtracting, StartEngine, EngineOpens, EngineEnds, Waited,
       RemoveDirectory, RemoveRoot, Kill, Replace, Age, loaderVars
  <2> QED BY <1>0, <2>1 DEF Help
<1> QED BY <1>1, <1>2, <1>3 DEF LoaderNext

\* No excuse is lost.
LEMMA ExcusesGrow ==
  ASSUME LaunchesTyped, [LoaderNext]_loaderVars, NEW l \in Launches
  PROVE  /\ Excuses(l) \in Nat /\ Excuses(l)' \in Nat /\ Excuses(l) <= Excuses(l)'
         /\ Others(l)' # Others(l) => Excuses(l) + 1 <= Excuses(l)'
         /\ Met(l)' # Met(l) => Excuses(l) + 1 <= Excuses(l)'
         /\ helpers' # helpers => Excuses(l) + 1 <= Excuses(l)'
<1> DEFINE O == Cardinality(Others(l))  O2 == Cardinality(Others(l)')
           M == Cardinality(Met(l))     M2 == Cardinality(Met(l)')
           H == Helpers - helpers       H2 == Helpers - helpers'
<1>0. LaunchesTyped' BY TypeNext
<1>1. Others(l) \subseteq Others(l)' /\ IsFiniteSet(Others(l)')
  <2>1. Others(l)' \subseteq Launches BY DEF Others
  <2> QED BY <2>1, OnlyMore, LoaderAssumption, FS_Subset DEF Others
<1>2. Met(l) \subseteq Met(l)' /\ IsFiniteSet(Met(l)')
  <2>1. Met(l)' \subseteq Taken BY DEF Met
  <2>2. ASSUME NEW d \in Taken, d[2] < launch[l].attempt PROVE d[2] < launch'[l].attempt
    <3>1. d[2] \in Nat /\ launch[l].attempt \in Nat /\ launch'[l].attempt \in Nat
      BY <1>0, LoaderAssumption DEF LaunchesTyped, Loaders, Names
    <3> QED BY <2>2, <3>1, OnlyMore
  <2> QED BY <2>1, <2>2, TakenFinite, FS_Subset DEF Met
<1>3. O \in Nat /\ O2 \in Nat /\ O <= O2 /\ (Others(l)' # Others(l) => O + 1 <= O2)
  BY <1>1, Parts
<1>4. M \in Nat /\ M2 \in Nat /\ M <= M2 /\ (Met(l)' # Met(l) => M + 1 <= M2) BY <1>2, Parts
<1>5. H \in Nat /\ H2 \in Nat /\ H <= H2 /\ (helpers' # helpers => H + 1 <= H2)
  <2> DEFINE fewer == helpers'
  <2>1. helpers \in 0 .. Helpers /\ Helpers \in Nat /\ fewer \in 0 .. helpers
    BY OnlyMore, LoaderAssumption DEF LaunchesTyped
  <2> HIDE DEF fewer
  <2>2. /\ Helpers - helpers \in Nat /\ Helpers - fewer \in Nat
        /\ Helpers - helpers <= Helpers - fewer
        /\ fewer # helpers => Helpers - helpers + 1 <= Helpers - fewer
    BY <2>1
  <2> QED BY <2>2 DEF fewer
<1>6. Excuses(l) = O + H + M /\ Excuses(l)' = O2 + H2 + M2 BY DEF Excuses
<1> HIDE DEF O, O2, M, M2, H, H2
<1> QED BY <1>3, <1>4, <1>5, <1>6

\* Every attempt of a launch has its excuse.
LEMMA SpentNext == LaunchesTyped /\ Placed /\ Owned /\ Spent /\ [LoaderNext]_loaderVars => Spent'
<1> SUFFICES ASSUME LaunchesTyped, Placed, Owned, Spent, [LoaderNext]_loaderVars, NEW l \in Launches
             PROVE  SpentAt(l)'
  BY DEF Spent
<1> DEFINE Same == launch'[l].attempt = launch[l].attempt /\ launch[l].pc \in Searching
           Waits == launch[l].pc \in {"sweep", "directory"}
<1>0. /\ SpentAt(l) /\ PlacedAt(l) /\ launch[l].attempt \in Nat
      /\ Excuses(l) \in Nat /\ Excuses(l)' \in Nat /\ Excuses(l) <= Excuses(l)'
      /\ elevated' = elevated /\ root \in BOOLEAN
  <2>1. elevated' = elevated
    BY DEF LoaderNext, Step, OpenInstaller, ReadFooter, CreateRoot, SweepStale, CreateDirectory, StartExtracting,
       EndExtracting, StartEngine, EngineOpens, EngineEnds, Waited, RemoveDirectory, RemoveRoot,
       Kill, Help, Replace, Age, loaderVars
  <2> QED BY <2>1, ExcusesGrow DEF Spent, Placed, LaunchesTyped, Loaders
<1> USE DEF SpentAt, Root
\* It is enough that the root stays, or that an excuse is gained.
<1>1. ASSUME Same, launch'[l].pc = launch[l].pc, root => root' \/ Excuses(l) + 1 <= Excuses(l)'
      PROVE  SpentAt(l)'
  BY <1>0, <1>1
<1>2. CASE launch'[l].pc \notin Searching BY <1>2
<1>3. ASSUME NEW k \in Launches \ {l}, Step(k) \/ Kill(k) PROVE SpentAt(l)'
  <2>1. launch'[l] = launch[l] BY <1>3, OthersKept
  <2>2. root => root' \/ Excuses(l) + 1 <= Excuses(l)'
    <3>1. CASE RemoveRoot(k)
      <4>1. k \in Others(l)' /\ k \notin Others(l)
        BY <3>1, StepMoves DEF Moved, Only, Others, Over
      <4> QED BY <4>1, ExcusesGrow
    <3>2. CASE ~RemoveRoot(k)
      BY <1>3, <3>2 DEF Step, OpenInstaller, ReadFooter, CreateRoot, SweepStale, CreateDirectory,
         StartExtracting, EndExtracting, StartEngine, EngineOpens, EngineEnds, Waited,
         RemoveDirectory, Kill, LaunchesTyped
    <3> QED BY <3>1, <3>2
  <2> QED BY <1>1, <1>2, <2>1, <2>2
<1>4. ASSUME Step(l) \/ Kill(l) PROVE SpentAt(l)'
  <2>1. CASE OpenInstaller(l) \/ ReadFooter(l)
    <3>1. /\ launch'[l].attempt = launch[l].attempt /\ launch[l].pc \in {"idle", "footer"}
          /\ launch'[l].pc \in {"sweep", "directory"} => ~Root(l)
          /\ launch'[l].pc # "sweep"
      BY <2>1, StepMoves DEF Moved, Only
    <3> QED BY <1>0, <3>1 DEF Searching
  <2>2. CASE CreateRoot(l)
    <3>1. launch'[l].attempt = launch[l].attempt /\ launch[l].pc = "root" /\ root'
      BY <2>2, StepMoves DEF Moved, Only, CreateRoot
    <3> QED BY <1>0, <3>1 DEF Searching
  <2>3. CASE SweepStale(l)
    <3>1. /\ launch'[l].attempt = launch[l].attempt /\ launch[l].pc = "sweep" /\ root' = root
          /\ launch'[l].pc = "directory"
      BY <2>3, StepMoves DEF Moved, Only, SweepStale
    <3> QED BY <1>0, <3>1 DEF Searching
  <2>4. CASE Retries(l)
    <3>1. /\ launch[l].pc = "directory" /\ launch'[l].attempt = launch[l].attempt + 1
          /\ launch[l].dir = Nothing
          /\ Root(l) => root'
      BY <1>0, <2>4 DEF Retries, Only, PlacedAt, Searching
    <3>2. CASE folder[Name(l)] # Nothing
      <4>1. Name(l) \in Taken
        <5>1. Name(l) \in Names /\ Name(l)[1] = l BY DEF Name, Names, LaunchesTyped, Loaders
        <5> QED BY <3>1, <3>2, <5>1, LoaderAssumption DEF Owned
      <4>2. Name(l) \in Met(l)' /\ Name(l) \notin Met(l) BY <1>0, <3>1, <4>1 DEF Met, Name
      <4>3. Excuses(l) + 1 <= Excuses(l)' BY <4>2, ExcusesGrow
      <4> QED BY <1>0, <3>1, <4>3 DEF Searching
    <3>3. CASE folder[Name(l)] = Nothing
      <4>1. Root(l) /\ ~root BY <2>4, <3>3 DEF Retries, Free
      <4> QED BY <1>0, <3>1, <4>1 DEF Searching
    <3> QED BY <3>2, <3>3
  <2>5. CASE Makes(l) \/ GivesUp(l) BY <1>2, <2>5 DEF Makes, GivesUp, Moved, Only, Searching
  <2>6. CASE EngineOpens(l) \/ EngineEnds(l) BY <1>0, <2>6 DEF EngineOpens, EngineEnds
  <2>7. CASE StartExtracting(l) \/ EndExtracting(l) \/ StartEngine(l) \/ Waited(l)
             \/ RemoveDirectory(l) \/ RemoveRoot(l) \/ Kill(l)
    BY <1>2, <2>7, StepMoves DEF Moved, Only, Searching
  <2> QED BY <1>4, <2>1, <2>2, <2>3, <2>4, <2>5, <2>6, <2>7, StepMoves DEF Step
<1>5. CASE Help
  <2>1. launch' = launch /\ helpers' # helpers
    BY <1>5, LoaderAssumption DEF Help, LaunchesTyped
  <2> QED BY <1>1, <1>2, <2>1, ExcusesGrow
<1>6. CASE Replace \/ (\E d \in Names : Age(d)) \/ UNCHANGED loaderVars
  BY <1>0, <1>6 DEF Replace, Age, loaderVars
<1> QED BY <1>3, <1>4, <1>5, <1>6 DEF LoaderNext

\* So no launch gives up.
LEMMA NeverGivesUp ==
  ASSUME LaunchesTyped, Placed, Owned, Spent, NEW l \in Launches
  PROVE  ~GivesUp(l)
<1> SUFFICES ASSUME GivesUp(l) PROVE FALSE OBVIOUS
<1>1. /\ launch[l].pc = "directory" /\ launch[l].attempt = MaxAttempts /\ launch[l].dir = Nothing
      /\ ~Free(l)
  BY DEF GivesUp, Moved, Placed, PlacedAt, Searching
<1>2. /\ MaxAttempts <= Excuses(l)
      /\ Root(l) /\ ~root => MaxAttempts < Excuses(l)
  BY <1>1 DEF Spent, SpentAt, Searching
<1>3. helpers \in 0 .. Helpers /\ Helpers \in Nat /\ MaxAttempts \in Nat
  BY LoaderAssumption DEF LaunchesTyped
<1>4. CASE Root(l) /\ ~root BY <1>2, <1>3, <1>4, Counted, EnoughAttempts DEF Excuses
<1>5. CASE folder[Name(l)] # Nothing
  <2>1. Name(l) \in Names /\ Name(l)[1] = l BY DEF Name, Names, LaunchesTyped, Loaders
  <2>2. Name(l) \in Taken \ Met(l)
    BY <1>1, <1>3, <1>5, <2>1, LoaderAssumption DEF Owned, Met, Name
  <2> QED BY <1>2, <1>3, <2>2, Counted, EnoughAttempts DEF Excuses
<1> QED BY <1>1, <1>4, <1>5 DEF Free

----------------------------------------------------------------------------
(* No launch fails because of the others, and no empty root is left.       *)

\* A launch that could not start an engine lost its directory to a sweep.
LEMMA FailsAloneNext ==
  LaunchesTyped /\ Placed /\ Owned /\ Swept /\ Spent /\ FailsAlone /\ [LoaderNext]_loaderVars => FailsAlone'
<1> SUFFICES ASSUME LaunchesTyped, Placed, Owned, Swept, Spent, FailsAlone, [LoaderNext]_loaderVars,
                    NEW l \in Launches, launch'[l].code = "unstarted"
             PROVE  l \in swept'
  BY DEF FailsAlone
<1>1. swept \subseteq swept'
  BY DEF LoaderNext, Step, OpenInstaller, ReadFooter, CreateRoot, SweepStale, CreateDirectory, StartExtracting,
     EndExtracting, StartEngine, EngineOpens, EngineEnds, Waited, RemoveDirectory, RemoveRoot,
     Kill, Help, Replace, Age, loaderVars
<1>2. CASE launch'[l].code = launch[l].code BY <1>1, <1>2 DEF FailsAlone
<1>3. ASSUME NEW k \in Launches \ {l}, Step(k) \/ Kill(k) PROVE l \in swept'
  BY <1>2, <1>3, OthersKept
<1>4. ASSUME Step(l) \/ Kill(l) PROVE l \in swept'
  <2>1. CASE StartExtracting(l) \/ StartEngine(l)
    <3>1. Own(l) # Nothing => launch'[l].code = launch[l].code
      BY <2>1, StepMoves DEF Moved, Only
    <3>2. launch[l].pc \in Using BY <2>1 DEF StartExtracting, StartEngine, Using
    <3>3. CASE Own(l) = Nothing BY <1>1, <3>2, <3>3 DEF Swept, SweptAt
    <3> QED BY <1>2, <3>1, <3>3
  <2>2. CASE CreateDirectory(l)
    BY <1>2, <2>2, NeverGivesUp, StepMoves DEF Makes, Retries, Only
  <2>3. CASE EngineOpens(l) \/ EngineEnds(l) BY <1>2, <2>3 DEF EngineOpens, EngineEnds
  <2>4. CASE Waited(l)
    <3>1. launch'[l].code \in {"ended", "refused"}
      BY <2>4, StepMoves DEF Moved, Only, Waited
    <3> QED BY <3>1
  <2>5. CASE \/ OpenInstaller(l) \/ ReadFooter(l) \/ CreateRoot(l) \/ SweepStale(l) \/ EndExtracting(l)
             \/ RemoveDirectory(l) \/ RemoveRoot(l) \/ Kill(l)
    BY <1>2, <2>5, StepMoves DEF Moved, Only
  <2> QED BY <1>4, <2>1, <2>2, <2>3, <2>4, <2>5 DEF Step
<1>5. CASE Help \/ Replace \/ (\E d \in Names : Age(d)) \/ UNCHANGED loaderVars
  BY <1>2, <1>5 DEF Help, Replace, Age, loaderVars
<1> QED BY <1>3, <1>4, <1>5 DEF LoaderNext

\* Who minds an empty root.
Minds(l) ==
  /\ Root(l)
  /\ launch[l].pc \in {"sweep", "directory", "killed"} \cup Using \cup Cleaning

\* A launch that minds it goes on to, but for one that finds it or leaves it.
LEMMA GoesOnMinding ==
  ASSUME LaunchesTyped, Placed, Owned, Spent, NEW l \in Launches, Minds(l),
         Step(l) \/ Kill(l), ~RemoveRoot(l), elevated' = elevated
  PROVE  Minds(l)'
<1>1. Root(l)' /\ launch[l].pc \in {"sweep", "directory", "killed"} \cup Using \cup Cleaning
  BY DEF Minds, Root
<1> DEFINE Goal == launch'[l].pc \in {"sweep", "directory", "killed"} \cup Using \cup Cleaning
<1>2. CASE CreateDirectory(l)
  <2>1. launch'[l].pc \in {"extract", "directory"}
    BY <1>2, NeverGivesUp, StepMoves DEF Makes, Retries, Only
  <2> QED BY <1>1, <2>1 DEF Minds, Using
<1>3. CASE OpenInstaller(l) \/ ReadFooter(l) \/ CreateRoot(l)
  BY <1>1, <1>3, StepMoves DEF Moved, Using, Cleaning
<1>4. CASE StartExtracting(l) \/ EndExtracting(l) \/ StartEngine(l) \/ Waited(l) \/ SweepStale(l)
  <2>1. launch'[l].pc \in {"extracting", "cleanup", "start", "wait", "directory"}
    BY <1>4, StepMoves DEF Moved, Only
  <2> QED BY <1>1, <2>1 DEF Minds, Using, Cleaning
<1>5. CASE RemoveDirectory(l) \/ Kill(l)
  <2>1. launch'[l].pc \in {"unroot", "killed"}
    BY <1>1, <1>5, StepMoves DEF Moved, Only, Minds
  <2> QED BY <1>1, <2>1 DEF Minds, Using, Cleaning
<1>6. CASE EngineOpens(l) \/ EngineEnds(l) BY <1>1, <1>6 DEF EngineOpens, EngineEnds, Minds
<1> QED BY <1>2, <1>3, <1>4, <1>5, <1>6 DEF Step

\* An empty root keeps somebody who minds it.
LEMMA MindedNext == LaunchesTyped /\ Placed /\ Owned /\ Spent /\ Minded /\ [LoaderNext]_loaderVars => Minded'
<1> SUFFICES ASSUME LaunchesTyped, Placed, Owned, Spent, Minded, [LoaderNext]_loaderVars, root', Empty'
             PROVE  \E m \in Launches : Minds(m)'
  BY DEF Minded, Minds
<1> DEFINE Goal == \E m \in Launches : Minds(m)'
<1>0. elevated' = elevated
  BY DEF LoaderNext, Step, OpenInstaller, ReadFooter, CreateRoot, SweepStale, CreateDirectory, StartExtracting,
     EndExtracting, StartEngine, EngineOpens, EngineEnds, Waited, RemoveDirectory, RemoveRoot,
     Kill, Help, Replace, Age, loaderVars
\* The root was there and empty, and had somebody.
<1>1. ASSUME root, Empty, NEW k \in Launches, Step(k) \/ Kill(k), ~RemoveRoot(k) PROVE Goal
  <2>1. PICK m \in Launches : Minds(m) BY <1>1 DEF Minded, Minds
  <2>2. CASE m = k BY <1>0, <1>1, <2>1, <2>2, GoesOnMinding
  <2>3. CASE m # k BY <1>0, <1>1, <2>1, <2>3, OthersKept DEF Minds, Root
  <2> QED BY <2>2, <2>3
<1>2. ASSUME root, Empty, launch' = launch PROVE Goal BY <1>0, <1>2 DEF Minded, Minds, Root
\* It was not, and the one that made the step minds it.
<1>3. ASSUME NEW k \in Launches, Step(k) \/ Kill(k), ~(root /\ Empty) PROVE Goal
  <2>1. CASE CreateRoot(k) \/ SweepStale(k)
    <3>1. Root(k) /\ launch'[k].pc \in {"sweep", "directory"}
      BY <2>1, StepMoves DEF Moved, Only, Placed, PlacedAt
    <3> QED BY <1>0, <3>1 DEF Minds, Root
  <2>2. CASE CreateDirectory(k)
    <3>1. CASE Makes(k)
      <4>1. Name(k) \in Names /\ Name(k)[1] = k /\ folder'[Name(k)] = Folder(k, "none")
        BY <3>1 DEF Makes, Name, Names, LaunchesTyped, Loaders
      <4>2. Folder(k, "none") \in Folders BY DEF Folder, Folders
      <4>3. ~Root(k) BY <1>0, <4>1, <4>2, LoaderAssumption DEF Empty, InRoot, Root
      <4>4. Empty
        <5>1. ASSUME NEW d \in Names, InRoot(d) PROVE folder[d] = Nothing
          <6>1. d # Name(k) /\ folder'[d] = Nothing
            BY <1>0, <4>1, <4>3, <5>1 DEF Empty, InRoot, Root
          <6> QED BY <3>1, <6>1 DEF Makes, LaunchesTyped
        <5> QED BY <5>1 DEF Empty
      <4> QED BY <1>3, <3>1, <4>4 DEF Makes
    <3>2. CASE Retries(k)
      <4>1. Empty BY <1>0, <3>2 DEF Retries, Empty, InRoot, Root
      <4>2. Root(k) BY <1>3, <3>2, <4>1 DEF Retries
      <4>3. launch'[k].pc = "directory" BY <3>2 DEF Retries, Only
      <4> QED BY <1>0, <4>2, <4>3 DEF Minds, Root
    <3> QED BY <2>2, <3>1, <3>2, NeverGivesUp, StepMoves
  <2>3. CASE RemoveDirectory(k)
    <3>1. CASE Root(k) BY <1>0, <2>3, <3>1, StepMoves DEF Moved, Only, Minds, Cleaning, Root
    <3>2. CASE ~Root(k)
      <4>1. launch[k].dir \in Names /\ ~InRoot(launch[k].dir)
        BY <2>3, <3>2, StepMoves DEF Moved, Placed, PlacedAt, Cleaning, InRoot, LaunchesTyped, Loaders
      <4>2. ASSUME NEW d \in Names, InRoot(d) PROVE folder[d] = Nothing
        <5>1. d # launch[k].dir /\ folder'[d] = Nothing
          BY <1>0, <4>1, <4>2 DEF Empty, InRoot, Root
        <5> QED BY <2>3, <4>1, <5>1 DEF RemoveDirectory, LaunchesTyped
      <4> QED BY <1>3, <2>3, <4>2 DEF Empty, RemoveDirectory
    <3> QED BY <3>1, <3>2
  <2>4. CASE StartExtracting(k) \/ EndExtracting(k)
    <3>1. launch[k].dir \in Names /\ launch[k].dir[1] = k
      BY <2>4 DEF StartExtracting, EndExtracting, Goes, Ends, Placed, PlacedAt, Using, LaunchesTyped, Loaders
    <3>2. \/ folder' = folder
          \/ \E f \in {"partial", "engine"} : folder' = [folder EXCEPT ![launch[k].dir] = Folder(k, f)]
      BY <2>4 DEF StartExtracting, EndExtracting
    <3>3. \A f \in {"partial", "engine"} : Folder(k, f) \in Folders BY DEF Folder, Folders
    <3>4. ASSUME NEW d \in Names, InRoot(d) PROVE folder[d] = Nothing
      <4>1. folder'[d] = Nothing BY <1>0, <3>4 DEF Empty, InRoot, Root
      <4> QED BY <3>1, <3>2, <3>3, <4>1, LoaderAssumption DEF LaunchesTyped
    <3> QED BY <1>3, <2>4, <3>4 DEF Empty, StartExtracting, EndExtracting
  <2>5. CASE folder' = folder /\ root' = root BY <1>0, <1>3, <2>5 DEF Empty, InRoot, Root
  <2>6. CASE RemoveRoot(k) BY <1>0, <2>6 DEF RemoveRoot, Empty, InRoot, Root
  <2> QED
    BY <1>3, <2>1, <2>2, <2>3, <2>4, <2>5, <2>6 DEF Step, OpenInstaller, ReadFooter, StartEngine, EngineOpens,
       EngineEnds, Waited, Kill
\* The root does not stay when it is found empty.
<1>4. CASE Help \/ (\E k \in Launches : RemoveRoot(k))
  BY <1>0, <1>4 DEF Help, RemoveRoot, Empty, InRoot, Root
<1>5. CASE Replace \/ (\E d \in Names : Age(d)) \/ UNCHANGED loaderVars
  <2>1. root' = root /\ launch' = launch BY <1>5 DEF Replace, Age, loaderVars
  <2>2. CASE \E d \in Names : Age(d)
    <3>1. PICK d \in Names : Age(d) BY <2>2
    <3>2. \A e \in Names : folder'[e] = Nothing => folder[e] = Nothing
      BY <3>1, LoaderAssumption DEF Age, LaunchesTyped, Folders
    <3> QED BY <1>0, <1>2, <2>1, <3>2 DEF Empty, InRoot, Root
  <2>3. CASE folder' = folder BY <1>0, <1>2, <2>1, <2>3 DEF Empty, InRoot, Root
  <2> QED BY <1>5, <2>2, <2>3 DEF Replace, loaderVars
<1> QED BY <1>1, <1>3, <1>4, <1>5 DEF LoaderNext

----------------------------------------------------------------------------
(* The invariant, and what it shows.                                       *)

LEMMA InitLInv == LoaderInit => LInv
<1> SUFFICES ASSUME LoaderInit PROVE LInv OBVIOUS
<1> USE LoaderAssumption DEF LoaderInit
<1>1. LaunchesTyped
  <2>1. \A d \in Names : folder[d] \in Folders \cup {Nothing} BY DEF Folder, Folders
  <2>2. launch \in [Launches -> Loaders] BY DEF Loaders, Places, Searching
  <2>3. engine \in [Launches -> [pc : {"none", "started", "working", "refused", "ended"},
                                 reads : Files \cup {Nothing}]]
    OBVIOUS
  <2> QED BY <2>1, <2>2, <2>3 DEF LaunchesTyped
<1>2. \A l \in Launches : launch[l].pc = "idle" /\ launch[l].dir = Nothing /\ launch[l].attempt = 0
                           /\ launch[l].code = Nothing
  OBVIOUS
<1>3. Placed /\ Swept /\ Verified /\ Left
  BY <1>2 DEF Placed, PlacedAt, Swept, SweptAt, Verified, VerifiedAt, Left, LeftAt, Using, Cleaning
<1>4. Owned BY <1>2 DEF Owned, Folder, Names
<1>5. Spent
  <2>1. ASSUME NEW l \in Launches PROVE SpentAt(l) BY <1>1, <1>2, Counted DEF SpentAt
  <2> QED BY <2>1 DEF Spent
<1>6. FailsAlone BY <1>2 DEF FailsAlone, Codes
<1>7. Minded
  <2>1. ASSUME root PROVE ~Empty
    <3>1. PICK d \in Taken : InRoot(d) BY <2>1
    <3>2. Folder(Nothing, "none") \in Folders BY DEF Folder, Folders
    <3> QED BY <3>1, <3>2 DEF Empty
  <2> QED BY <2>1 DEF Minded
<1> QED BY <1>1, <1>3, <1>4, <1>5, <1>6, <1>7 DEF LInv

LEMMA LInvNext == LInv /\ [LoaderNext]_loaderVars => LInv'
  BY TypeNext, PlacedNext, OwnedNext, UsedNext, SpentNext, FailsAloneNext, MindedNext DEF LInv, Used

LEMMA Inductive == LoaderSpec => []LInv
  BY InitLInv, LInvNext, PTL DEF LoaderSpec

\* Every variable keeps to its values (loader.c, bootstrap).
THEOREM LaunchesTypeCorrect == LoaderSpec => []LaunchesTyped
  BY Inductive, PTL DEF LInv

\* An engine that works is the verified one of the file its launch was started
\* from, in the launch's own directory, and reads its package from that file,
\* whatever is swept, replaced or killed meanwhile (loader.c, run_engine).
THEOREM EngineIsTheVerified == LoaderSpec => []RunsWhatItVerified
<1>1. LInv => RunsWhatItVerified
  <2> SUFFICES ASSUME LInv, NEW l \in Launches, engine[l].pc = "working", launch[l].pc = "wait"
               PROVE  /\ folder[launch[l].dir] # Nothing
                      /\ folder[launch[l].dir].owner = l /\ folder[launch[l].dir].file = "engine"
                      /\ engine[l].reads = launch[l].file /\ content[engine[l].reads] = "intact"
    BY DEF RunsWhatItVerified
  <2>1. /\ Own(l) # Nothing /\ Own(l).file = "engine" /\ engine[l].reads = launch[l].file
        /\ content[launch[l].file] = "intact"
    BY DEF LInv, Verified, VerifiedAt, EngineAlive
  <2>2. launch[l].dir \in Names /\ launch[l].dir[1] = l
    BY DEF LInv, LaunchesTyped, Loaders, Placed, PlacedAt, Using
  <2> QED BY <2>1, <2>2 DEF LInv, Owned, Own
<1> QED BY <1>1, Inductive, PTL

\* However many launches and helpers share the root, and whatever names are
\* taken, a launch that could not start an engine lost its directory to a sweep
\* and nothing else (loader.c, extraction_directory).
THEOREM LaunchesFailAlone == LoaderSpec => []FailsAlone
  BY Inductive, PTL DEF LInv

\* When all launches are over, they have left what they could not remove, and
\* no empty root (loader.c, remove_user_root).
THEOREM LaunchesLeaveNothing == LoaderSpec => []LeavesNothing
<1>1. LInv => LeavesNothing
  <2> SUFFICES ASSUME LInv, \A l \in Launches : launch[l].pc = "done"
               PROVE  /\ \A d \in Names : folder[d] # Nothing => folder[d].owner = Nothing \/ folder[d].file = "held"
                      /\ root => ~Empty
    BY DEF LeavesNothing
  <2>1. ASSUME NEW d \in Names, folder[d] # Nothing, folder[d].owner # Nothing
        PROVE  folder[d].file = "held"
    <3>1. d[1] \in Launches /\ launch[d[1]].dir = d BY <2>1 DEF LInv, Owned, Names
    <3> QED BY <2>1, <3>1, LoaderAssumption DEF LInv, Left, LeftAt, Own
  <2>2. root => ~Empty BY DEF LInv, Minded, Using, Cleaning
  <2> QED BY <2>1, <2>2
<1> QED BY <1>1, Inductive, PTL
=============================================================================
