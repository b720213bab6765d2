------------------------------ MODULE Actions ------------------------------
(***************************************************************************)
(* The custom actions of a transaction: programs of the package that the   *)
(* forward walk runs one at a time, each a commit group of its own whose   *)
(* mutation is the run of the program (txn/actions.rs, txn/executor.rs),   *)
(* the evidence row of every run (state/action.rs), what a recovery makes  *)
(* of an action a crash interrupted, and the rollback, which undoes no run *)
(* and has to say so.                                                      *)
(*                                                                         *)
(* Whether an exit code is a success, asks for a restart or is a failure   *)
(* is the package's declaration: a run simply ends with one of the         *)
(* verdicts. The other operations of the transaction are in                *)
(* FileTransaction.                                                        *)
(***************************************************************************)
EXTENDS Naturals

CONSTANTS
  NumActions,
  Policy,            \* on_failure of each action: "fail" or "continue"
  Exes,              \* the packages of the product, as executables
  None

Actions == 1..NumActions

ASSUME ActionsAssumption ==
  /\ NumActions \in Nat
  /\ Policy \in [Actions -> {"fail", "continue"}]
  /\ None \notin Exes \cup Actions

VARIABLES
  txnState,   \* the transaction row
  txnExe,     \* the package that opened it
  opState,    \* the run_action operation rows
  row,        \* the status of each operation's latest action_run row
  loose,      \* actions whose program runs outside any job object
  jobbed,     \* the action whose program runs in the engine's job, or None
  ran,        \* history: actions of the transaction whose program began
  noted,      \* history: actions action_not_reverted was recorded for
  pc, running, recovering,
  at,         \* the action being walked or undone, or None
  step,       \* how far it is
  verdict,    \* how its run ended, before and after it is recorded
  reported    \* actions this process asks for a restart for

disk    == <<txnState, txnExe, opState, row>>
world   == <<loose, jobbed, ran, noted>>
process == <<pc, running, recovering, at, step, verdict, reported>>
vars    == <<disk, world, process>>

Verdicts == {"completed", "reboot", "failed", "timed_out", "launch_failed"}
\* The statuses of a run that ended for certain.
Ended    == {"completed", "reboot", "failed", "timed_out"}

TypeOK ==
  /\ txnState \in {"none", "running", "committed", "rolling_back", "rolled_back",
                   "rollback_failed"}
  /\ txnExe \in Exes \cup {None}
  /\ opState \in [Actions -> {"planned", "applying", "applied", "rolling_back",
                              "rolled_back", "rollback_failed"}]
  /\ row \in [Actions -> Verdicts \cup {"none", "started", "interrupted"}]
  /\ loose \subseteq Actions
  /\ jobbed \in Actions \cup {None}
  /\ ran \subseteq Actions /\ noted \subseteq Actions
  /\ pc \in {"down", "recover", "plan", "walk", "apply", "rollback", "reverse", "undo", "cleanup"}
  /\ running \in Exes \cup {None}
  /\ recovering \in BOOLEAN
  /\ at \in Actions \cup {None}
  /\ step \in {"begin", "start", "started", "spawned", "running", "ended", "settle"}
  /\ verdict \in Verdicts \cup {None}
  /\ reported \subseteq Actions

Init ==
  /\ txnState = "none" /\ txnExe = None
  /\ opState = [a \in Actions |-> "planned"]
  /\ row = [a \in Actions |-> "none"]
  /\ loose = {} /\ jobbed = None /\ ran = {} /\ noted = {}
  /\ pc = "down" /\ running = None /\ recovering = FALSE
  /\ at = None /\ step = "begin" /\ verdict = None /\ reported = {}

----------------------------------------------------------------------------
(* A run: recovery of an open transaction, then its own. *)

Open == txnState \in {"running", "rolling_back", "rollback_failed"}

Start(exe) ==
  /\ pc = "down"
  /\ pc' = "recover" /\ running' = exe
  /\ UNCHANGED <<disk, world, recovering, at, step, verdict, reported>>

\* Forward only for the package that opened it, and only while running.
GoesForward == txnState = "running" /\ running = txnExe

Recover ==
  /\ pc = "recover"
  /\ recovering' = Open
  /\ pc' = IF ~Open THEN "plan" ELSE IF GoesForward THEN "walk" ELSE "rollback"
  /\ UNCHANGED <<disk, world, running, at, step, verdict, reported>>

\* One commit writes the transaction and its operations; rows of action_run
\* name the transaction, so none is this one's.
Begin ==
  /\ pc = "plan"
  /\ txnState' = "running" /\ txnExe' = running
  /\ opState' = [a \in Actions |-> "planned"]
  /\ row' = [a \in Actions |-> "none"]
  /\ ran' = {} /\ noted' = {} /\ reported' = {}
  /\ pc' = "walk"
  /\ UNCHANGED <<loose, jobbed, running, recovering, at, step, verdict>>

EndProcess ==
  /\ pc' = "down" /\ running' = None /\ recovering' = FALSE
  /\ at' = None /\ step' = "begin" /\ verdict' = None /\ reported' = {}

LeaveBeforeTransaction ==
  /\ pc = "plan"
  /\ EndProcess
  /\ UNCHANGED <<disk, world>>

----------------------------------------------------------------------------
(* The forward walk. *)

Pending == {a \in Actions : opState[a] \in {"planned", "applying"}}
IsNext(a) == a \in Pending /\ \A b \in Pending : a <= b

StartOperation(a) ==
  /\ pc = "walk" /\ IsNext(a)
  /\ recovering \/ opState[a] = "planned"
  /\ opState' = [opState EXCEPT ![a] = "applying"]
  /\ at' = a /\ pc' = "apply"
  \* An operation found applying is settled by what its row says.
  /\ step' = IF opState[a] = "planned" THEN "start" ELSE "begin"
  /\ UNCHANGED <<txnState, txnExe, row, world, running, recovering, verdict, reported>>

Applying(a, s) == pc = "apply" /\ at = a /\ step = s

\* The earlier run recorded how the action ended: it is not run again.
WasEnded(a) == row[a] \in Ended

Settle(a) ==
  /\ Applying(a, "begin") /\ WasEnded(a)
  /\ verdict' = row[a] /\ step' = "settle"
  /\ UNCHANGED <<disk, world, pc, running, recovering, at, reported>>

\* A row still started is a run nobody saw the end of.
MarkInterrupted(a) ==
  /\ Applying(a, "begin") /\ row[a] = "started"
  /\ row' = [row EXCEPT ![a] = "interrupted"] /\ step' = "start"
  /\ UNCHANGED <<txnState, txnExe, opState, world, pc, running, recovering, at,
                 verdict, reported>>

RunAgain(a) ==
  /\ Applying(a, "begin") /\ ~WasEnded(a) /\ row[a] # "started"
  /\ step' = "start"
  /\ UNCHANGED <<disk, world, pc, running, recovering, at, verdict, reported>>

\* A new row, before the process exists.
StartRun(a) ==
  /\ Applying(a, "start")
  /\ row' = [row EXCEPT ![a] = "started"] /\ step' = "started"
  /\ UNCHANGED <<txnState, txnExe, opState, world, pc, running, recovering, at,
                 verdict, reported>>

\* The program is born outside the job object it is then assigned to.
Spawn(a) ==
  /\ Applying(a, "started")
  /\ ran' = ran \cup {a} /\ loose' = loose \cup {a} /\ step' = "spawned"
  /\ UNCHANGED <<disk, jobbed, noted, pc, running, recovering, at, verdict, reported>>

AssignJob(a) ==
  /\ Applying(a, "spawned")
  /\ loose' = loose \ {a} /\ jobbed' = a /\ step' = "running"
  /\ UNCHANGED <<disk, ran, noted, pc, running, recovering, at, verdict, reported>>

\* The program cannot be started. The same verdict is given when it was
\* started but could not be put in its job, or not be waited for, and was
\* killed.
LaunchFailure(a) ==
  /\ \/ Applying(a, "started")
     \/ Applying(a, "spawned") \/ Applying(a, "running")
  /\ loose' = loose \ {a} /\ jobbed' = None
  /\ verdict' = "launch_failed" /\ step' = "ended"
  /\ UNCHANGED <<disk, ran, noted, pc, running, recovering, at, reported>>

\* It exits with a code, or its deadline passes; either way the job ends and
\* whatever it started with it.
Exit(a) ==
  /\ Applying(a, "running")
  /\ jobbed' = None
  /\ verdict' \in Ended /\ step' = "ended"
  /\ UNCHANGED <<disk, loose, ran, noted, pc, running, recovering, at, reported>>

Record(a) ==
  /\ Applying(a, "ended")
  /\ row' = [row EXCEPT ![a] = verdict] /\ step' = "settle"
  /\ UNCHANGED <<txnState, txnExe, opState, world, pc, running, recovering, at,
                 verdict, reported>>

\* Mutant: running out of time is no failure.
ContinuesTimedOut(a) == verdict \in {"completed", "reboot", "timed_out"} \/ Policy[a] = "continue"

\* A success, or a failure the action's policy lets the transaction survive.
Continues(a) == verdict \in {"completed", "reboot"} \/ Policy[a] = "continue"

Finish(a) ==
  /\ Applying(a, "settle") /\ Continues(a)
  /\ opState' = [opState EXCEPT ![a] = "applied"]
  /\ reported' = IF verdict = "reboot" THEN reported \cup {a} ELSE reported
  /\ at' = None /\ step' = "begin" /\ verdict' = None /\ pc' = "walk"
  /\ UNCHANGED <<txnState, txnExe, row, world, running, recovering>>

\* Anything else than an action fails the transaction: a cancel, a program
\* that is missing or not the recorded one, a write to the journal.
FailForward ==
  /\ pc = "walk" \/ (pc = "apply" /\ step \notin {"spawned", "running"})
  /\ at' = None /\ step' = "begin" /\ verdict' = None
  /\ pc' = "rollback"
  /\ UNCHANGED <<disk, world, running, recovering, reported>>

\* A failure that is fatal by the action's own policy.
FailByPolicy ==
  /\ pc = "apply" /\ step = "settle" /\ ~Continues(at)
  /\ at' = None /\ step' = "begin" /\ verdict' = None
  /\ pc' = "rollback"
  /\ UNCHANGED <<disk, world, running, recovering, reported>>

Commit ==
  /\ pc = "walk" /\ Pending = {}
  /\ txnState' = "committed"
  /\ pc' = "cleanup"
  /\ UNCHANGED <<txnExe, opState, row, world, running, recovering, at, step,
                 verdict, reported>>

----------------------------------------------------------------------------
(* The reverse walk. *)

BeginRollback ==
  /\ pc = "rollback"
  /\ txnState' = "rolling_back" /\ pc' = "reverse"
  /\ UNCHANGED <<txnExe, opState, row, world, running, recovering, at, step,
                 verdict, reported>>

\* Mutant: what was undone is undone again.
UndoAgain == {a \in Actions : opState[a] # "planned"}

Undoable == {a \in Actions : opState[a] \notin {"planned", "rolled_back"}}

StartUndo(a) ==
  /\ pc = "reverse" /\ a \in Undoable /\ \A b \in Undoable : b <= a
  /\ opState' = [opState EXCEPT ![a] = "rolling_back"]
  /\ at' = a /\ pc' = "undo"
  /\ UNCHANGED <<txnState, txnExe, row, world, running, recovering, step, verdict, reported>>

\* Nobody will see the end of a run still started: its row says so, in a
\* commit of its own.
GiveUpRun(a) ==
  /\ pc = "undo" /\ at = a /\ row[a] = "started"
  /\ row' = [row EXCEPT ![a] = "interrupted"]
  /\ UNCHANGED <<txnState, txnExe, opState, world, process>>

\* The rollback says of every run but one that could not be launched that
\* what it did stays.
Notes(a) == row[a] \notin {"none", "launch_failed"}

Undo(a) ==
  /\ pc = "undo" /\ at = a /\ opState[a] = "rolling_back" /\ row[a] # "started"
  /\ noted' = IF Notes(a) THEN noted \cup {a} ELSE noted
  /\ opState' = [opState EXCEPT ![a] = "rolled_back"]
  /\ at' = None /\ pc' = "reverse"
  /\ UNCHANGED <<txnState, txnExe, row, loose, jobbed, ran, running, recovering, step,
                 verdict, reported>>

\* A write to the journal fails.
UndoError(a) ==
  /\ pc = "undo" /\ at = a
  /\ opState' = [opState EXCEPT ![a] = "rollback_failed"]
  /\ txnState' = "rollback_failed"
  /\ EndProcess
  /\ UNCHANGED <<txnExe, row, world>>

FinishRollback ==
  /\ pc = "reverse" /\ Undoable = {}
  /\ txnState' = "rolled_back" /\ pc' = "cleanup"
  /\ UNCHANGED <<txnExe, opState, row, world, running, recovering, at, step,
                 verdict, reported>>

\* A recovering run plans its own transaction; any other ends.
Cleanup ==
  /\ pc = "cleanup"
  /\ IF recovering
     THEN /\ pc' = "plan" /\ recovering' = FALSE
          /\ UNCHANGED <<running, at, step, verdict, reported>>
     ELSE EndProcess
  /\ UNCHANGED <<disk, world>>

----------------------------------------------------------------------------
(* The environment. *)

\* The engine dies: the job object closes with its last handle and kills the
\* program in it; a program in no job goes on.
Crash ==
  /\ pc # "down"
  /\ jobbed' = None
  /\ EndProcess
  /\ UNCHANGED <<disk, loose, ran, noted>>

LooseExit(a) ==
  /\ a \in loose /\ ~Applying(a, "spawned")
  /\ loose' = loose \ {a}
  /\ UNCHANGED <<disk, jobbed, ran, noted, process>>

----------------------------------------------------------------------------

RunStep == Recover \/ Begin \/ LeaveBeforeTransaction \/ Cleanup

WalkStep ==
  \/ FailByPolicy \/ Commit
  \/ \E a \in Actions :
       \/ StartOperation(a) \/ Settle(a) \/ MarkInterrupted(a) \/ RunAgain(a)
       \/ StartRun(a) \/ Spawn(a) \/ AssignJob(a) \/ Exit(a)
       \/ Record(a) \/ Finish(a)

RollbackStep ==
  \/ BeginRollback \/ FinishRollback
  \/ \E a \in Actions : StartUndo(a) \/ GiveUpRun(a) \/ Undo(a)

EngineStep == RunStep \/ WalkStep \/ RollbackStep

Fault == Crash \/ FailForward \/ \E a \in Actions : LaunchFailure(a) \/ UndoError(a)

Next ==
  \/ \E exe \in Exes : Start(exe)
  \/ EngineStep
  \/ Fault
  \/ \E a \in Actions : LooseExit(a)

Spec == Init /\ [][Next]_vars

\* The process keeps running, a program ends at its deadline at the latest,
\* and somebody runs an installer or uninstaller of the product again.
Fairness == WF_vars(EngineStep) /\ WF_vars(\E exe \in Exes : Start(exe))
FairSpec == Spec /\ Fairness

----------------------------------------------------------------------------
(* Properties. *)

\* What a running program must find: its evidence row durable, its
\* transaction going forward, and an engine that waits for it.
Awaited(a) ==
  /\ txnState = "running" /\ opState[a] = "applying" /\ row[a] = "started"
  /\ pc = "apply" /\ at = a

\* The program in the job object runs only while it is awaited: never
\* unrecorded, never in a rollback, never after the run (txn/actions.rs
\* 164-168, state/action.rs 48-51).
Evidenced == jobbed # None => Awaited(jobbed)

\* The same of every program an action started, as the job object is to
\* ensure (TigerSetup-Design.md 9). It does not hold: a crash between Spawn and
\* AssignJob leaves the program loose.
NeverOrphaned == \A a \in loose \cup ({jobbed} \ {None}) : Awaited(a)

\* An action whose run ended, well or badly, is not run again by the same
\* transaction, however often it crashes and recovers: its row is final
\* (txn/actions.rs 325-331).
EndedIsFinal ==
  [][Open => \A a \in Actions : row[a] \in Ended => row'[a] = row[a]]_vars

\* A committed transaction ran every action to an end it knows, and those
\* whose failure is fatal to a success; what a failure means is decided the
\* same way by the run that saw it and by the run that settles it.
CommitMeansDone ==
  txnState = "committed" =>
    \A a \in Actions :
      /\ row[a] \in Verdicts
      /\ Policy[a] = "fail" => row[a] \in {"completed", "reboot"}

\* Once a transaction is closed no row claims that a program is running.
NoOpenEvidence == ~Open => \A a \in Actions : row[a] # "started"

\* A finished rollback has recorded action_not_reverted for every action
\* whose program began (TigerSetup-Design.md 1119-1121).
NotRevertedRecorded == txnState = "rolled_back" => ran \subseteq noted

\* What the code keeps of it: only an action whose last attempt could not be
\* launched may lack the record, however many runs the rollback itself took.
NotRevertedUnlessLaunchFailed ==
  txnState = "rolled_back" =>
    \A a \in ran \ noted : row[a] = "launch_failed"

\* The run that commits asks for the restart of every action that asked for
\* one (TigerSetup-Design.md 1092-1094). It does not hold: a recovery skips what
\* is applied and does not read its row.
RestartReported ==
  txnState = "committed" /\ pc = "cleanup" =>
    \A a \in Actions : row[a] = "reboot" => a \in reported

\* Once faults cease, an open transaction is closed, whatever its programs
\* did and however they ended.
Converges == <>[][~Fault]_vars => (Open ~> ~Open)
=============================================================================
