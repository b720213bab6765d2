------------------------------- MODULE Client -------------------------------
(***************************************************************************)
(* The unattended runs of one package on one machine, as chains of         *)
(* processes (main.rs): the process a caller started, the elevated child   *)
(* that does its work where it may not, the temporary copy an uninstaller  *)
(* runs from, and the helper that deletes that copy afterwards. Their      *)
(* engine (lib.rs) takes the lock of a scope's state database, recovers,   *)
(* and works on the scope's state directory; several chains, and the       *)
(* killing of any process, are interleaved. The dependency phase, the walk *)
(* of a transaction and quiescence are modules of their own and single     *)
(* steps here. The wizard is module Wizard.                                *)
(***************************************************************************)
EXTENDS Session

CONSTANTS
  Launches,   \* the chains
  Commands,   \* [operation, exe, given]: what a caller may start
  Policy,     \* the package's policy of existing scopes
  Offered,    \* the scopes it offers, its default first
  Installed,  \* sets of scopes that may hold an installation at first
  Legacies,   \* sets of scopes that may hold the product's predecessor
  MaxKills

Roles      == {"first", "elevated", "copy"}
Processes  == Launches \X Roles
Operations == {"install", "repair", "uninstall"}

\* What a database holds: whether the product's row is there, and the open
\* transactions, each with its kind and the executable that began it.
Databases == [installed : BOOLEAN,
              open : Seq([kind : Operations, exe : Scopes \cup {"setup"}])]

Outcomes ==
  {"installed", "already_installed", "uninstalled", "not_installed", "rolled_back",
   "failed", "database_busy", Conflict, Ambiguous, "relaunch_failed", "dependency",
   "elevation", "payload_unavailable", "recovery_incomplete", "legacy_uninstall_failed",
   "rollback_failed"}

ASSUME ClientAssumption ==
  /\ MaxKills \in Nat
  /\ Commands \subseteq [operation : Operations, exe : Scopes \cup {"setup"},
                         given : Scopes \cup {None}]
  /\ Offered \in Seq(Scopes) /\ Offered # <<>>
  /\ Installed \subseteq SUBSET Scopes /\ Legacies \subseteq SUBSET Scopes
  /\ None \notin Scopes \cup Outcomes
  /\ None \notin Commands /\ None \notin Processes /\ None \notin Databases

VARIABLES
  chain,    \* [Launches -> the command, the token, what the caller is shown]
  proc,     \* [Processes -> a process]
  state,    \* [Scopes -> the state directory]
  lock,     \* [Scopes -> the process holding the database, or None]
  temp,     \* temporary files: <<what, whose>>
  result,   \* [Launches -> the document in the result file: the outcome, None,
            \* or "unwritten" where writing it failed]
  helper,   \* [Launches -> the helper, "ended" where it left something undone]
  legacy,   \* scopes in which the predecessor is registered
  history   \* what the properties remember

vars == <<chain, proc, state, lock, temp, result, helper, legacy, history>>

NoDirectory == [db |-> None, uninstaller |-> FALSE, log |-> FALSE]
Database(installed, open) == [installed |-> installed, open |-> open]
Holding == [db |-> Database(TRUE, <<>>), uninstaller |-> TRUE, log |-> FALSE]

NoProcess == [pc |-> "none", scope |-> None, outcome |-> None, code |-> None,
              tree |-> "none", early |-> FALSE]

Init ==
  /\ chain = [l \in Launches |-> [command |-> None, admin |-> FALSE, shown |-> None]]
  /\ proc = [p \in Processes |-> NoProcess]
  /\ \E S \in Installed : state = [s \in Scopes |-> IF s \in S THEN Holding ELSE NoDirectory]
  /\ lock = [s \in Scopes |-> None]
  /\ temp = {} /\ result = [l \in Launches |-> None] /\ helper = [l \in Launches |-> "none"]
  /\ legacy \in Legacies
  /\ history = [kills |-> 0, killed |-> {}, ran |-> {}, last |-> [s \in Scopes |-> "none"], met |-> {}]

----------------------------------------------------------------------------
L(p)    == p[1]
Role(p) == p[2]
Cmd(p)  == chain[L(p)].command
Scope(p) == proc[p].scope
Here(p)  == state[Scope(p)]

HasElevated(l) == proc[<<l, "elevated">>].pc # "none"

Parent(p) ==
  IF Role(p) = "copy" /\ HasElevated(L(p)) THEN <<L(p), "elevated">> ELSE <<L(p), "first">>

Elevated(p) == chain[L(p)].admin \/ (Role(p) # "first" /\ HasElevated(L(p)))

Alive(p)     == proc[p].pc \notin {"none", "over", "killed"}
Installs(op) == op \in {"install", "repair"}

\* The executable a process reads its package from: the copy is of it.
InStateDirectory(p) == Role(p) # "copy" /\ Cmd(p).exe = Scope(p)

Running(s) == \E p \in Processes : Alive(p) /\ Role(p) # "copy" /\ Cmd(p).exe = s

\* A database held by another cannot be read, and is skipped.
Readable(s) == lock[s] = None /\ state[s].db # None

Start(p, given) ==
  [operation |-> Cmd(p).operation, policy |-> Policy, scopes |-> Offered,
   served    |-> IF Cmd(p).exe = "setup" THEN None ELSE Cmd(p).exe,
   given     |-> given, admin |-> Elevated(p),
   versions  |-> [s \in Scopes |->
      IF Readable(s) /\ state[s].db.installed THEN "1" ELSE None]]

\* The scope on the command line: a child's is the one its parent resolved,
\* and the copy's that of the process it is a copy of.
Given(p) ==
  CASE Role(p) = "first" -> Cmd(p).given
    [] Role(p) = "elevated" -> proc[<<L(p), "first">>].scope
    [] OTHER -> IF HasElevated(L(p)) THEN proc[<<L(p), "first">>].scope ELSE Cmd(p).given

\* Exit codes.
ExitCode(outcome) ==
  CASE outcome \in {"installed", "already_installed", "uninstalled", "not_installed"} -> 0
    [] outcome \in {"rolled_back", "failed", "database_busy"} -> 1
    [] outcome \in {Conflict, Ambiguous, "relaunch_failed"} -> 2
    [] outcome = "dependency" -> 3
    [] outcome = "elevation" -> 4
    [] OTHER -> 7

Set(p, now) == proc' = [proc EXCEPT ![p] = now]
Goes(p, pc) == Set(p, [proc[p] EXCEPT !.pc = pc])
Ends(p, pc, outcome) == Set(p, [proc[p] EXCEPT !.pc = pc, !.outcome = outcome])
Show(p, what) == chain' = [chain EXCEPT ![L(p)].shown = what]

\* An outcome is the process's own; the caller sees it where its output is
\* inherited from the first process.
Over(p, outcome) ==
  /\ Set(p, [proc[p] EXCEPT !.pc = "over", !.outcome = outcome, !.code = ExitCode(outcome)])
  /\ IF Role(p) = "first" \/ (Role(p) = "copy" /\ ~HasElevated(L(p)))
     THEN Show(p, outcome) ELSE UNCHANGED chain

----------------------------------------------------------------------------
(* main::run, up to the engine.                                            *)

Begins(l) ==
  /\ chain[l].command = None
  /\ \E c \in Commands, admin \in BOOLEAN :
       /\ c.exe \in Scopes => state[c.exe].uninstaller
       /\ chain' = [chain EXCEPT ![l] = [@ EXCEPT !.command = c, !.admin = admin]]
  /\ Goes(<<l, "first">>, "resolve")
  /\ UNCHANGED <<state, lock, temp, result, helper, legacy, history>>

\* An elevated child is not elevated again, nor a copy copied.
Next0(p, scope) ==
  LET in == Start(p, Given(p)) IN
  IF Role(p) # "elevated" /\ ~(Role(p) = "copy" /\ HasElevated(L(p))) /\ needs_elevation(in, scope)
  THEN "elevate"
  ELSE IF Cmd(p).operation = "uninstall" /\ Role(p) # "copy" /\ Cmd(p).exe = scope THEN "stage"
  ELSE "engine"

Resolve(p) ==
  /\ proc[p].pc = "resolve"
  /\ LET in == Start(p, Given(p))  decision == decide(in, Requested(in)) IN
       IF decision \in Scopes
       THEN Set(p, [proc[p] EXCEPT !.scope = decision, !.pc = Next0(p, decision)]) /\ UNCHANGED chain
       ELSE Over(p, decision)
  /\ UNCHANGED <<state, lock, temp, result, helper, legacy, history>>

\* relaunch_with: the parent creates the result file before the prompt.
Relaunch(p) ==
  /\ proc[p].pc = "elevate"
  /\ proc' = [proc EXCEPT ![p].pc = "wait", ![<<L(p), "elevated">>].pc = "resolve"]
  /\ temp' = temp \cup {<<"result", L(p)>>}
  /\ UNCHANGED <<chain, state, lock, result, helper, legacy, history>>

Refused(p) ==
  /\ proc[p].pc = "elevate"
  /\ Over(p, "elevation")
  /\ UNCHANGED <<state, lock, temp, result, helper, legacy, history>>

\* What the caller is shown is the child's document, where there is one.
Collect(p) ==
  LET child == <<L(p), "elevated">> IN
  /\ proc[p].pc = "wait" /\ ~Alive(child)
  /\ Set(p, [proc[p] EXCEPT !.pc = "over", !.code = proc[child].code])
  /\ Show(p, IF result[L(p)] \in {None, "unwritten"}
             THEN "elevated_result_missing" ELSE result[L(p)])
  /\ temp' = temp \ {<<"result", L(p)>>}
  /\ UNCHANGED <<state, lock, result, helper, legacy, history>>

\* relaunch_from_temporary.
Stage(p) ==
  /\ proc[p].pc = "stage"
  /\ proc' = [proc EXCEPT ![p].pc = "linger", ![<<L(p), "copy">>].pc = "resolve"]
  /\ temp' = temp \cup {<<"copy", L(p)>>}
  /\ UNCHANGED <<chain, state, lock, result, helper, legacy, history>>

StageFails(p) ==
  /\ proc[p].pc = "stage"
  /\ Over(p, "relaunch_failed")
  /\ temp' = temp \cup {<<"staging", L(p)>>}
  /\ UNCHANGED <<state, lock, result, helper, legacy, history>>

Copied(p) ==
  /\ proc[p].pc = "linger" /\ ~Alive(<<L(p), "copy">>)
  /\ Set(p, [proc[p] EXCEPT !.pc = "over", !.code = proc[<<L(p), "copy">>].code])
  /\ UNCHANGED <<chain, state, lock, temp, result, helper, legacy, history>>

----------------------------------------------------------------------------
(* The engine.                                                             *)

\* An uninstall logs to a temporary file, the others in the state directory.
OpenLog(p) ==
  IF Cmd(p).operation = "uninstall"
  THEN temp' = temp \cup {<<"log", L(p)>>} /\ UNCHANGED state
  ELSE state' = [state EXCEPT ![Scope(p)].log = TRUE] /\ UNCHANGED temp

OpensEarly(p) == Set(p, [proc[p] EXCEPT !.pc = "open", !.early = TRUE])
Fails(p, outcome) == Ends(p, "finish", outcome)

Run(p) ==
  /\ proc[p].pc = "engine"
  /\ OpenLog(p)
  /\ CASE Installs(Cmd(p).operation) /\ Cmd(p).exe # "setup" -> Fails(p, "payload_unavailable")
       [] Cmd(p).operation = "install" /\ Cmd(p).exe = "setup" -> Goes(p, "policy")
       [] OTHER -> OpensEarly(p)
  /\ history' = [history EXCEPT !.ran = @ \cup {p}]
  /\ UNCHANGED <<chain, lock, result, helper, legacy>>

\* The policy again, and then whether there is a database to recover.
Looks(p) ==
  IF Here(p).db # None THEN OpensEarly(p) ELSE Goes(p, "dependencies")

HoldsPolicy(p) ==
  /\ proc[p].pc = "policy"
  /\ LET decision == decide(Start(p, Scope(p)), Scope(p)) IN
       IF decision \in Scopes THEN Looks(p) ELSE Fails(p, decision)
  /\ UNCHANGED <<chain, state, lock, temp, result, helper, legacy, history>>

\* Outcomes after which nothing of the product is left.
Gone(outcome) == outcome \in {"uninstalled", "not_installed"}

\* An uninstall of the scope is still removing what it left, or the helper
\* of its copy is.
LeftToHelper(s) ==
  \E l \in Launches : chain[l].command # None /\ chain[l].command.exe = s
    /\ \/ helper[l] = "uninstalled"
       \/ proc[<<l, "copy">>].pc = "finish" /\ Gone(proc[<<l, "copy">>].outcome)

BeingRemoved(s) ==
  \/ \E p \in Processes : proc[p].pc \in {"aside", "remove"} /\ Scope(p) = s
  \/ LeftToHelper(s)

\* Db::open_rw creates the database and takes its lock.
Open(p) ==
  LET s == Scope(p) IN
  /\ proc[p].pc = "open" /\ lock[s] = None
  /\ lock' = [lock EXCEPT ![s] = p]
  /\ state' = [state EXCEPT ![s].db = IF @ = None THEN Database(FALSE, <<>>) ELSE @]
  /\ history' = [history EXCEPT !.met = IF BeingRemoved(s) THEN @ \cup {s} ELSE @]
  /\ Goes(p, IF proc[p].early THEN "recover" ELSE "plan")
  /\ UNCHANGED <<chain, temp, result, helper, legacy>>

Busy(p) ==
  /\ proc[p].pc = "open" /\ lock[Scope(p)] # None
  /\ Fails(p, "database_busy")
  /\ UNCHANGED <<chain, state, lock, temp, result, helper, legacy, history>>

Db(p, installed, open) ==
  state' = [state EXCEPT ![Scope(p)].db = Database(installed, open)]

\* What a transaction leaves, taken forward or back.
Forward(kind) == Installs(kind)
Back(kind)    == kind # "install"

Recovered(p) == Goes(p, IF Cmd(p).operation = "install" THEN "dependencies" ELSE "plan")

\* The latest transaction is taken forward by the package that opened it,
\* and back by any other.
Recover(p) ==
  LET db == Here(p).db  n == Len(db.open) IN
  /\ proc[p].pc = "recover"
  /\ \/ n = 0 /\ Recovered(p) /\ UNCHANGED state
     \/ n > 0 /\ db.open[n].exe = Cmd(p).exe /\ Recovered(p)
        /\ Db(p, Forward(db.open[n].kind), Front(db.open))
     \/ n > 0 /\ Recovered(p) /\ Db(p, Back(db.open[n].kind), Front(db.open))
     \/ n > 0 /\ Ends(p, "drop", "recovery_incomplete") /\ UNCHANGED state
  /\ UNCHANGED <<chain, lock, temp, result, helper, legacy, history>>

\* The database is closed when the run is left.
Leaves(p, outcome) == Ends(p, IF lock[Scope(p)] = p THEN "drop" ELSE "finish", outcome)

Dependencies(p) ==
  /\ proc[p].pc = "dependencies"
  /\ Leaves(p, "dependency") \/ Goes(p, "legacy")
  /\ UNCHANGED <<chain, state, lock, temp, result, helper, legacy, history>>

Held(p) == lock[Scope(p)] = p

\* legacy::migrate: the predecessor's own uninstaller, with all it starts.
Migrate(p) ==
  /\ proc[p].pc = "legacy"
  /\ \/ Scope(p) \notin legacy /\ Goes(p, IF Held(p) THEN "plan" ELSE "open")
     \/ Scope(p) \in legacy /\ Set(p, [proc[p] EXCEPT !.pc = "verdict", !.tree = "running"])
     \/ Scope(p) \in legacy /\ Leaves(p, "legacy_uninstall_failed")
  /\ UNCHANGED <<chain, state, lock, temp, result, helper, legacy, history>>

Uninstaller(p) ==
  /\ proc[p].tree = "running"
  /\ \/ legacy' = legacy \ {Scope(p)} /\ UNCHANGED proc
     \/ \E end \in {"succeeded", "errored"} : Set(p, [proc[p] EXCEPT !.tree = end]) /\ UNCHANGED legacy
  /\ UNCHANGED <<chain, state, lock, temp, result, helper, history>>

\* Mutant: a registration that is gone is enough.
VerdictByKey(p) == Scope(p) \notin legacy

\* A key that disappears with processes still running does not count.
verdict(p) == proc[p].tree = "succeeded" /\ Scope(p) \notin legacy

Migrated(p) ==
  /\ proc[p].pc = "verdict"
  /\ IF verdict(p) THEN Goes(p, IF Held(p) THEN "plan" ELSE "open")
     ELSE Leaves(p, "legacy_uninstall_failed")
  /\ UNCHANGED <<chain, state, lock, temp, result, helper, legacy, history>>

\* The row decides what there is to do.
Plan(p) ==
  /\ proc[p].pc = "plan"
  /\ CASE Cmd(p).operation = "install" /\ Here(p).db.installed ->
            Leaves(p, "already_installed")
       [] Cmd(p).operation = "repair" /\ ~Here(p).db.installed -> Leaves(p, "failed")
       [] Cmd(p).operation = "uninstall" /\ ~Here(p).db.installed -> Leaves(p, "not_installed")
       [] Cmd(p).operation = "uninstall" /\ Here(p).db.installed -> Goes(p, "begin")
       [] OTHER -> Goes(p, "write")
  /\ UNCHANGED <<chain, state, lock, temp, result, helper, legacy, history>>

\* write_uninstaller: staged and renamed over the old one, which must not
\* be running.
Write(p) ==
  /\ proc[p].pc = "write"
  /\ \/ /\ ~(Here(p).uninstaller /\ Running(Scope(p)))
        /\ Goes(p, "begin") /\ state' = [state EXCEPT ![Scope(p)].uninstaller = TRUE]
     \/ Leaves(p, "failed") /\ UNCHANGED state
  /\ UNCHANGED <<chain, lock, temp, result, helper, legacy, history>>

Begin(p) ==
  LET open == Here(p).db.open IN
  /\ proc[p].pc = "begin"
  /\ Goes(p, "walk")
  /\ Db(p, Here(p).db.installed, Append(open, [kind |-> Cmd(p).operation, exe |-> Cmd(p).exe]))
  /\ history' = [history EXCEPT !.met = IF open # <<>> THEN @ \cup {Scope(p)} ELSE @]
  /\ UNCHANGED <<chain, lock, temp, result, helper, legacy>>

Commit(p) ==
  /\ proc[p].pc = "walk"
  /\ Db(p, Forward(Cmd(p).operation), Front(Here(p).db.open))
  /\ Leaves(p, IF Installs(Cmd(p).operation) THEN "installed" ELSE "uninstalled")
  /\ UNCHANGED <<chain, lock, temp, result, helper, legacy, history>>

RollBack(p) ==
  /\ proc[p].pc = "walk"
  /\ \/ Db(p, Back(Cmd(p).operation), Front(Here(p).db.open)) /\ Leaves(p, "rolled_back")
     \/ Leaves(p, "rollback_failed") /\ UNCHANGED state
  /\ UNCHANGED <<chain, lock, temp, result, helper, legacy, history>>

Drop(p) ==
  /\ proc[p].pc = "drop"
  /\ lock' = [lock EXCEPT ![Scope(p)] = None]
  /\ Goes(p, IF Gone(proc[p].outcome) THEN "aside" ELSE "finish")
  /\ history' = [history EXCEPT !.last[Scope(p)] = "kept"]
  /\ UNCHANGED <<chain, state, temp, result, helper, legacy>>

\* remove_state_directory: the executable the copy was made of is moved
\* out of the directory, where that is possible.
MoveAside(p) ==
  /\ proc[p].pc = "aside"
  /\ Goes(p, "remove")
  /\ \/ /\ Role(p) = "copy" /\ Here(p).uninstaller
        /\ state' = [state EXCEPT ![Scope(p)].uninstaller = FALSE]
        /\ temp' = temp \cup {<<"aside", L(p)>>}
     \/ UNCHANGED <<state, temp>>
  /\ UNCHANGED <<chain, lock, result, helper, legacy, history>>

\* A running executable and a database in use stay; so may what another
\* program holds.
RemoveState(p) ==
  LET s == Scope(p)  stays == Here(p).uninstaller /\ Running(s) IN
  /\ proc[p].pc = "remove"
  /\ Goes(p, "finish")
  /\ \/ /\ lock[s] = None
        /\ state' = [state EXCEPT ![s] = [NoDirectory EXCEPT !.uninstaller = stays]]
        /\ history' = [history EXCEPT !.last[s] = IF stays /\ Role(p) # "copy" THEN "left" ELSE "removed"]
     \/ \E here \in {Here(p), [Here(p) EXCEPT !.log = FALSE, !.uninstaller = stays]} :
          /\ state' = [state EXCEPT ![s] = here]
          /\ history' = [history EXCEPT !.last[s] = "left"]
  /\ UNCHANGED <<chain, lock, temp, result, helper, legacy>>

\* Mutant: only the elevated process itself knows the result file.
HandsBackItself(p) == Role(p) = "elevated"

\* The result file is on the command line, and so on that of the copy.
HandsBack(p) == HasElevated(L(p))

\* A child writes its document to the result file, where it can; a copy
\* leaves its own deletion to a helper.
Finish(p) ==
  LET l == L(p)  outcome == proc[p].outcome IN
  /\ proc[p].pc = "finish"
  /\ Over(p, outcome)
  /\ temp' = IF Gone(outcome) THEN temp \ {<<"log", l>>} ELSE temp
  /\ IF HandsBack(p)
     THEN \E document \in {outcome, "unwritten"} : result' = [result EXCEPT ![l] = document]
     ELSE UNCHANGED result
  /\ helper' = IF Role(p) # "copy" THEN helper
               ELSE [helper EXCEPT ![l] = IF Gone(outcome) THEN "uninstalled" ELSE "waits"]
  /\ UNCHANGED <<state, lock, legacy, history>>

\* Mutants: the executable in the state directory is never deleted, or
\* whatever came of the run.
DeletesNever(l)  == FALSE
DeletesAlways(l) == TRUE

Deletes(l) == helper[l] = "uninstalled"

\* One turn of the helper's script, which is over when nothing is left.
Help(l) ==
  LET s == chain[l].command.exe
      free == {x \in {<<"copy", l>>, <<"aside", l>>} :
                 IF x[1] = "copy" THEN ~Alive(<<l, "copy">>) ELSE ~Running(s)}
  IN
  /\ helper[l] \in {"waits", "uninstalled"}
  /\ temp' = temp \ free
  /\ state' = IF Deletes(l) /\ ~Running(s)
              THEN [state EXCEPT ![s].uninstaller = FALSE] ELSE state
  /\ helper' = IF {<<"copy", l>>, <<"aside", l>>} \cap temp' = {}
                  /\ (Deletes(l) => ~state'[s].uninstaller)
               THEN [helper EXCEPT ![l] = "done"] ELSE helper
  /\ UNCHANGED <<chain, proc, lock, result, legacy, history>>

\* The script makes thirty turns of a second, whoever still runs or holds
\* what it is to delete; and nobody looks whether it was started at all.
GivesUp(l) ==
  /\ helper[l] \in {"waits", "uninstalled"}
  /\ helper' = [helper EXCEPT ![l] = "ended"]
  /\ UNCHANGED <<chain, proc, state, lock, temp, result, legacy, history>>

Kill(p) ==
  /\ Alive(p) /\ history.kills < MaxKills
  /\ Set(p, [proc[p] EXCEPT !.pc = "killed", !.code = 1])
  /\ lock' = [s \in Scopes |-> IF lock[s] = p THEN None ELSE lock[s]]
  /\ history' = [history EXCEPT !.kills = @ + 1, !.killed = @ \cup {L(p)},
                   !.last = [s \in Scopes |-> IF lock[s] = p THEN "kept" ELSE @[s]]]
  /\ UNCHANGED <<chain, state, temp, result, helper, legacy>>

Step(p) ==
  \/ Resolve(p) \/ Relaunch(p) \/ Refused(p) \/ Collect(p)
  \/ Stage(p) \/ StageFails(p) \/ Copied(p)
  \/ Run(p) \/ HoldsPolicy(p) \/ Open(p) \/ Busy(p) \/ Recover(p)
  \/ Dependencies(p) \/ Migrate(p) \/ Uninstaller(p) \/ Migrated(p)
  \/ Plan(p) \/ Write(p) \/ Begin(p) \/ Commit(p) \/ RollBack(p)
  \/ Drop(p) \/ MoveAside(p) \/ RemoveState(p) \/ Finish(p) \/ Kill(p)

Next ==
  \/ \E l \in Launches : Begins(l) \/ Help(l) \/ GivesUp(l)
  \/ \E p \in Processes : Step(p)

Spec == Init /\ [][Next]_vars

----------------------------------------------------------------------------
(* Properties.                                                             *)

\* The process a chain went on to last.
LastOf(l) ==
  CASE proc[<<l, "copy">>].pc # "none" -> <<l, "copy">>
    [] proc[<<l, "copy">>].pc = "none" /\ HasElevated(l) -> <<l, "elevated">>
    [] OTHER -> <<l, "first">>

\* Whichever process of a chain ran the engine, the caller gets its exit
\* code and sees its outcome (main.rs: "so that the caller sees exactly
\* one"), or hears that there is no document where writing it failed; and
\* whichever process refused before, its exit code comes through ("its exit
\* code is still the truth about what happened").
AnswersForTheRun ==
  \A l \in Launches : proc[<<l, "first">>].pc = "over" /\ l \notin history.killed =>
    /\ proc[<<l, "first">>].code = proc[LastOf(l)].code
    /\ \A p \in history.ran : L(p) = l =>
         /\ proc[<<l, "first">>].code = ExitCode(proc[p].outcome)
         /\ chain[l].shown = IF HasElevated(l) /\ result[l] = "unwritten"
                             THEN "elevated_result_missing" ELSE proc[p].outcome

AllOver ==
  /\ \A p \in Processes : ~Alive(p)
  /\ \A l \in Launches : helper[l] \in {"none", "done", "ended"}

\* An uninstall of the scope ended, and its helper did not.
Unfinished(s) ==
  \E l \in Launches : chain[l].command # None /\ chain[l].command.exe = s
    /\ helper[l] = "ended" /\ Gone(proc[<<l, "copy">>].outcome)

\* When every process and helper is over and no process was killed, the
\* temporary files are those of failures, and of a scope whose last run
\* removed it nothing is left (lib.rs: "an uninstalled product leaves nothing
\* of TigerSetup's behind"), unless a helper was not started or gave up: then
\* its own copies, and the uninstaller it was to delete, may stay.
LeavesNothing ==
  AllOver /\ history.killed = {} =>
    /\ \A x \in temp :
         x[1] \in {"log", "staging"} \/ (x[1] \in {"copy", "aside"} /\ helper[x[2]] = "ended")
    /\ \A s \in Scopes : history.last[s] = "removed" =>
         state[s].db = None /\ (state[s].uninstaller => Unfinished(s))

\* An installation has its uninstaller, whatever runs were killed or rolled
\* back, unless a run met an uninstall that was still cleaning up, or began
\* over an open transaction: two of them, left open, outlast an uninstall,
\* and the one below is then taken forward without an uninstaller.
HasUninstaller ==
  \A s \in Scopes : state[s].db # None /\ state[s].db.installed /\ s \notin history.met =>
    state[s].uninstaller

\* The product is installed over no predecessor and beside no uninstaller
\* of one that the run started (legacy.rs: "A key that disappeared while
\* processes were still running does not count").
LegacyFirst ==
  \A p \in Processes : proc[p].pc = "walk" /\ Cmd(p).operation = "install" =>
    Scope(p) \notin legacy /\ proc[p].tree # "running"

\* What is installed can be removed and is the only one of its kind: it has
\* its uninstaller, and its predecessor went first.
InstalledIsUsable == HasUninstaller /\ LegacyFirst

\* No transaction begins over one that was left open (lib.rs: "An open
\* transaction is reconciled before anything else"). It does not hold: an
\* install that saw no database opens the one another made since, and begins.
NeverOverOpenTransaction ==
  \A s \in Scopes : state[s].db # None => Len(state[s].db.open) <= 1
=============================================================================
