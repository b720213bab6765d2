----------------------------- MODULE Quiescence -----------------------------
(***************************************************************************)
(* The applications around a transaction: the quiescence a package         *)
(* declares (quiescence.rs) and the Restart Manager session (restart.rs),  *)
(* as reconcile_run and uninstall of lib.rs wrap them around the           *)
(* transaction of ActionStore. Before the transaction opens, each entry's  *)
(* stop program is run, then whoever holds a file is closed; after it,     *)
(* what was closed and what was stopped is started again, or is not.       *)
(*                                                                         *)
(* What a run owes is in its memory (owed, closed) and goes with a crash.  *)
(* The histories (owing, shut) say what the run took away and nobody has   *)
(* given back; unstarted says why the run did not give it back itself.     *)
(***************************************************************************)
EXTENDS ActionStore

CONSTANTS
  Apps,         \* the entries that are quiescence entries, one application each
  RunOn,        \* RunOn[e]: the operations an entry names
  Resumes,      \* Resumes[v]: the entries of version v that declare a resume
  Continues,    \* the entries whose stop may fail: on_failure = continue
  Holders,      \* other applications that hold files of the product
  Restartable,  \* those registered with RegisterApplicationRestart
  StopErrors    \* recording a stop that succeeded, or extracting its resume
                \* program, may fail

Operations == {"install", "upgrade", "uninstall"}

ASSUME QuiescenceAssumption ==
  /\ Apps \subseteq Entries /\ Continues \subseteq Apps
  /\ RunOn \in [Apps -> SUBSET Operations]
  /\ Resumes \in [Versions -> SUBSET Apps]
  /\ Restartable \subseteq Holders
  /\ StopErrors \in BOOLEAN

VARIABLES
  stage,      \* where the run is around its transaction
  purpose,    \* the kind of transaction it is for
  left,       \* entries whose stop program has not run
  at,         \* the entry just stopped, whose resume program is being resolved
  owed,       \* what the run stopped and will resume: Quiesced::stopped
  app,        \* whether each declared application runs
  owing,      \* history: stopped by this run, resume declared, not started since
  unstarted,  \* why the run did not start an entry again: its report says so,
              \* except of one whose resume was never resolved
  closed,     \* the holders the session closed
  up,         \* the holders that run
  shut        \* history: restartable holders this run closed, not started since

memory == <<stage, purpose, left, at, owed, closed>>
apps   == <<app, owing, unstarted>>
others == <<up, shut>>
vars   == <<storeVars, memory, apps, others>>

Stages == {"idle", "stop", "resolve", "begin", "transact", "settle", "settled",
           "refusing", "refused"}

Reasons == {"none", "unresolved", "open", "missing", "refused"}

TypeQ ==
  /\ stage \in Stages
  /\ purpose \in {"installs", "uninstall"}
  /\ left \subseteq Apps /\ owed \subseteq Apps /\ owing \subseteq Apps
  /\ at \in Apps \cup {Nothing}
  /\ app \in [Apps -> {"running", "stopped"}] /\ unstarted \in [Apps -> Reasons]
  /\ closed \subseteq Holders /\ up \subseteq Holders /\ shut \subseteq Restartable

NoReason == [e \in Apps |-> "none"]

Init ==
  /\ StoreInit
  /\ stage = "idle" /\ purpose = "installs"
  /\ left = {} /\ at = Nothing /\ owed = {}
  /\ app \in [Apps -> {"running", "stopped"}] /\ owing = {}
  /\ unstarted = NoReason
  /\ closed = {} /\ up \in SUBSET Holders /\ shut = {}

----------------------------------------------------------------------------
(* Stopping what the package, or the installation, declares.               *)

\* The version whose entries the run executes.
Declaring == IF purpose = "installs" THEN running.version ELSE installed

OperationOf(p) == IF p = "uninstall" THEN "uninstall"
                  ELSE IF installed = Nothing THEN "install" ELSE "upgrade"

Prepare(p) ==
  /\ pc = "plan" /\ stage = "idle"
  /\ IF p = "installs" THEN running.role = "setup" ELSE installed # Nothing
  /\ purpose' = p
  /\ left' = {e \in Apps : OperationOf(p) \in RunOn[e]}
  /\ stage' = "stop" /\ owing' = {} /\ unstarted' = NoReason /\ shut' = {}
  /\ UNCHANGED <<storeVars, at, owed, closed, app, up>>

\* Mutant: an uninstall extracts as well.
PayloadAlways == TRUE

\* Only an installing run has a payload to extract from.
HasPayload == purpose = "installs"

\* The packaged program program_of is about to need.
Needs(h) ==
  \/ stage = "stop" /\ \E e \in left : h = Stop[Declaring][e]
  \/ stage = "resolve" /\ at \in Resumes[Declaring] /\ h = Resume[Declaring][at]

Fetch(h) ==
  /\ pc = "plan" /\ Needs(h) /\ HasPayload /\ h \notin store
  /\ store' = store \cup {h} /\ lost' = lost \ {h}
  /\ UNCHANGED <<installed, journal, pc, running, recovering, todo, memory, apps, others>>

Available(p) == p = Nothing \/ p \in store

\* An uninstall finds a packaged program in the store or not at all.
Missing(p) == p # Nothing /\ ~HasPayload /\ p \notin store

\* The stop program ran and said so: it stopped the application.
StopApp(e) ==
  /\ stage = "stop" /\ e \in left /\ Available(Stop[Declaring][e])
  /\ app[e] = "running"
  /\ app' = [app EXCEPT ![e] = "stopped"]
  /\ owing' = IF e \in Resumes[Declaring] THEN owing \cup {e} ELSE owing
  /\ left' = left \ {e} /\ at' = e /\ stage' = "resolve"
  /\ UNCHANGED <<storeVars, purpose, owed, closed, unstarted, others>>

\* not_running_codes: a completed stop that stopped nothing.
NotRunning(e) ==
  /\ stage = "stop" /\ e \in left /\ Available(Stop[Declaring][e])
  /\ app[e] = "stopped"
  /\ left' = left \ {e}
  /\ UNCHANGED <<storeVars, stage, purpose, at, owed, closed, apps, others>>

\* The stop program fails, whatever it did to the application.
StopFails(e) ==
  /\ stage = "stop" /\ e \in left
  /\ \E now \in {"stopped", app[e]} : app' = [app EXCEPT ![e] = now]
  /\ left' = left \ {e}
  /\ stage' = IF e \in Continues THEN "stop" ELSE "refusing"
  /\ UNCHANGED <<storeVars, purpose, at, owed, owing, unstarted, closed, others>>

\* program_of fails for the stop program, or its row cannot be written.
StopError ==
  /\ stage = "stop" /\ left # {}
  /\ stage' = "refusing"
  /\ UNCHANGED <<storeVars, purpose, left, at, owed, closed, apps, others>>

\* Mutant: what was stopped before is forgotten.
OweLast(e) == {e}

Owe(e) == owed \cup {e}

\* The resume program is resolved while the payload is at hand.
Resolve ==
  /\ stage = "resolve"
  /\ at \in Resumes[Declaring] => Available(Resume[Declaring][at])
  /\ at' = Nothing /\ stage' = "stop"
  /\ owed' = Owe(at)
  /\ UNCHANGED <<storeVars, purpose, left, closed, apps, others>>

\* It cannot be, or the row of the stop cannot be written: the entry just
\* stopped is not among those the run owes.
ResolveFails ==
  /\ stage = "resolve"
  /\ StopErrors \/ (at \in Resumes[Declaring] /\ Missing(Resume[Declaring][at]))
  /\ at' = Nothing /\ stage' = "refusing"
  /\ unstarted' = [unstarted EXCEPT ![at] = "unresolved"]
  /\ UNCHANGED <<storeVars, purpose, left, owed, closed, app, owing, others>>

----------------------------------------------------------------------------
(* Closing whoever holds the files, and the transaction.                   *)

\* No file at risk is held, or no Restart Manager can be had, or the list
\* of holders cannot be read: the run proceeds without a session.
AcquireNothing ==
  /\ stage = "stop" /\ left = {}
  /\ stage' = "begin"
  /\ UNCHANGED <<storeVars, purpose, left, at, owed, closed, apps, others>>

\* The holders are asked to close; the run goes on when all of them have
\* gone, and refuses, ending the session, when one has not, or when the
\* person leaves them all running.
Acquire ==
  /\ stage = "stop" /\ left = {} /\ up # {}
  /\ \E gone \in SUBSET up :
       /\ up' = up \ gone
       /\ shut' = shut \cup (gone \cap Restartable)
       /\ IF gone = up THEN stage' = "begin" /\ closed' = gone
          ELSE stage' = "refusing" /\ UNCHANGED closed
  /\ UNCHANGED <<storeVars, purpose, left, at, owed, apps>>

OpenTransaction ==
  /\ stage = "begin" /\ Begin(purpose)
  /\ stage' = "transact"
  /\ UNCHANGED <<purpose, left, at, owed, closed, apps, others>>

\* The journal refuses the transaction; the session ends with the run.
OpenTransactionFails ==
  /\ stage = "begin"
  /\ stage' = "refusing" /\ closed' = {}
  /\ UNCHANGED <<storeVars, purpose, left, at, owed, apps, others>>

\* A step of the transaction this run opened, or of one it recovers.
Transact ==
  /\ stage \in {"idle", "transact"} /\ TransactionStep
  /\ UNCHANGED <<memory, apps, others>>

\* What release starts again, whatever the outcome.
Restarted == closed \cap Restartable

Release ==
  /\ stage = "transact" /\ pc = "done"
  /\ up' = up \cup Restarted /\ shut' = shut \ Restarted
  /\ closed' = {} /\ stage' = "settle"
  /\ UNCHANGED <<storeVars, purpose, left, at, owed, apps>>

----------------------------------------------------------------------------
(* Settling what was stopped.                                              *)

Uninstalled == txnState = "committed" /\ txnKind = "uninstall"

\* Mutant: only a transaction that committed owes a resume.
ForgivenUnlessCommitted == txnState # "committed" \/ Uninstalled

\* Nothing is resumed into an open transaction or after an uninstall.
Forgiven == Open \/ Uninstalled

\* Of an open transaction the report names what stays stopped.
SettleNothing ==
  /\ stage = "settle" /\ Forgiven
  /\ unstarted' = [e \in Apps |-> IF Open /\ e \in owed THEN "open" ELSE unstarted[e]]
  /\ owed' = {} /\ stage' = "settled"
  /\ UNCHANGED <<storeVars, purpose, left, at, closed, app, owing, others>>

Resuming == stage = "refusing" \/ (stage = "settle" /\ ~Forgiven)

\* resume: the declared program is started detached. It may be gone, and
\* Windows may refuse to start it; the report then says so.
StartAgain(e) ==
  /\ Available(Resume[Declaring][e])
  /\ app' = [app EXCEPT ![e] = "running"] /\ owing' = owing \ {e}
  /\ UNCHANGED unstarted

CannotStart(e) ==
  /\ unstarted' = [unstarted EXCEPT ![e] =
                    IF Available(Resume[Declaring][e]) THEN "refused" ELSE "missing"]
  /\ UNCHANGED <<app, owing>>

ResumeOne(e) ==
  /\ Resuming /\ e \in owed
  /\ owed' = owed \ {e}
  /\ IF e \in Resumes[Declaring] THEN StartAgain(e) \/ CannotStart(e) ELSE UNCHANGED apps
  /\ UNCHANGED <<storeVars, stage, purpose, left, at, closed, others>>

\* Mutant: a run that refuses does not look at what it owes.
DoneWhateverOwed == Resuming

AllResumed == Resuming /\ owed = {}

FinishSettling ==
  /\ AllResumed
  /\ stage' = IF stage = "settle" THEN "settled" ELSE "refused"
  /\ UNCHANGED <<storeVars, purpose, left, at, owed, closed, apps, others>>

----------------------------------------------------------------------------
(* The rest of a run, and everybody else.                                  *)

StartRun(exe) ==
  /\ Start(exe)
  /\ owing' = {} /\ unstarted' = NoReason /\ shut' = {}
  /\ UNCHANGED <<memory, app, up>>

Leave ==
  /\ stage \in {"idle", "refused"} /\ LeaveBeforeTransaction
  /\ UNCHANGED <<memory, apps, others>>

EndRun ==
  /\ stage \in {"idle", "settled", "refused"} /\ End
  /\ stage' = "idle"
  /\ UNCHANGED <<purpose, left, at, owed, closed, apps, others>>

\* A crash is not a normal failure path: what was stopped stays stopped.
CrashRun ==
  /\ Crash
  /\ stage' = "idle" /\ left' = {} /\ at' = Nothing /\ owed' = {} /\ closed' = {}
  /\ owing' = {} /\ unstarted' = NoReason /\ shut' = {}
  /\ UNCHANGED <<purpose, app, up>>

User ==
  /\ \/ \E e \in Apps :
          \/ app[e] = "stopped" /\ app' = [app EXCEPT ![e] = "running"] /\ owing' = owing \ {e}
          \/ app[e] = "running" /\ app' = [app EXCEPT ![e] = "stopped"] /\ UNCHANGED owing
        /\ UNCHANGED <<unstarted, others>>
     \/ \E h \in Holders :
          \/ h \notin up /\ up' = up \cup {h} /\ shut' = shut \ {h}
          \/ h \in up /\ up' = up \ {h} /\ UNCHANGED shut
        /\ UNCHANGED apps
  /\ UNCHANGED <<storeVars, memory>>

LoseProgram(h) ==
  /\ Lose(h)
  /\ UNCHANGED <<memory, apps, others>>

RecoverRun ==
  /\ Recover
  /\ UNCHANGED <<memory, apps, others>>

Next ==
  \/ \E exe \in Exes : StartRun(exe)
  \/ RecoverRun \/ Leave \/ EndRun \/ CrashRun \/ User
  \/ \E p \in {"installs", "uninstall"} : Prepare(p)
  \/ \E e \in Apps : StopApp(e) \/ NotRunning(e) \/ StopFails(e) \/ ResumeOne(e)
  \/ \E h \in Hashes : Fetch(h) \/ LoseProgram(h)
  \/ StopError \/ Resolve \/ ResolveFails
  \/ AcquireNothing \/ Acquire \/ OpenTransaction \/ OpenTransactionFails \/ Transact
  \/ Release \/ SettleNothing \/ FinishSettling

Spec == Init /\ [][Next]_vars

----------------------------------------------------------------------------
(* Properties. *)

\* The quiescence only adds to the transaction: whatever it extracts, and
\* wherever a run refuses, every run behaves as ActionStore says, so that
\* the installed version's programs stay stored.
ImplementsStore == StoreSpec

\* Quiesced's assertion when it is dropped (quiescence.rs 554-564): no run
\* ends owing a restart it has not settled.
SettledAtEnd == stage \in {"idle", "settled", "refused"} => owed = {}

\* What the report says was not started again.
Told == {e \in Apps : unstarted[e] \in {"open", "missing", "refused"}}

\* "A refusal never leaves it stopped for nothing", and no other end of a run
\* leaves an application stopped without saying so (quiescence.rs 22-31,
\* 437-449, 509-514): what the run stopped and nobody started since is named in
\* its report, unless the product is gone, whatever failed, was refused, rolled
\* back or left open. The one application it may leave in silence is the one it
\* had just stopped when the resolution of its resume program, or the row of
\* its stop, failed.
NoneLeftSilently ==
  /\ stage = "settled" => Uninstalled \/ owing \subseteq Told
  /\ stage = "refused" =>
       \E e \in Apps \cup {Nothing} :
         /\ owing \subseteq Told \cup {e}
         /\ e \in Apps => unstarted[e] = "unresolved"

\* And what is to be started is: once a run has committed, rolled back or
\* refused, an application it stopped runs again unless Windows refused the
\* start, or somebody deleted the packaged program, or it never was resolved.
\* The programs the installed version owns survive the rollback and the sweep
\* that come before (txn/actions.rs 459-462).
Excused(e) ==
  \/ unstarted[e] = "refused"
  \/ unstarted[e] = "missing" /\ Resume[Declaring][e] \in lost

ResumedUnlessLost ==
  \A e \in owing :
    /\ stage = "settled" => Open \/ Uninstalled \/ Excused(e)
    /\ stage = "refused" => unstarted[e] = "unresolved" \/ Excused(e)

\* The Restart Manager's protocol, "close them if anyone does, run the
\* transaction, then restart what was closed" (restart.rs 8-12): once the
\* transaction is over, whatever became of it, no holder this run closed
\* waits to be restarted.
RestartedAfterTransaction == stage \in {"settle", "settled"} => shut = {}
=============================================================================
