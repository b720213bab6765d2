------------------------------- MODULE Wizard -------------------------------
(***************************************************************************)
(* The wizard (ui/window.rs, worker.rs, dialog.rs): one window thread that *)
(* runs a handler per message, and the threads that post to it: the        *)
(* engine's run, which may stop and ask a question; a relaunch, elevated   *)
(* or plain; the launch of the installed program. A box the wizard asks    *)
(* something with runs a message loop of its own inside the handler that   *)
(* opened it, so handlers nest; a quit posted meanwhile reaches the        *)
(* innermost loop.                                                         *)
(*                                                                         *)
(* ui is the window thread's memory and the state of its window; handlers  *)
(* are functions of it. A root is the scope it is the default of, or       *)
(* "custom".                                                               *)
(***************************************************************************)
EXTENDS Session

CONSTANTS
  Starts,        \* the starts of the installer considered
  MaxQuestions   \* a bound on the questions the engine asks in its run

Results == {"installed", "failed", "cancelled"}

ASSUME WizardAssumption ==
  /\ MaxQuestions \in Nat
  /\ None \notin Scopes \cup Results \cup {"custom", "choose", "select"}
  /\ \A in \in Starts :
       /\ in.scopes \in Seq(Scopes) /\ in.scopes # <<>>
       /\ {in.served, in.given} \subseteq Scopes \cup {None}
       /\ in.operation \in {"install", "uninstall", "repair"} /\ in.options \in Nat

VARIABLES
  session,   \* what Session::build decided
  ui,        \* the window thread and its window
  loop,      \* "starting", "open", "joining" its threads, "closed"
  inbox,     \* messages posted to the window, in order
  engine,    \* the thread of the run
  child,     \* the relaunched process
  launcher,  \* the thread that starts the installed program
  typed,     \* history: the destination the person put there last
  ended      \* history: how the run ended that did the work, here or in a child

wizardVars == <<session, ui, loop, inbox, engine, child, launcher, typed, ended>>

Page(u) == session.pages[u.page]

Idle == [state |-> "none", asks |-> 0, cancel |-> FALSE, close |-> TRUE,
         scope |-> None, root |-> None, accepted |-> FALSE]

WizardInit ==
  /\ session \in {Build(in) : in \in {i \in Starts : ~RelaunchFirst(i)}}
  /\ ui = [page |-> 1, accepted |-> FALSE, radio |-> session.scope,
           text |-> session.install_root, boxes |-> <<>>, enabled |-> TRUE, visible |-> TRUE,
           elevating |-> FALSE, launching |-> FALSE, quit |-> FALSE,
           run |-> IF session.refused THEN "finished" ELSE "none",
           outcome |-> IF session.refused THEN "refused" ELSE None,
           exit |-> IF session.refused THEN "refused" ELSE "cancelled"]
  /\ loop = "starting" /\ inbox = <<>>
  /\ engine = Idle /\ child = "none" /\ launcher = "none"
  /\ typed = None /\ ended = None

----------------------------------------------------------------------------
(* Handlers, as functions of the window thread's state.                    *)

chosen_scope(u) == IF session.scopePage \in {"choose", "select"} THEN u.radio ELSE session.scope

chosen_root(u) == IF "Destination" \in Range(session.pages) THEN u.text ELSE session.install_root

needs_elevation_now(u) == chosen_scope(u) = "machine" /\ session.machine_needs_elevation

\* Entering Progress starts the run.
enter_page(u, i) ==
  [u EXCEPT !.page = i,
            !.run = IF session.pages[i] = "Progress" THEN "running" ELSE @]

ask(u, box) == [u EXCEPT !.boxes = Append(@, [box |-> box, answer |-> None]),
                         !.enabled = FALSE]

begin_relaunch(u) ==
  IF u.elevating THEN u
  ELSE [u EXCEPT !.elevating = TRUE, !.visible = needs_elevation_now(u)]

\* A program to start: the package declares one and the run ended installed.
launch_target(u) == session.launch /\ u.outcome = "installed"

finish(u, checked) ==
  CASE u.launching -> u
    [] ~u.launching /\ launch_target(u) /\ checked -> [u EXCEPT !.launching = TRUE]
    [] OTHER -> [u EXCEPT !.quit = TRUE]

\* What closing the window asks for on each page.
cancels(u, checked) ==
  CASE Page(u) = "Progress" -> IF u.run = "running" THEN ask(u, "cancel") ELSE u
    [] Page(u) = "Finish" -> finish(u, checked)
    [] OTHER -> [u EXCEPT !.exit = "cancelled", !.quit = TRUE]

\* Mutant: a relaunch in flight does not hold the window.
on_cancel_early(u, checked) == cancels(u, checked)

on_cancel(u, checked) == IF u.elevating \/ u.launching THEN u ELSE cancels(u, checked)

on_next(u, usable, checked) ==
  CASE Page(u) = "Scope" /\ (session.scopePage = "select" \/ needs_elevation_now(u)) ->
         begin_relaunch(u)
    [] Page(u) = "Destination" /\ ~usable -> ask(u, "report")
    [] Page(u) = "Finish" -> finish(u, checked)
    [] OTHER -> IF u.page < Len(session.pages) THEN enter_page(u, u.page + 1) ELSE u

\* A destination still at a default of a scope follows the scope chosen.
\* Mutant: whatever the destination is.
follow_always(u) ==
  IF {"Destination", "Scope"} \subseteq Range(session.pages) THEN [u EXCEPT !.text = chosen_scope(u)]
  ELSE u

follow_scope_in_destination(u) ==
  IF /\ {"Destination", "Scope"} \subseteq Range(session.pages)
     /\ chosen_scope(u) \in session.offered /\ u.text \in session.offered
  THEN [u EXCEPT !.text = chosen_scope(u)] ELSE u

FinishPage == CHOOSE i \in DOMAIN session.pages : session.pages[i] = "Finish"

\* Mutant: the page of the outcome, and the exit code the run began with.
on_engine_done_page(u, result) ==
  enter_page([u EXCEPT !.run = "finished", !.outcome = result], FinishPage)

on_engine_done(u, result) ==
  enter_page([u EXCEPT !.run = "finished", !.outcome = result, !.exit = result], FinishPage)

on_elevation_started(u) == IF u.elevating THEN [u EXCEPT !.visible = FALSE] ELSE u

\* A child that ran is this run's outcome; otherwise the wizard goes on.
on_elevation_done(u, result) ==
  LET v == [u EXCEPT !.elevating = FALSE, !.exit = result]
  IN  IF result \in Results THEN [v EXCEPT !.quit = TRUE]
      ELSE ask([v EXCEPT !.visible = TRUE], "report")

Dismiss(u) == [u EXCEPT !.visible = FALSE, !.quit = TRUE]

\* A failed start is told before the window goes.
on_launch_done(u, started) == IF started THEN Dismiss(u) ELSE ask(u, "launch")

----------------------------------------------------------------------------
(* The window thread. A loop takes what was sent first, then what was      *)
(* posted, then the quit, then input.                                      *)

\* Mutant: a box's loop takes no message of the wizard's.
PumpsOutside == loop = "open" /\ ui.boxes = <<>>

\* The innermost loop waits for a message.
Pumps == loop = "open" /\ (ui.boxes # <<>> => Last(ui.boxes).answer = None)

\* What a handler leaves behind, and the threads it started.
Handle(u) ==
  /\ ui' = u
  /\ engine' = IF ui.run # "running" /\ u.run = "running"
               THEN [Idle EXCEPT !.state = "working", !.scope = chosen_scope(u),
                                 !.accepted = u.accepted,
                                 !.root = IF session.operation = "install" THEN chosen_root(u)
                                          ELSE None]
               ELSE engine
  /\ child' = IF ~ui.elevating /\ u.elevating
              THEN (IF needs_elevation_now(u) THEN "prompt" ELSE "starting") ELSE child
  /\ launcher' = IF ~ui.launching /\ u.launching THEN "starting" ELSE launcher

Show ==
  /\ loop = "starting" /\ loop' = "open"
  /\ Handle(enter_page(ui, 1))
  /\ UNCHANGED <<session, inbox, typed, ended>>

\* A posted message, in order.
Dispatch ==
  /\ Pumps /\ engine.state # "asking" /\ inbox # <<>>
  /\ inbox' = Tail(inbox)
  /\ LET m == Head(inbox) IN
       Handle(CASE m.message = "done"       -> on_engine_done(ui, m.result)
                [] m.message = "started"    -> on_elevation_started(ui)
                [] m.message = "relaunched" -> on_elevation_done(ui, m.result)
                [] m.message = "launched"   -> on_launch_done(ui, m.result))
  /\ UNCHANGED <<session, loop, typed, ended>>

\* The engine's question is sent: its thread waits until the box is answered.
Question ==
  /\ Pumps /\ engine.state = "asking"
  /\ ui' = ask(ui, "question") /\ engine' = [engine EXCEPT !.state = "asked"]
  /\ UNCHANGED <<session, loop, inbox, child, launcher, typed, ended>>

\* WM_QUIT comes to whichever loop is innermost: a box of two buttons takes it
\* for the second, a box of one for its button.
Quit ==
  /\ Pumps /\ engine.state # "asking" /\ inbox = <<>> /\ ui.quit
  /\ IF ui.boxes = <<>> THEN loop' = "joining" /\ UNCHANGED ui
     ELSE /\ ui' = [ui EXCEPT !.quit = FALSE,
                     !.boxes[Len(ui.boxes)].answer = Last(ui.boxes).box \in {"report", "launch"}]
          /\ UNCHANGED loop
  /\ UNCHANGED <<session, inbox, engine, child, launcher, typed, ended>>

\* The innermost box has its answer: it closes, its owner takes input again,
\* and the handler that asked goes on.
Return ==
  /\ loop = "open" /\ ui.boxes # <<>> /\ Last(ui.boxes).answer # None
  /\ LET b == Last(ui.boxes)
         u == [ui EXCEPT !.boxes = Front(@), !.enabled = TRUE]
     IN  /\ ui' = IF b.box = "launch" THEN Dismiss(u) ELSE u
         /\ engine' = CASE b.box = "cancel" /\ b.answer /\ ui.run = "running" ->
                             [engine EXCEPT !.cancel = TRUE]
                        [] b.box = "question" ->
                             [engine EXCEPT !.state = "working", !.close = b.answer]
                        [] OTHER -> engine
  /\ UNCHANGED <<session, loop, inbox, child, launcher, typed, ended>>

\* The window is gone: its threads are waited for.
Join ==
  /\ loop = "joining" /\ engine.state \in {"none", "ended"}
  /\ child = "none" /\ launcher = "none"
  /\ loop' = "closed"
  /\ UNCHANGED <<session, ui, inbox, engine, child, launcher, typed, ended>>

----------------------------------------------------------------------------
(* The person.                                                             *)

Input == Pumps /\ engine.state # "asking" /\ inbox = <<>> /\ ~ui.quit

TakesInput == Input /\ ui.enabled /\ ui.visible

next_enabled ==
  ~ui.elevating /\ CASE Page(ui) = "License" -> ui.accepted
                     [] Page(ui) = "Progress" -> FALSE
                     [] OTHER -> ~ui.launching
back_enabled ==
  ui.page > 1 /\ ~ui.elevating /\ Page(ui) \notin {"Progress", "Finish", "Confirm"}

PressNext ==
  /\ TakesInput /\ next_enabled
  /\ \E usable, checked \in BOOLEAN : Handle(on_next(ui, usable, checked))
  /\ UNCHANGED <<session, loop, inbox, typed, ended>>

PressBack ==
  /\ TakesInput /\ back_enabled
  /\ Handle(enter_page(ui, ui.page - 1))
  /\ UNCHANGED <<session, loop, inbox, typed, ended>>

\* Cancel, and the window's close button, which is Cancel and never disabled.
PressCancel ==
  /\ TakesInput
  /\ \E checked \in BOOLEAN : Handle(on_cancel(ui, checked))
  /\ UNCHANGED <<session, loop, inbox, typed, ended>>

\* The radio buttons of the licence, of the scope, and the destination.
Choose ==
  /\ TakesInput /\ ~ui.elevating
  /\ \/ /\ Page(ui) = "License"
        /\ \E accepted \in BOOLEAN : ui' = [ui EXCEPT !.accepted = accepted]
        /\ UNCHANGED typed
     \/ /\ Page(ui) = "Scope" /\ session.scopePage \in {"choose", "select"}
        /\ \E scope \in Scopes :
             ui' = follow_scope_in_destination([ui EXCEPT !.radio = scope])
        /\ UNCHANGED typed
     \/ /\ Page(ui) = "Destination"
        /\ \E root \in {"user", "machine", "custom"} :
             ui' = [ui EXCEPT !.text = root] /\ typed' = root
  /\ UNCHANGED <<session, loop, inbox, engine, child, launcher, ended>>

\* Any box can be answered, also one below another.
Answer ==
  /\ Input
  /\ \E i \in DOMAIN ui.boxes, answer \in BOOLEAN :
       /\ ui.boxes[i].answer = None
       /\ ui.boxes[i].box \in {"report", "launch"} => answer
       /\ ui' = [ui EXCEPT !.boxes[i].answer = answer]
  /\ UNCHANGED <<session, loop, inbox, engine, child, launcher, typed, ended>>

----------------------------------------------------------------------------
(* The other threads, and the child.                                       *)

Post(message, result) == inbox' = Append(inbox, [message |-> message, result |-> result])

EngineAsks ==
  /\ engine.state = "working" /\ engine.asks < MaxQuestions /\ engine.scope \in session.offered
  /\ engine' = [engine EXCEPT !.state = "asking", !.asks = @ + 1]
  /\ UNCHANGED <<session, ui, loop, inbox, child, launcher, typed, ended>>

\* A scope not offered, a refusal to close the applications, like any failure,
\* ends the run; the cancel flag is seen or comes too late.
EngineEnds ==
  /\ engine.state = "working"
  /\ \E result \in Results :
       /\ result = "installed" => engine.close /\ engine.scope \in session.offered
       /\ result = "cancelled" => engine.cancel
       /\ Post("done", result) /\ ended' = result
  /\ engine' = [engine EXCEPT !.state = "ended"]
  /\ UNCHANGED <<session, ui, loop, child, launcher, typed>>

\* The prompt is answered; a plain child needs none.
ChildStarts ==
  /\ child \in {"prompt", "starting"}
  /\ \/ /\ child' = "running"
        /\ IF child = "prompt" THEN Post("started", None) ELSE UNCHANGED inbox
     \/ child' = "none" /\ Post("relaunched", "elevation")
  /\ UNCHANGED <<session, ui, loop, engine, launcher, typed, ended>>

ChildEnds ==
  /\ child = "running" /\ child' = "none"
  /\ \E result \in Results : Post("relaunched", result) /\ ended' = result
  /\ UNCHANGED <<session, ui, loop, engine, launcher, typed>>

LaunchEnds ==
  /\ launcher = "starting" /\ launcher' = "none"
  /\ \E started \in BOOLEAN : Post("launched", started)
  /\ UNCHANGED <<session, ui, loop, engine, child, typed, ended>>

Closed == loop = "closed" /\ UNCHANGED wizardVars

WizardNext ==
  \/ Show \/ Dispatch \/ Question \/ Quit \/ Return \/ Join
  \/ PressNext \/ PressBack \/ PressCancel \/ Choose \/ Answer
  \/ EngineAsks \/ EngineEnds \/ ChildStarts \/ ChildEnds \/ LaunchEnds
  \/ Closed

WizardSpec == WizardInit /\ [][WizardNext]_wizardVars

\* The threads run, and whoever a box is open for answers it.
Fairness ==
  /\ WF_wizardVars(Dispatch) /\ WF_wizardVars(Question) /\ WF_wizardVars(Return) /\ WF_wizardVars(Quit)
  /\ WF_wizardVars(Answer) /\ WF_wizardVars(EngineEnds)

FairWizardSpec == WizardSpec /\ Fairness

----------------------------------------------------------------------------
(* Properties.                                                             *)

\* Every variable keeps its type.
WizardTypeOK ==
  /\ ui.page \in DOMAIN session.pages
  /\ ui.run \in {"none", "running", "finished"}
  /\ ui.exit \in Results \cup {"refused", "elevation"}
  /\ \A i \in DOMAIN ui.boxes : ui.boxes[i].box \in {"cancel", "question", "report", "launch"}
  /\ loop \in {"starting", "open", "joining", "closed"}
  /\ engine.state \in {"none", "working", "asking", "asked", "ended"}
  /\ child \in {"none", "prompt", "starting", "running"}

\* No run outlives the window it is shown in: the window never goes with a
\* run, a question or an elevated child open (window.rs: "closing the parent
\* now would leave the elevated install running unwatched").
NothingUnwatched ==
  loop \in {"joining", "closed"} =>
    engine.state \in {"none", "ended"} /\ child = "none"

\* A run does what was chosen: the licence the pages ask for was accepted, and
\* the destination is the person's own or the default of the scope. A scope
\* this process cannot write is never run here, but by the uninstaller copy of
\* the user's installation that finds only the machine's: it was not elevated
\* for the one and then runs for the other.
StartedAsChosen ==
  engine.state # "none" =>
    /\ engine.accepted <=> "License" \in Range(session.pages)
    /\ engine.scope = "machine" /\ session.machine_needs_elevation => session.served = "user"
    /\ session.scopePage # "select"
    /\ session.kind = "fresh" /\ "Destination" \in Range(session.pages)
         => LET put == IF typed # None THEN typed ELSE session.install_root
            IN  engine.root = put \/ (put \in session.offered /\ engine.root = engine.scope)

\* The wizard's exit code is the end of the run that did the work, here or in
\* a child, and that of a cancellation only where nothing was done
\* (elevation.rs: "a caller cannot tell which side of the prompt produced
\* them").
ExitIsTheRuns ==
  loop = "closed" =>
    ui.exit = IF ended # None THEN ended
              ELSE IF session.refused THEN "refused" ELSE "cancelled"

\* The wizard answers for the run it started: it does what was chosen, and
\* the caller learns its end.
ReportsTheRun == StartedAsChosen /\ ExitIsTheRuns

\* A run that was started ends, and its end is shown, whatever boxes are open
\* when it asks or ends.
RunEnds == ui.run = "running" ~> ui.run = "finished"

\* A hidden window waits for a child, or is about to go (elevation.rs: "a
\* wizard started hidden would wait, invisible, for a click nobody can give"). It
\* does not hold: a box still open when the wizard goes takes its quit message.
NeverInvisible ==
  loop = "open" /\ ~ui.visible => ui.elevating \/ ui.quit

\* The uninstaller copy is about the scope it was written for (main.rs: "the
\* uninstaller copy serves the scope it was written for"). It does not hold:
\* with both scopes installed the session asks which one, and takes either.
ServesItsScope ==
  session.served # None /\ (ui.elevating \/ engine.state # "none")
    => chosen_scope(ui) = session.served
=============================================================================
