--------------------------- MODULE Client_proofs ---------------------------
(***************************************************************************)
(* What is proved of Client, for any number of launches and killed         *)
(* processes and any commands: the caller is told of the run that was,     *)
(* what is installed has its uninstaller and no predecessor, and runs      *)
(* nobody killed leave nothing behind.                                     *)
(***************************************************************************)
EXTENDS Client, SequenceTheorems, TLAPS

Early  == {"resolve", "elevate", "stage", "engine"}
Inside == {"policy", "open", "recover", "dependencies", "legacy", "verdict", "plan",
           "write", "begin", "walk", "drop", "aside", "remove", "finish"}
Places == {"none", "wait", "linger", "over", "killed"} \cup Early \cup Inside

Told == Outcomes \cup {"elevated_result_missing", None}

Runs == [pc : Places, scope : Scopes \cup {None}, outcome : Outcomes \cup {None},
         code : (0 .. 7) \cup {None}, tree : {"none", "running", "succeeded", "errored"},
         early : BOOLEAN]

Chains == [command : Commands \cup {None}, admin : BOOLEAN, shown : Told]
Directories == [db : Databases \cup {None}, uninstaller : BOOLEAN, log : BOOLEAN]

TypeOK ==
  /\ chain \in [Launches -> Chains]
  /\ proc \in [Processes -> Runs]
  /\ state \in [Scopes -> Directories]
  /\ lock \in [Scopes -> Processes \cup {None}]
  /\ temp \subseteq {"result", "copy", "staging", "log", "aside"} \X Launches
  /\ result \in [Launches -> Outcomes \cup {None, "unwritten"}]
  /\ helper \in [Launches -> {"none", "waits", "uninstalled", "done", "ended"}]
  /\ legacy \subseteq Scopes
  /\ history \in [kills : Nat, killed : SUBSET Launches, ran : SUBSET Processes,
                  last : [Scopes -> {"none", "kept", "left", "removed"}], met : SUBSET Scopes]

----------------------------------------------------------------------------
(* Where a process is.                                                     *)

Locked == {"recover", "plan", "write", "begin", "walk", "drop"}
First(l) == <<l, "first">>
Child(l) == <<l, "elevated">>
Copy(l)  == <<l, "copy">>

\* What a process has by then: a command, a scope, the lock of the scope's
\* database, an outcome.
PlacedAt(p) ==
  /\ proc[p].pc = "none" => proc[p] = NoProcess
  /\ proc[p].pc = "resolve" => proc[p].scope = None /\ proc[p].tree = "none"
  /\ proc[p].pc # "none" => Cmd(p) # None
  /\ Alive(p) /\ proc[p].pc # "resolve" => Scope(p) \in Scopes
  /\ proc[p].pc \in Locked => lock[Scope(p)] = p
  /\ proc[p].pc \in {"drop", "aside", "remove", "finish"} => proc[p].outcome \in Outcomes
  /\ proc[p].pc \in {"aside", "remove"} => Gone(proc[p].outcome)
  /\ proc[p].pc \in {"policy", "dependencies", "legacy", "verdict"} => Cmd(p).operation = "install"
  /\ proc[p].pc = "open" /\ ~proc[p].early => Cmd(p).operation = "install"
  /\ Gone(proc[p].outcome) => proc[p].pc \in {"drop", "aside", "remove", "finish", "over", "killed"}

\* Who has the lock of a database, and that there is one.
LockedAt(s) ==
  lock[s] # None =>
    /\ state[s].db # None
    /\ Scope(lock[s]) = s
    /\ proc[lock[s]].pc \in Locked \cup {"dependencies", "legacy", "verdict"}

\* An uninstaller in a state directory and its processes are about one
\* scope: the one on the command line, else their own.
Target(l) ==
  IF chain[l].command.given # None THEN chain[l].command.given ELSE chain[l].command.exe

MustElevate(l) == Target(l) \in Range(Offered) /\ Target(l) = "machine" /\ ~chain[l].admin

AimedAt(l) ==
  /\ proc[Child(l)].pc # "none" => proc[First(l)].scope \in Scopes
  /\ chain[l].command # None /\ chain[l].command.operation = "uninstall"
       /\ chain[l].command.exe \in Scopes =>
       \A r \in Roles : proc[<<l, r>>].scope \in {None, Target(l)}
  /\ (\E r \in Roles : proc[<<l, r>>].pc \in {"stage", "linger"}) \/ proc[Copy(l)].pc # "none" =>
       /\ chain[l].command.operation = "uninstall" /\ chain[l].command.exe \in Scopes
       /\ Target(l) = chain[l].command.exe

\* Who of a chain can have started whom, dead or alive: a process starts
\* one other and then waits for it, a child is not elevated again, and a
\* copy not copied.
BornAt(l) ==
  /\ helper[l] # "none" => proc[Copy(l)].pc \in {"over", "killed"}
  /\ proc[Child(l)].pc # "none" => proc[First(l)].pc \in {"wait", "over", "killed"}
  /\ proc[Copy(l)].pc # "none" =>
       IF proc[Child(l)].pc = "none" THEN proc[First(l)].pc \in {"linger", "over", "killed"}
       ELSE proc[Child(l)].pc \in {"linger", "over", "killed"}
  /\ proc[Child(l)].pc \notin {"elevate", "wait"}
  /\ proc[Copy(l)].pc \notin {"elevate", "stage", "wait", "linger"}
  /\ proc[First(l)].pc = "stage" \/ (proc[Copy(l)].pc # "none" /\ proc[Child(l)].pc = "none") =>
       ~MustElevate(l)

Placed ==
  /\ \A p \in Processes : PlacedAt(p)
  /\ \A s \in Scopes : LockedAt(s)
  /\ \A l \in Launches : AimedAt(l) /\ BornAt(l)

----------------------------------------------------------------------------
(* The predecessor.                                                        *)

Decided(p) ==
  \/ proc[p].pc \in {"plan", "write", "begin", "walk"}
  \/ proc[p].pc = "open" /\ ~proc[p].early

PrecededAt(p) ==
  /\ proc[p].tree = "running" =>
       proc[p].pc \in {"verdict", "drop", "aside", "remove", "finish", "over", "killed"}
  /\ Decided(p) /\ Cmd(p).operation = "install" => Scope(p) \notin legacy

Preceded == \A p \in Processes : PrecededAt(p)

----------------------------------------------------------------------------
(* The uninstaller.                                                        *)

Nothing(s) == state[s].db # None => ~state[s].db.installed /\ state[s].db.open = <<>>

KeptAt(s) ==
  /\ state[s].db # None =>
       /\ Len(state[s].db.open) <= 1
       /\ state[s].db.installed \/ state[s].db.open # <<>> => state[s].uninstaller
  /\ BeingRemoved(s) => lock[s] = None /\ Nothing(s)

KeepsAt(p) ==
  LET db == Here(p).db  op == Cmd(p).operation IN
  /\ proc[p].pc \in {"begin", "walk"} => Here(p).uninstaller
  /\ proc[p].pc = "walk" => db.open # <<>>
  /\ proc[p].pc \in {"plan", "write", "begin"} /\ op = "uninstall" => db.open = <<>>
  /\ proc[p].pc = "drop" /\ Gone(proc[p].outcome) => Nothing(Scope(p))

Kept ==
  /\ \A s \in Scopes : s \notin history.met => KeptAt(s)
  /\ \A p \in Processes : Scope(p) \in Scopes \ history.met => KeepsAt(p)

----------------------------------------------------------------------------
(* The caller.                                                             *)

\* What the chain has been told of a process that is over.
ToldOf(p) ==
  LET l == L(p)  outcome == proc[p].outcome IN
  proc[p].pc = "over" =>
    /\ outcome \in Outcomes /\ proc[p].code = ExitCode(outcome)
    /\ IF HasElevated(l) THEN result[l] \in {outcome, "unwritten"} ELSE chain[l].shown = outcome

Ran(l) == {r \in Roles : <<l, r>> \in history.ran}
Busy0  == {"resolve", "engine"} \cup Inside

\* Who of a chain has started whom, and what it has from there: the first
\* process is alone, waits for an elevated child or lingers for its copy,
\* and a child is alone or lingers too.
Alone(l) ==
  /\ proc[First(l)].pc \in {"none", "over"} \cup Early \cup Inside
  /\ proc[Child(l)].pc = "none" /\ proc[Copy(l)].pc = "none"
  /\ Ran(l) \subseteq {"first"}

ChildAt(l) ==
  \/ /\ proc[Child(l)].pc \in {"stage", "over"} \cup Busy0
     /\ proc[Copy(l)].pc = "none" /\ Ran(l) \subseteq {"elevated"}
  \/ /\ proc[Child(l)].pc = "linger" /\ proc[Copy(l)].pc \in {"over"} \cup Busy0
     /\ Ran(l) \subseteq {"copy"}
  \/ /\ proc[Child(l)].pc = "over" /\ proc[Copy(l)].pc = "over"
     /\ Ran(l) \subseteq {"copy"}
     /\ proc[Child(l)].code = proc[Copy(l)].code

Waits(l) == proc[First(l)].pc = "wait" /\ ChildAt(l)

Collected(l) ==
  /\ proc[First(l)].pc = "over" /\ proc[Child(l)].pc = "over" /\ ChildAt(l)
  /\ proc[First(l)].code = proc[Child(l)].code
  /\ chain[l].shown = IF result[l] \in {None, "unwritten"} THEN "elevated_result_missing"
                      ELSE result[l]

Lingers(l) ==
  /\ proc[Child(l)].pc = "none" /\ Ran(l) \subseteq {"copy"}
  /\ \/ proc[First(l)].pc = "linger" /\ proc[Copy(l)].pc \in {"over"} \cup Busy0
     \/ /\ proc[First(l)].pc = "over" /\ proc[Copy(l)].pc = "over"
        /\ proc[First(l)].code = proc[Copy(l)].code

AnsweredAt(l) ==
  /\ Alone(l) \/ Waits(l) \/ Collected(l) \/ Lingers(l)
  /\ \A r \in Roles : proc[<<l, r>>].pc \in Inside => r \in Ran(l)
  /\ \A r \in Ran(l) : proc[<<l, r>>].pc \in Inside \cup {"over"} /\ ToldOf(<<l, r>>)

Answered == \A l \in Launches : l \notin history.killed => AnsweredAt(l)

----------------------------------------------------------------------------
(* What is left.                                                           *)

HelperWorks(l) == helper[l] \in {"waits", "uninstalled"}

Helps(l) == Help(l) \/ GivesUp(l)

TidyAt(l) ==
  /\ <<"result", l>> \in temp => proc[First(l)].pc = "wait"
  /\ <<"copy", l>> \in temp \/ <<"aside", l>> \in temp =>
       proc[Copy(l)].pc \in Busy0 \/ HelperWorks(l) \/ helper[l] = "ended"
  /\ helper[l] = "uninstalled" => Gone(proc[Copy(l)].outcome)

RemovedAt(s) ==
  history.last[s] = "removed" =>
    /\ state[s].db = None \/ lock[s] # None
    /\ state[s].uninstaller => lock[s] # None \/ LeftToHelper(s) \/ Unfinished(s)

Tidy ==
  /\ \A l \in Launches : l \notin history.killed => TidyAt(l)
  /\ history.killed = {} => \A s \in Scopes : RemovedAt(s)

----------------------------------------------------------------------------
(* Steps of a process, field by field.                                     *)

\* Process p is at pc with an outcome; the others are where they were.
Fields(p, pc, outcome) ==
  /\ proc' \in [Processes -> Runs]
  /\ \A q \in Processes : q # p => proc'[q] = proc[q]
  /\ proc'[p].pc = pc /\ proc'[p].outcome = outcome
  /\ proc'[p].scope = proc[p].scope

LEMMA AllPlaces ==
  \A pc \in {"none", "resolve", "elevate", "stage", "engine", "wait", "linger", "policy",
            "open", "recover", "dependencies", "legacy", "verdict", "plan", "write", "begin",
            "walk", "drop", "aside", "remove", "finish", "over", "killed"} : pc \in Places
  BY DEF Places, Early, Inside

\* A record with some fields replaced.
LEMMA Updates ==
  ASSUME NEW r \in Runs, NEW pc \in Places, NEW scope \in Scopes \cup {None},
         NEW outcome \in Outcomes \cup {None}, NEW code \in (0 .. 7) \cup {None},
         NEW tree \in {"none", "running", "succeeded", "errored"}, NEW early \in BOOLEAN
  PROVE  /\ [r EXCEPT !.pc = pc] \in Runs
         /\ [r EXCEPT !.tree = tree] \in Runs
         /\ [r EXCEPT !.pc = pc, !.tree = tree] \in Runs
         /\ [r EXCEPT !.pc = pc, !.early = early] \in Runs
         /\ [r EXCEPT !.pc = pc, !.code = code] \in Runs
         /\ [r EXCEPT !.scope = scope, !.pc = pc] \in Runs
         /\ [r EXCEPT !.pc = pc, !.outcome = outcome] \in Runs
         /\ [r EXCEPT !.pc = pc, !.outcome = outcome, !.code = code] \in Runs
  <1> DEFINE S == Scopes \cup {None}  O == Outcomes \cup {None}  C == (0 .. 7) \cup {None}
             T == {"none", "running", "succeeded", "errored"}
  <1>1. Runs = [pc : Places, scope : S, outcome : O, code : C, tree : T, early : BOOLEAN]
    BY DEF Runs
  <1>2. scope \in S /\ outcome \in O /\ code \in C /\ tree \in T OBVIOUS
  <1>3. QED
    <2> HIDE DEF S, O, C, T
    <2> QED BY <1>1, <1>2

LEMMA Changes ==
  ASSUME TypeOK, NEW p \in Processes, NEW now \in Runs, Set(p, now)
  PROVE  /\ proc' \in [Processes -> Runs] /\ proc'[p] = now
         /\ \A q \in Processes : q # p => proc'[q] = proc[q]
  BY DEF TypeOK, Set

LEMMA GoesTo ==
  ASSUME TypeOK, NEW p \in Processes, NEW pc \in Places, Goes(p, pc)
  PROVE  /\ Fields(p, pc, proc[p].outcome)
         /\ proc'[p].tree = proc[p].tree /\ proc'[p].early = proc[p].early
  <1> DEFINE now == [proc[p] EXCEPT !.pc = pc]
  <1>1. now \in Runs BY Updates DEF TypeOK
  <1>2. /\ now.pc = pc /\ now.outcome = proc[p].outcome /\ now.scope = proc[p].scope
        /\ now.tree = proc[p].tree /\ now.early = proc[p].early
    BY DEF TypeOK, Runs
  <1>3. Set(p, now) BY DEF Goes
  <1>4. QED
    <2> HIDE DEF now
    <2> QED BY <1>1, <1>2, <1>3, Changes DEF Fields

LEMMA EndsAt ==
  ASSUME TypeOK, NEW p \in Processes, NEW pc \in Places, NEW outcome \in Outcomes,
         Ends(p, pc, outcome)
  PROVE  Fields(p, pc, outcome) /\ proc'[p].tree = proc[p].tree
  <1> DEFINE now == [proc[p] EXCEPT !.pc = pc, !.outcome = outcome]
  <1>1. now \in Runs BY Updates DEF TypeOK
  <1>2. /\ now.pc = pc /\ now.outcome = outcome /\ now.scope = proc[p].scope
        /\ now.tree = proc[p].tree
    BY DEF TypeOK, Runs
  <1>3. Set(p, now) BY DEF Ends
  <1>4. QED
    <2> HIDE DEF now
    <2> QED BY <1>1, <1>2, <1>3, Changes DEF Fields

LEMMA OpensEarlyAt ==
  ASSUME TypeOK, NEW p \in Processes, OpensEarly(p)
  PROVE  /\ Fields(p, "open", proc[p].outcome)
         /\ proc'[p].tree = proc[p].tree /\ proc'[p].early
  <1> DEFINE now == [proc[p] EXCEPT !.pc = "open", !.early = TRUE]
  <1>1. now \in Runs BY Updates, AllPlaces DEF TypeOK
  <1>2. /\ now.pc = "open" /\ now.outcome = proc[p].outcome /\ now.scope = proc[p].scope
        /\ now.tree = proc[p].tree /\ now.early
    BY DEF TypeOK, Runs
  <1>3. Set(p, now) BY DEF OpensEarly
  <1>4. QED
    <2> HIDE DEF now
    <2> QED BY <1>1, <1>2, <1>3, Changes DEF Fields

LEMMA OverWith ==
  ASSUME TypeOK, NEW p \in Processes, NEW outcome \in Outcomes, Over(p, outcome)
  PROVE  /\ Fields(p, "over", outcome)
         /\ proc'[p].tree = proc[p].tree /\ proc'[p].code = ExitCode(outcome)
  <1> DEFINE now == [proc[p] EXCEPT !.pc = "over", !.outcome = outcome,
                                    !.code = ExitCode(outcome)]
  <1>1. ExitCode(outcome) \in 0 .. 7 BY DEF ExitCode
  <1>2. now \in Runs
    <2>1. proc[p] \in Runs /\ outcome \in Outcomes \cup {None}
          /\ ExitCode(outcome) \in (0 .. 7) \cup {None}
      BY <1>1 DEF TypeOK
    <2>2. QED BY <2>1, Updates, AllPlaces
  <1>3. /\ now.pc = "over" /\ now.outcome = outcome /\ now.scope = proc[p].scope
        /\ now.tree = proc[p].tree /\ now.code = ExitCode(outcome)
    BY DEF TypeOK, Runs
  <1>4. Set(p, now) BY DEF Over
  <1>5. QED
    <2> HIDE DEF now
    <2> QED BY <1>2, <1>3, <1>4, Changes DEF Fields

\* A collected child's or copy's code becomes the process's own.
LEMMA OverLike ==
  ASSUME TypeOK, NEW p \in Processes, NEW q \in Processes,
         Set(p, [proc[p] EXCEPT !.pc = "over", !.code = proc[q].code])
  PROVE  /\ Fields(p, "over", proc[p].outcome)
         /\ proc'[p].tree = proc[p].tree /\ proc'[p].code = proc[q].code
  <1> DEFINE now == [proc[p] EXCEPT !.pc = "over", !.code = proc[q].code]
  <1>1. proc[q].code \in (0 .. 7) \cup {None} BY DEF TypeOK, Runs
  <1>2. now \in Runs BY <1>1, Updates, AllPlaces DEF TypeOK
  <1>3. /\ now.pc = "over" /\ now.outcome = proc[p].outcome /\ now.scope = proc[p].scope
        /\ now.tree = proc[p].tree /\ now.code = proc[q].code
    BY DEF TypeOK, Runs
  <1>4. Set(p, now) OBVIOUS
  <1>5. QED
    <2> HIDE DEF now
    <2> QED BY <1>2, <1>3, <1>4, Changes DEF Fields

LEMMA KilledAt ==
  ASSUME TypeOK, NEW p \in Processes,
         Set(p, [proc[p] EXCEPT !.pc = "killed", !.code = 1])
  PROVE  Fields(p, "killed", proc[p].outcome) /\ proc'[p].tree = proc[p].tree
  <1> DEFINE now == [proc[p] EXCEPT !.pc = "killed", !.code = 1]
  <1>1. now \in Runs
    <2>1. 1 \in (0 .. 7) \cup {None} OBVIOUS
    <2>2. QED BY <2>1, Updates, AllPlaces DEF TypeOK
  <1>2. /\ now.pc = "killed" /\ now.outcome = proc[p].outcome /\ now.scope = proc[p].scope
        /\ now.tree = proc[p].tree
    BY DEF TypeOK, Runs
  <1>3. Set(p, now) OBVIOUS
  <1>4. QED
    <2> HIDE DEF now
    <2> QED BY <1>1, <1>2, <1>3, Changes DEF Fields

\* A process starts another one of its chain.
Launched(p, child, pc) ==
  /\ proc' \in [Processes -> Runs]
  /\ \A q \in Processes : q \notin {p, child} => proc'[q] = proc[q]
  /\ proc'[p].pc = pc /\ proc'[p].outcome = proc[p].outcome
  /\ proc'[p].scope = proc[p].scope /\ proc'[p].tree = proc[p].tree
  /\ proc'[child].pc = "resolve" /\ proc'[child].outcome = proc[child].outcome
  /\ proc'[child].scope = proc[child].scope /\ proc'[child].tree = proc[child].tree

LEMMA TwoTypes ==
  ASSUME TypeOK, NEW p \in Processes, NEW child \in Processes, NEW pc \in Places,
         proc' = [proc EXCEPT ![p].pc = pc, ![child].pc = "resolve"]
  PROVE  proc' \in [Processes -> Runs]
  <1> DEFINE between == [proc EXCEPT ![p].pc = pc]
  <1>1. [proc[p] EXCEPT !.pc = pc] \in Runs BY Updates DEF TypeOK
  <1>2. between \in [Processes -> Runs] BY <1>1 DEF TypeOK
  <1>3. [between[child] EXCEPT !.pc = "resolve"] \in Runs
    <2> HIDE DEF between
    <2>1. between[child] \in Runs BY <1>2
    <2>2. QED BY <2>1, Updates, AllPlaces
  <1>4. proc' = [between EXCEPT ![child] = [between[child] EXCEPT !.pc = "resolve"]] OBVIOUS
  <1>5. QED
    <2> HIDE DEF between
    <2> QED BY <1>2, <1>3, <1>4

LEMMA Launching ==
  ASSUME TypeOK, NEW p \in Processes, NEW child \in Processes, p # child, NEW pc \in Places,
         proc' = [proc EXCEPT ![p].pc = pc, ![child].pc = "resolve"]
  PROVE  Launched(p, child, pc)
  <1> DEFINE now == [proc[p] EXCEPT !.pc = pc]
             next == [proc[child] EXCEPT !.pc = "resolve"]
  <1>1. now \in Runs /\ next \in Runs BY Updates, AllPlaces DEF TypeOK
  <1>2. /\ now.pc = pc /\ now.outcome = proc[p].outcome /\ now.scope = proc[p].scope
        /\ now.tree = proc[p].tree
        /\ next.pc = "resolve" /\ next.outcome = proc[child].outcome
        /\ next.scope = proc[child].scope /\ next.tree = proc[child].tree
    BY DEF TypeOK, Runs
  <1>3. /\ proc'[p] = now /\ proc'[child] = next
        /\ \A q \in Processes : q \notin {p, child} => proc'[q] = proc[q]
        /\ DOMAIN proc' = Processes
    BY DEF TypeOK
  <1>4. proc' = [q \in Processes |-> proc'[q]] BY DEF TypeOK
  <1>5. \A q \in Processes : proc'[q] \in Runs BY <1>1, <1>3 DEF TypeOK
  <1>6. proc' \in [Processes -> Runs] BY <1>4, <1>5
  <1>7. QED
    <2> HIDE DEF now, next
    <2> QED BY <1>2, <1>3, <1>6 DEF Launched

----------------------------------------------------------------------------
(* What a start decides.                                                   *)

LEMMA Facts ==
  /\ None \notin Scopes /\ None \notin Outcomes /\ None \notin Commands
  /\ None \notin Processes /\ None \notin Databases
  /\ "setup" \notin Scopes /\ Conflict \notin Scopes /\ Ambiguous \notin Scopes
  /\ Conflict \in Outcomes /\ Ambiguous \in Outcomes
  BY ClientAssumption DEF Scopes, Conflict, Ambiguous, Outcomes

LEMMA DecideType ==
  ASSUME NEW in, NEW requested \in Scopes \cup {None}, default_scope(in) \in Scopes
  PROVE  decide(in, requested) \in Scopes \cup {Conflict, Ambiguous}
  <1>1. requested # None => requested \in Scopes OBVIOUS
  <1>2. Existing(in) \subseteq Scopes BY DEF Existing
  <1>3. Existing(in) # {} => (CHOOSE s \in Scopes : s \in Existing(in)) \in Scopes BY <1>2
  <1>4. QED
    <2> DEFINE only == CHOOSE s \in Scopes : s \in Existing(in)
    <2>1. CASE requested # None BY <2>1, <1>1 DEF decide
    <2>2. CASE requested = None /\ Existing(in) = {} BY <2>2 DEF decide
    <2>3. CASE requested = None /\ Existing(in) # {}
      <3>1. only \in Scopes BY <2>3, <1>3
      <3> HIDE DEF only
      <3>2. decide(in, requested) \in {Conflict, Ambiguous, only} BY <2>3 DEF decide, only
      <3>3. QED BY <3>1, <3>2
    <2>4. QED BY <2>1, <2>2, <2>3

\* Somebody who names a scope to remove gets it.
LEMMA DecideUninstall ==
  ASSUME NEW in, NEW requested \in Scopes, in.operation = "uninstall"
  PROVE  decide(in, requested) = requested
  BY Facts DEF decide

LEMMA ProcessFacts ==
  ASSUME NEW p \in Processes
  PROVE  /\ L(p) \in Launches /\ Role(p) \in Roles /\ p = <<L(p), Role(p)>>
         /\ Child(L(p)) \in Processes /\ Copy(L(p)) \in Processes /\ First(L(p)) \in Processes
  BY DEF Processes, Roles, L, Role, Child, Copy, First

LEMMA CommandFacts ==
  ASSUME TypeOK, NEW p \in Processes, Cmd(p) # None
  PROVE  /\ Cmd(p) \in Commands /\ Cmd(p).operation \in {"install", "repair", "uninstall"}
         /\ Cmd(p).exe \in Scopes \cup {"setup"} /\ Cmd(p).given \in Scopes \cup {None}
  BY ProcessFacts, ClientAssumption DEF TypeOK, Chains, Cmd, Operations

LEMMA GivenType ==
  ASSUME TypeOK, NEW p \in Processes, Cmd(p) # None
  PROVE  Given(p) \in Scopes \cup {None}
  <1>1. L(p) \in Launches /\ Role(p) \in Roles BY DEF Processes, L, Role
  <1>2. Cmd(p).given \in Scopes \cup {None} BY CommandFacts
  <1>3. proc[<<L(p), "first">>].scope \in Scopes \cup {None}
    BY <1>1 DEF TypeOK, Runs, Processes, Roles
  <1>4. QED BY <1>2, <1>3 DEF Given

LEMMA StartFacts ==
  ASSUME TypeOK, NEW p \in Processes, Cmd(p) # None, NEW given \in Scopes \cup {None}
  PROVE  LET in == Start(p, given) IN
         /\ default_scope(in) \in Scopes /\ Requested(in) \in Scopes \cup {None}
         /\ in.operation = Cmd(p).operation
         /\ Requested(in) = IF given # None THEN given
                            ELSE IF Cmd(p).exe = "setup" THEN None ELSE Cmd(p).exe
         /\ in.scopes = Offered /\ in.admin = Elevated(p)
  <1> DEFINE in == Start(p, given)
  <1>1. L(p) \in Launches BY DEF Processes, L
  <1>2. Cmd(p).exe \in Scopes \cup {"setup"} BY CommandFacts
  <1>3. /\ in.operation = Cmd(p).operation /\ in.scopes = Offered /\ in.admin = Elevated(p)
        /\ in.given = given /\ in.served = IF Cmd(p).exe = "setup" THEN None ELSE Cmd(p).exe
    BY DEF Start
  <1>4. Head(Offered) \in Scopes BY ClientAssumption
  <1>5. QED
    <2> HIDE DEF in
    <2>1. in.served \in Scopes \cup {None} BY <1>2, <1>3
    <2>2. default_scope(in) \in Scopes BY <2>1, <1>3, <1>4 DEF default_scope
    <2>3. QED BY <2>1, <2>2, <1>3 DEF Requested, in

\* What p resolves, and where it goes from there.
LEMMA Resolving ==
  ASSUME TypeOK, NEW p \in Processes, Cmd(p) # None, Resolve(p)
  PROVE  \E decision \in Scopes \cup {Conflict, Ambiguous} :
           /\ decision = decide(Start(p, Given(p)), Requested(Start(p, Given(p))))
           /\ \/ /\ decision \in Scopes /\ UNCHANGED chain
                 /\ Set(p, [proc[p] EXCEPT !.scope = decision, !.pc = Next0(p, decision)])
              \/ decision \in Outcomes /\ Over(p, decision)
  <1> DEFINE in == Start(p, Given(p))
             decision == decide(in, Requested(in))
  <1>1. decision \in Scopes \cup {Conflict, Ambiguous}
    <2>1. default_scope(in) \in Scopes /\ Requested(in) \in Scopes \cup {None}
      BY GivenType, StartFacts
    <2> HIDE DEF in
    <2>2. QED BY <2>1, DecideType
  <1>2. IF decision \in Scopes
        THEN Set(p, [proc[p] EXCEPT !.scope = decision, !.pc = Next0(p, decision)]) /\ UNCHANGED chain
        ELSE Over(p, decision)
    BY DEF Resolve
  <1>3. QED
    <2> HIDE DEF decision
    <2>1. CASE decision \in Scopes BY <1>1, <1>2, <2>1 DEF decision
    <2>2. CASE decision \notin Scopes
      <3>1. decision \in Outcomes BY <1>1, <2>2, Facts
      <3>2. QED BY <1>1, <1>2, <2>2, <3>1 DEF decision
    <2>3. QED BY <2>1, <2>2

----------------------------------------------------------------------------
(* Where the engine's steps lead.                                          *)

Inner(p) ==
  \/ HoldsPolicy(p) \/ Open(p) \/ Busy(p) \/ Recover(p) \/ Dependencies(p) \/ Migrate(p)
  \/ Migrated(p) \/ Plan(p) \/ Write(p) \/ Begin(p) \/ Commit(p) \/ RollBack(p)
  \/ Drop(p) \/ MoveAside(p) \/ RemoveState(p)

\* Goes on with the outcome it has.
On(p, pc) ==
  Fields(p, pc, proc[p].outcome) /\ proc'[p].tree = IF pc = "verdict" THEN "running" ELSE proc[p].tree

\* Ends the run with an outcome, and lets go of the database it holds.
Ending(p, pc) ==
  /\ proc'[p].outcome \in Outcomes /\ Fields(p, pc, proc'[p].outcome)
  /\ proc'[p].tree = proc[p].tree

Left(p) == Ending(p, IF Held(p) THEN "drop" ELSE "finish")

Passes(p) ==
  LET from == proc[p].pc  op == Cmd(p).operation IN
  \/ from = "policy" /\ On(p, "open") /\ proc'[p].early
  \/ from = "policy" /\ On(p, "dependencies")
  \/ from = "open" /\ ~proc[p].early /\ On(p, "plan")
  \/ from = "open" /\ proc[p].early /\ On(p, "recover")
  \/ from = "recover" /\ On(p, IF op = "install" THEN "dependencies" ELSE "plan")
  \/ from = "dependencies" /\ On(p, "legacy")
  \/ from = "legacy" /\ On(p, "verdict")
  \/ /\ from \in {"legacy", "verdict"} /\ Scope(p) \notin legacy /\ proc[p].tree # "running"
     /\ On(p, IF Held(p) THEN "plan" ELSE "open")
  \/ from = "plan" /\ op = "uninstall" /\ Here(p).db.installed /\ On(p, "begin")
  \/ from = "plan" /\ op # "uninstall" /\ On(p, "write")
  \/ from = "write" /\ On(p, "begin")
  \/ from = "begin" /\ On(p, "walk")
  \/ from = "drop" /\ On(p, IF Gone(proc[p].outcome) THEN "aside" ELSE "finish")
  \/ from = "aside" /\ On(p, "remove")
  \/ from = "remove" /\ On(p, "finish")

Gives(p) ==
  LET from == proc[p].pc  op == Cmd(p).operation  outcome == proc'[p].outcome IN
  \/ from = "policy" /\ Ending(p, "finish") /\ ~Gone(outcome)
  \/ from = "open" /\ Ending(p, "finish") /\ ~Gone(outcome)
  \/ from = "recover" /\ Ending(p, "drop") /\ ~Gone(outcome)
  \/ /\ from \in {"dependencies", "legacy", "verdict", "plan", "write", "walk"}
     /\ Left(p) /\ ~Gone(outcome)
  \/ from = "plan" /\ op = "uninstall" /\ ~Here(p).db.installed /\ Left(p)
  \/ Commit(p) /\ op = "uninstall" /\ Left(p)

LEMMA LeavesAt ==
  ASSUME TypeOK, NEW p \in Processes, NEW outcome \in Outcomes, Leaves(p, outcome)
  PROVE  Left(p) /\ proc'[p].outcome = outcome
  <1> DEFINE pc == IF Held(p) THEN "drop" ELSE "finish"
  <1>1. Ends(p, pc, outcome) BY DEF Leaves, Held
  <1>2. pc \in Places BY AllPlaces
  <1>3. QED
    <2> HIDE DEF pc
    <2>1. Fields(p, pc, outcome) /\ proc'[p].tree = proc[p].tree BY <1>1, <1>2, EndsAt
    <2>2. proc'[p].outcome = outcome BY <2>1 DEF Fields
    <2>3. QED BY <2>1, <2>2 DEF Left, Ending, pc

LEMMA FailsAt ==
  ASSUME TypeOK, NEW p \in Processes, NEW outcome \in Outcomes, Fails(p, outcome)
  PROVE  Ending(p, "finish") /\ proc'[p].outcome = outcome
  <1>1. Fields(p, "finish", outcome) /\ proc'[p].tree = proc[p].tree
    BY AllPlaces, EndsAt DEF Fails
  <1>2. proc'[p].outcome = outcome BY <1>1 DEF Fields
  <1>3. QED BY <1>1, <1>2 DEF Ending

LEMMA OnAt ==
  ASSUME TypeOK, NEW p \in Processes, NEW pc \in Places \ {"verdict"}, Goes(p, pc)
  PROVE  On(p, pc) /\ proc'[p].early = proc[p].early
  BY GoesTo DEF On

LEMMA VerdictAt ==
  ASSUME TypeOK, NEW p \in Processes,
         Set(p, [proc[p] EXCEPT !.pc = "verdict", !.tree = "running"])
  PROVE  On(p, "verdict")
  <1> DEFINE now == [proc[p] EXCEPT !.pc = "verdict", !.tree = "running"]
  <1>1. now \in Runs BY Updates, AllPlaces DEF TypeOK
  <1>2. /\ now.pc = "verdict" /\ now.outcome = proc[p].outcome /\ now.scope = proc[p].scope
        /\ now.tree = "running"
    BY DEF TypeOK, Runs
  <1>3. Set(p, now) OBVIOUS
  <1>4. QED
    <2> HIDE DEF now
    <2> QED BY <1>1, <1>2, <1>3, Changes DEF Fields, On

LEMMA InnerLeads ==
  ASSUME TypeOK, Placed, Preceded, NEW p \in Processes, Inner(p)
  PROVE  Passes(p) \/ Gives(p)
  <1> DEFINE Bad == Outcomes \ {"uninstalled", "not_installed"}
  <1>0. /\ \A pc \in {"dependencies", "legacy", "plan", "open", "recover", "begin", "write", "walk",
                      "aside", "remove", "finish"} : pc \in Places \ {"verdict"}
        /\ \A o \in {"database_busy", "recovery_incomplete", "dependency", "legacy_uninstall_failed",
                     "already_installed", "failed", "installed", "rolled_back", "rollback_failed",
                     Conflict, Ambiguous} : o \in Outcomes /\ ~Gone(o)
        /\ "not_installed" \in Outcomes /\ "uninstalled" \in Outcomes
    BY AllPlaces DEF Outcomes, Gone, Conflict, Ambiguous
  <1>1. CASE HoldsPolicy(p)
    <2> DEFINE decision == decide(Start(p, Scope(p)), Scope(p))
    <2>1. proc[p].pc = "policy" BY <1>1 DEF HoldsPolicy
    <2>2. CASE Looks(p)
      <3>1. CASE OpensEarly(p) BY <2>1, <3>1, OpensEarlyAt DEF Passes, On
      <3>2. CASE Goes(p, "dependencies") BY <2>1, <3>2, <1>0, OnAt DEF Passes
      <3>3. QED BY <2>2, <3>1, <3>2 DEF Looks
    <2>3. CASE decision \notin Scopes /\ Fails(p, decision)
      <3>1. decision \in {Conflict, Ambiguous}
        <4>1. Cmd(p) # None /\ Scope(p) \in Scopes BY <2>1 DEF Placed, PlacedAt, Alive
        <4>2. default_scope(Start(p, Scope(p))) \in Scopes BY <4>1, StartFacts
        <4>3. QED BY <2>3, <4>1, <4>2, DecideType
      <3>2. QED BY <2>1, <2>3, <3>1, <1>0, FailsAt DEF Gives
    <2>4. QED BY <1>1, <2>2, <2>3 DEF HoldsPolicy
  <1>2. CASE Open(p)
    <2>1. proc[p].pc = "open" /\ Goes(p, IF proc[p].early THEN "recover" ELSE "plan")
      BY <1>2 DEF Open
    <2>2. CASE proc[p].early BY <2>1, <2>2, <1>0, OnAt DEF Passes
    <2>3. CASE ~proc[p].early BY <2>1, <2>3, <1>0, OnAt DEF Passes
    <2>4. QED BY <2>2, <2>3
  <1>3. CASE Busy(p) BY <1>3, <1>0, FailsAt DEF Busy, Gives
  <1>4. CASE Recover(p)
    <2>1. proc[p].pc = "recover" /\ (Recovered(p) \/ Ends(p, "drop", "recovery_incomplete"))
      BY <1>4 DEF Recover
    <2>2. CASE Recovered(p)
      <3>1. CASE Cmd(p).operation = "install"
        BY <2>1, <2>2, <3>1, <1>0, OnAt DEF Passes, Recovered
      <3>2. CASE Cmd(p).operation # "install"
        BY <2>1, <2>2, <3>2, <1>0, OnAt DEF Passes, Recovered
      <3>3. QED BY <3>1, <3>2
    <2>3. CASE Ends(p, "drop", "recovery_incomplete")
      <3>1. Fields(p, "drop", "recovery_incomplete") /\ proc'[p].tree = proc[p].tree
        BY <2>3, <1>0, AllPlaces, EndsAt
      <3>2. proc'[p].outcome = "recovery_incomplete" BY <3>1 DEF Fields
      <3>3. QED BY <2>1, <3>1, <3>2, <1>0 DEF Gives, Ending
    <2>4. QED BY <2>1, <2>2, <2>3
  <1>5. CASE Dependencies(p)
    <2>1. proc[p].pc = "dependencies" /\ (Leaves(p, "dependency") \/ Goes(p, "legacy"))
      BY <1>5 DEF Dependencies
    <2>2. CASE Leaves(p, "dependency") BY <2>1, <2>2, <1>0, LeavesAt DEF Gives
    <2>3. CASE Goes(p, "legacy") BY <2>1, <2>3, <1>0, OnAt DEF Passes
    <2>4. QED BY <2>1, <2>2, <2>3
  <1>6. CASE Migrate(p)
    <2>1. proc[p].pc = "legacy" BY <1>6 DEF Migrate
    <2>2. CASE Scope(p) \notin legacy /\ Goes(p, IF Held(p) THEN "plan" ELSE "open")
      <3>1. proc[p].tree # "running" BY <2>1 DEF Preceded, PrecededAt
      <3>2. On(p, IF Held(p) THEN "plan" ELSE "open") BY <2>2, <1>0, OnAt
      <3>3. QED BY <2>1, <2>2, <3>1, <3>2 DEF Passes
    <2>3. CASE Set(p, [proc[p] EXCEPT !.pc = "verdict", !.tree = "running"])
      <3>1. On(p, "verdict") BY <2>3, VerdictAt
      <3>2. QED BY <2>1, <3>1 DEF Passes
    <2>4. CASE Leaves(p, "legacy_uninstall_failed") BY <2>1, <2>4, <1>0, LeavesAt DEF Gives
    <2>5. QED BY <1>6, <2>2, <2>3, <2>4 DEF Migrate
  <1>7. CASE Migrated(p)
    <2>1. proc[p].pc = "verdict" BY <1>7 DEF Migrated
    <2>2. CASE verdict(p) /\ Goes(p, IF Held(p) THEN "plan" ELSE "open")
      <3>1. Scope(p) \notin legacy /\ proc[p].tree # "running" BY <2>2 DEF verdict
      <3>2. On(p, IF Held(p) THEN "plan" ELSE "open") BY <2>2, <1>0, OnAt
      <3>3. QED BY <2>1, <3>1, <3>2 DEF Passes
    <2>3. CASE Leaves(p, "legacy_uninstall_failed") BY <2>1, <2>3, <1>0, LeavesAt DEF Gives
    <2>4. QED BY <1>7, <2>2, <2>3 DEF Migrated
  <1>8. CASE Plan(p)
    <2> DEFINE op == Cmd(p).operation
    <2>1. proc[p].pc = "plan" BY <1>8 DEF Plan
    <2>2. op \in {"install", "repair", "uninstall"}
      <3>1. Cmd(p) # None /\ L(p) \in Launches BY <2>1 DEF Placed, PlacedAt, Processes, L
      <3>2. QED BY <3>1, CommandFacts
    <2>3. \/ Leaves(p, "already_installed") \/ Leaves(p, "failed")
          \/ op = "uninstall" /\ ~Here(p).db.installed /\ Leaves(p, "not_installed")
          \/ op = "uninstall" /\ Here(p).db.installed /\ Goes(p, "begin")
          \/ op # "uninstall" /\ Goes(p, "write")
      <3>1. CASE op = "uninstall" BY <1>8, <3>1 DEF Plan
      <3>2. CASE op # "uninstall" BY <1>8, <2>2, <3>2 DEF Plan
      <3>3. QED BY <3>1, <3>2
    <2>4. CASE Leaves(p, "already_installed") \/ Leaves(p, "failed")
      BY <2>1, <2>4, <1>0, LeavesAt DEF Gives
    <2>5. CASE op = "uninstall" /\ ~Here(p).db.installed /\ Leaves(p, "not_installed")
      BY <2>1, <2>5, <1>0, LeavesAt DEF Gives
    <2>6. CASE op = "uninstall" /\ Here(p).db.installed /\ Goes(p, "begin")
      BY <2>1, <2>6, <1>0, OnAt DEF Passes
    <2>7. CASE op # "uninstall" /\ Goes(p, "write") BY <2>1, <2>7, <1>0, OnAt DEF Passes
    <2>8. QED BY <2>3, <2>4, <2>5, <2>6, <2>7
  <1>9. CASE Write(p)
    <2>1. proc[p].pc = "write" /\ (Goes(p, "begin") \/ Leaves(p, "failed"))
      BY <1>9 DEF Write
    <2>2. CASE Goes(p, "begin") BY <2>1, <2>2, <1>0, OnAt DEF Passes
    <2>3. CASE Leaves(p, "failed") BY <2>1, <2>3, <1>0, LeavesAt DEF Gives
    <2>4. QED BY <2>1, <2>2, <2>3
  <1>10. CASE Begin(p) BY <1>10, <1>0, OnAt DEF Begin, Passes
  <1>11. CASE Commit(p)
    <2>1. proc[p].pc = "walk" /\ Leaves(p, IF Installs(Cmd(p).operation) THEN "installed" ELSE "uninstalled")
      BY <1>11 DEF Commit
    <2>2. CASE Installs(Cmd(p).operation) BY <2>1, <2>2, <1>0, LeavesAt DEF Gives
    <2>3. CASE ~Installs(Cmd(p).operation)
      <3>1. Cmd(p).operation = "uninstall"
        <4>1. Cmd(p) # None /\ L(p) \in Launches BY <2>1 DEF Placed, PlacedAt, Processes, L
        <4>2. QED BY <2>3, <4>1, CommandFacts DEF Installs
      <3>2. Left(p) BY <2>1, <2>3, <1>0, LeavesAt
      <3>3. QED BY <1>11, <3>1, <3>2 DEF Gives
    <2>4. QED BY <2>2, <2>3
  <1>12. CASE RollBack(p)
    <2>1. proc[p].pc = "walk" /\ (Leaves(p, "rolled_back") \/ Leaves(p, "rollback_failed"))
      BY <1>12 DEF RollBack
    <2>2. QED BY <2>1, <1>0, LeavesAt DEF Gives
  <1>13. CASE Drop(p)
    <2>1. proc[p].pc = "drop" /\ Goes(p, IF Gone(proc[p].outcome) THEN "aside" ELSE "finish")
      BY <1>13 DEF Drop
    <2>2. On(p, IF Gone(proc[p].outcome) THEN "aside" ELSE "finish") BY <2>1, <1>0, OnAt
    <2>3. QED BY <2>1, <2>2 DEF Passes
  <1>14. CASE MoveAside(p) BY <1>14, <1>0, OnAt DEF MoveAside, Passes
  <1>15. CASE RemoveState(p) BY <1>15, <1>0, OnAt DEF RemoveState, Passes
  <1>16. QED
    BY <1>1, <1>2, <1>3, <1>4, <1>5, <1>6, <1>7, <1>8, <1>9, <1>10, <1>11, <1>12, <1>13, <1>14,
       <1>15 DEF Inner

----------------------------------------------------------------------------
(* The other steps of a process.                                           *)

LEMMA StepCases ==
  ASSUME NEW p \in Processes, Step(p)
  PROVE  \/ Inner(p) \/ Resolve(p) \/ Relaunch(p) \/ Refused(p) \/ Collect(p) \/ Stage(p)
         \/ StageFails(p) \/ Copied(p) \/ Run(p) \/ Uninstaller(p) \/ Finish(p) \/ Kill(p)
  BY DEF Step, Inner

Settled(p, scope) ==
  /\ proc' \in [Processes -> Runs]
  /\ \A q \in Processes : q # p => proc'[q] = proc[q]
  /\ proc'[p].pc = Next0(p, scope) /\ proc'[p].scope = scope
  /\ proc'[p].outcome = proc[p].outcome /\ proc'[p].tree = proc[p].tree

LEMMA SettledAt ==
  ASSUME TypeOK, NEW p \in Processes, NEW scope \in Scopes,
         Set(p, [proc[p] EXCEPT !.scope = scope, !.pc = Next0(p, scope)])
  PROVE  Settled(p, scope) /\ Next0(p, scope) \in {"elevate", "stage", "engine"}
  <1> DEFINE pc == Next0(p, scope)
             now == [proc[p] EXCEPT !.scope = scope, !.pc = pc]
  <1>1. pc \in {"elevate", "stage", "engine"} BY DEF Next0
  <1>2. pc \in Places BY <1>1, AllPlaces
  <1>3. now \in Runs
    <2> HIDE DEF pc
    <2>1. proc[p] \in Runs /\ scope \in Scopes \cup {None} BY DEF TypeOK
    <2>2. QED BY <1>2, <2>1, Updates
  <1>4. /\ now.pc = pc /\ now.outcome = proc[p].outcome /\ now.scope = scope
        /\ now.tree = proc[p].tree
    BY DEF TypeOK, Runs
  <1>5. Set(p, now) OBVIOUS
  <1>6. QED
    <2> HIDE DEF now
    <2> QED BY <1>1, <1>3, <1>4, <1>5, Changes DEF Settled

\* Nothing of a chain's record changes but what the caller is shown.
SameChains ==
  /\ chain' \in [Launches -> Chains]
  /\ \A l \in Launches : chain'[l].command = chain[l].command /\ chain'[l].admin = chain[l].admin

LEMMA Shows ==
  ASSUME TypeOK, NEW p \in Processes, NEW what \in Told, Show(p, what)
  PROVE  /\ SameChains /\ chain'[L(p)].shown = what
         /\ \A l \in Launches : l # L(p) => chain'[l] = chain[l]
  <1> DEFINE now == [chain[L(p)] EXCEPT !.shown = what]
  <1>0. L(p) \in Launches BY ProcessFacts
  <1>1. /\ now \in Chains /\ now.shown = what
        /\ now.command = chain[L(p)].command /\ now.admin = chain[L(p)].admin
    <2>1. chain[L(p)] \in [command : Commands \cup {None}, admin : BOOLEAN, shown : Told]
      BY <1>0 DEF TypeOK, Chains
    <2>2. QED BY <2>1 DEF Chains
  <1>2. chain' = [chain EXCEPT ![L(p)] = now] BY DEF Show
  <1>3. QED
    <2> HIDE DEF now
    <2> QED BY <1>0, <1>1, <1>2 DEF SameChains, TypeOK

LEMMA OverShows ==
  ASSUME TypeOK, NEW p \in Processes, NEW outcome \in Outcomes, Over(p, outcome)
  PROVE  /\ SameChains
         /\ \A l \in Launches : l # L(p) => chain'[l] = chain[l]
         /\ IF Role(p) = "first" \/ (Role(p) = "copy" /\ ~HasElevated(L(p)))
            THEN chain'[L(p)].shown = outcome ELSE chain' = chain
  <1>1. CASE Role(p) = "first" \/ (Role(p) = "copy" /\ ~HasElevated(L(p)))
    <2>1. Show(p, outcome) BY <1>1 DEF Over
    <2>2. outcome \in Told BY DEF Told
    <2>3. QED BY <1>1, <2>1, <2>2, Shows
  <1>2. CASE ~(Role(p) = "first" \/ (Role(p) = "copy" /\ ~HasElevated(L(p))))
    <2>1. chain' = chain BY <1>2 DEF Over
    <2>2. QED BY <1>2, <2>1 DEF SameChains, TypeOK
  <1>3. QED BY <1>1, <1>2

LEMMA ResolveLeads ==
  ASSUME TypeOK, NEW p \in Processes, Cmd(p) # None, Resolve(p)
  PROVE  \/ \E scope \in Scopes :
              /\ scope = decide(Start(p, Given(p)), Requested(Start(p, Given(p))))
              /\ Settled(p, scope) /\ Next0(p, scope) \in {"elevate", "stage", "engine"}
              /\ UNCHANGED chain
         \/ \E outcome \in Outcomes :
              /\ outcome = decide(Start(p, Given(p)), Requested(Start(p, Given(p))))
              /\ outcome \notin Scopes /\ ~Gone(outcome)
              /\ Over(p, outcome)
  <1>1. PICK decision \in Scopes \cup {Conflict, Ambiguous} :
           /\ decision = decide(Start(p, Given(p)), Requested(Start(p, Given(p))))
           /\ \/ /\ decision \in Scopes /\ UNCHANGED chain
                 /\ Set(p, [proc[p] EXCEPT !.scope = decision, !.pc = Next0(p, decision)])
              \/ decision \in Outcomes /\ Over(p, decision)
    BY Resolving
  <1>2. CASE decision \in Outcomes /\ Over(p, decision)
    <2>1. decision \notin Scopes /\ ~Gone(decision)
      BY <1>2 DEF Outcomes, Scopes, Gone, Conflict, Ambiguous
    <2>2. QED BY <1>1, <1>2, <2>1
  <1>3. CASE /\ decision \in Scopes /\ UNCHANGED chain
             /\ Set(p, [proc[p] EXCEPT !.scope = decision, !.pc = Next0(p, decision)])
    BY <1>1, <1>3, SettledAt
  <1>4. QED BY <1>1, <1>2, <1>3

LEMMA RunLeads ==
  ASSUME TypeOK, NEW p \in Processes, Cmd(p) # None, Run(p)
  PROVE  \/ Ending(p, "finish") /\ ~Gone(proc'[p].outcome)
         \/ On(p, "policy") /\ Cmd(p).operation = "install"
         \/ On(p, "open") /\ proc'[p].early
  <1>1. \/ Fails(p, "payload_unavailable")
        \/ Cmd(p).operation = "install" /\ Goes(p, "policy")
        \/ OpensEarly(p)
    BY DEF Run
  <1>2. CASE Fails(p, "payload_unavailable")
    <2>1. "payload_unavailable" \in Outcomes /\ ~Gone("payload_unavailable")
      BY DEF Outcomes, Gone
    <2>2. QED BY <1>2, <2>1, FailsAt
  <1>3. CASE Cmd(p).operation = "install" /\ Goes(p, "policy") BY <1>3, AllPlaces, OnAt
  <1>4. CASE OpensEarly(p) BY <1>4, OpensEarlyAt DEF On
  <1>5. QED BY <1>1, <1>2, <1>3, <1>4

LEMMA UninstallerLeads ==
  ASSUME TypeOK, NEW p \in Processes, Uninstaller(p)
  PROVE  /\ proc[p].tree = "running"
         /\ Fields(p, proc[p].pc, proc[p].outcome)
         /\ proc'[p].early = proc[p].early /\ proc'[p].code = proc[p].code
  <1>1. proc[p].tree = "running" BY DEF Uninstaller
  <1>2. CASE UNCHANGED proc BY <1>1, <1>2 DEF Fields, TypeOK
  <1>3. ASSUME NEW end \in {"succeeded", "errored"}, Set(p, [proc[p] EXCEPT !.tree = end])
        PROVE  /\ Fields(p, proc[p].pc, proc[p].outcome)
               /\ proc'[p].early = proc[p].early /\ proc'[p].code = proc[p].code
    <2> DEFINE now == [proc[p] EXCEPT !.tree = end]
    <2>1. now \in Runs
      <3>1. proc[p] \in Runs /\ end \in {"none", "running", "succeeded", "errored"}
        BY DEF TypeOK
      <3>2. /\ proc[p].pc \in Places /\ proc[p].scope \in Scopes \cup {None}
            /\ proc[p].outcome \in Outcomes \cup {None}
            /\ proc[p].code \in (0 .. 7) \cup {None} /\ proc[p].early \in BOOLEAN
        BY <3>1 DEF Runs
      <3>3. QED BY <3>1, <3>2, Updates
    <2>2. /\ now.pc = proc[p].pc /\ now.outcome = proc[p].outcome /\ now.scope = proc[p].scope
          /\ now.early = proc[p].early /\ now.code = proc[p].code
      BY DEF TypeOK, Runs
    <2>3. Set(p, now) BY <1>3
    <2>4. QED
      <3> HIDE DEF now
      <3> QED BY <2>1, <2>2, <2>3, Changes DEF Fields
  <1>4. QED BY <1>1, <1>2, <1>3 DEF Uninstaller

----------------------------------------------------------------------------
(* What the steps do to the state directories.                             *)

Transactions == [kind : Operations, exe : Scopes \cup {"setup"}]

\* Directory s holds a database and an uninstaller; the others what they held.
Puts(s, db, uninstaller) ==
  /\ state' \in [Scopes -> Directories]
  /\ \A t \in Scopes : t # s => state'[t] = state[t]
  /\ state'[s].db = db /\ state'[s].uninstaller = uninstaller

\* Neither databases nor uninstallers change.
Still ==
  /\ state' \in [Scopes -> Directories]
  /\ \A s \in Scopes : state'[s].db = state[s].db /\ state'[s].uninstaller = state[s].uninstaller

LEMMA DatabaseType ==
  ASSUME NEW installed \in BOOLEAN, NEW open \in Seq(Transactions)
  PROVE  /\ Database(installed, open) \in Databases
         /\ Database(installed, open).installed = installed
         /\ Database(installed, open).open = open
         /\ Database(installed, open) # None
  <1>1. Database(installed, open) \in Databases BY DEF Database, Databases, Transactions
  <1>2. QED BY <1>1, Facts DEF Database

LEMMA DatabaseFields ==
  ASSUME NEW db \in Databases \cup {None}, db # None
  PROVE  db.installed \in BOOLEAN /\ db.open \in Seq(Transactions)
  BY DEF Databases, Transactions

LEMMA FrontFacts ==
  ASSUME NEW S, NEW s \in Seq(S), s # <<>>
  PROVE  Front(s) \in Seq(S) /\ Len(Front(s)) = Len(s) - 1
  <1>1. Len(s) \in Nat /\ Len(s) # 0 BY EmptySeq
  <1>2. \A i \in 1 .. Len(s) - 1 : s[i] \in S BY <1>1, ElementOfSeq
  <1>3. 1 \in Int /\ Len(s) - 1 \in Int /\ Len(s) - 1 >= 0 BY <1>1
  <1>4. Len(SubSeq(s, 1, Len(s) - 1)) = Len(s) - 1 /\ SubSeq(s, 1, Len(s) - 1) \in Seq(S)
    <2> DEFINE n == Len(s) - 1
    <2> HIDE DEF n
    <2>1. n \in Int /\ n >= 0 /\ \A i \in 1 .. n : s[i] \in S BY <1>2, <1>3 DEF n
    <2>2. SubSeq(s, 1, n) \in Seq(S) /\ Len(SubSeq(s, 1, n)) = IF 1 <= n THEN n - 1 + 1 ELSE 0
      BY <2>1, <1>3, SubSeqProperties
    <2>3. Len(SubSeq(s, 1, n)) = n BY <2>1, <2>2
    <2>4. QED BY <2>2, <2>3 DEF n
  <1>5. QED BY <1>4 DEF Front

LEMMA DbUpdate ==
  ASSUME NEW r \in Directories, NEW db \in Databases \cup {None}
  PROVE  /\ [r EXCEPT !.db = db] \in Directories
         /\ [r EXCEPT !.db = db].db = db
         /\ [r EXCEPT !.db = db].uninstaller = r.uninstaller
  <1> DEFINE D == Databases \cup {None}
  <1>1. r \in [db : D, uninstaller : BOOLEAN, log : BOOLEAN] BY DEF Directories
  <1>2. /\ [r EXCEPT !.db = db] \in [db : D, uninstaller : BOOLEAN, log : BOOLEAN]
        /\ [r EXCEPT !.db = db].db = db
        /\ [r EXCEPT !.db = db].uninstaller = r.uninstaller
    <2>1. db \in D OBVIOUS
    <2> HIDE DEF D
    <2> QED BY <1>1, <2>1
  <1>3. QED BY <1>2 DEF Directories

LEMMA UninstallerUpdate ==
  ASSUME NEW r \in Directories, NEW u \in BOOLEAN
  PROVE  /\ [r EXCEPT !.uninstaller = u] \in Directories
         /\ [r EXCEPT !.uninstaller = u].uninstaller = u
         /\ [r EXCEPT !.uninstaller = u].db = r.db
  <1> DEFINE D == Databases \cup {None}
  <1>1. r \in [db : D, uninstaller : BOOLEAN, log : BOOLEAN] BY DEF Directories
  <1>2. /\ [r EXCEPT !.uninstaller = u] \in [db : D, uninstaller : BOOLEAN, log : BOOLEAN]
        /\ [r EXCEPT !.uninstaller = u].uninstaller = u
        /\ [r EXCEPT !.uninstaller = u].db = r.db
    <2> HIDE DEF D
    <2> QED BY <1>1
  <1>3. QED BY <1>2 DEF Directories

LEMMA LogUpdate ==
  ASSUME NEW r \in Directories, NEW log \in BOOLEAN
  PROVE  /\ [r EXCEPT !.log = log] \in Directories
         /\ [r EXCEPT !.log = log].uninstaller = r.uninstaller
         /\ [r EXCEPT !.log = log].db = r.db
  <1> DEFINE D == Databases \cup {None}
  <1>1. r \in [db : D, uninstaller : BOOLEAN, log : BOOLEAN] BY DEF Directories
  <1>2. /\ [r EXCEPT !.log = log] \in [db : D, uninstaller : BOOLEAN, log : BOOLEAN]
        /\ [r EXCEPT !.log = log].uninstaller = r.uninstaller
        /\ [r EXCEPT !.log = log].db = r.db
    <2> HIDE DEF D
    <2> QED BY <1>1
  <1>3. QED BY <1>2 DEF Directories

LEMMA BothUpdate ==
  ASSUME NEW r \in Directories, NEW log \in BOOLEAN, NEW u \in BOOLEAN
  PROVE  /\ [r EXCEPT !.log = log, !.uninstaller = u] \in Directories
         /\ [r EXCEPT !.log = log, !.uninstaller = u].uninstaller = u
         /\ [r EXCEPT !.log = log, !.uninstaller = u].db = r.db
  <1> DEFINE D == Databases \cup {None}
  <1>1. r \in [db : D, uninstaller : BOOLEAN, log : BOOLEAN] BY DEF Directories
  <1>2. /\ [r EXCEPT !.log = log, !.uninstaller = u] \in [db : D, uninstaller : BOOLEAN, log : BOOLEAN]
        /\ [r EXCEPT !.log = log, !.uninstaller = u].uninstaller = u
        /\ [r EXCEPT !.log = log, !.uninstaller = u].db = r.db
    <2> HIDE DEF D
    <2> QED BY <1>1
  <1>3. QED BY <1>2 DEF Directories

LEMMA PutsAt ==
  ASSUME TypeOK, NEW s \in Scopes, NEW dir \in Directories, state' = [state EXCEPT ![s] = dir]
  PROVE  Puts(s, dir.db, dir.uninstaller)
  BY DEF TypeOK, Puts

LEMMA StillAt ==
  ASSUME TypeOK, UNCHANGED state
  PROVE  Still
  BY DEF TypeOK, Still

LEMMA HereFacts ==
  ASSUME TypeOK, NEW p \in Processes, Scope(p) \in Scopes
  PROVE  /\ Here(p) \in Directories /\ Here(p).db \in Databases \cup {None}
         /\ Here(p).uninstaller \in BOOLEAN /\ Here(p) = state[Scope(p)]
  BY DEF TypeOK, Here, Directories

LEMMA DbAt ==
  ASSUME TypeOK, NEW p \in Processes, Scope(p) \in Scopes,
         NEW installed \in BOOLEAN, NEW open \in Seq(Transactions), Db(p, installed, open)
  PROVE  Puts(Scope(p), Database(installed, open), Here(p).uninstaller)
  <1> DEFINE db == Database(installed, open)
             dir == [state[Scope(p)] EXCEPT !.db = db]
  <1>1. db \in Databases BY DatabaseType
  <1>2. dir \in Directories /\ dir.db = db /\ dir.uninstaller = state[Scope(p)].uninstaller
    <2> HIDE DEF db
    <2>1. state[Scope(p)] \in Directories /\ db \in Databases \cup {None} BY <1>1 DEF TypeOK
    <2>2. QED BY <2>1, DbUpdate
  <1>3. state' = [state EXCEPT ![Scope(p)] = dir] BY DEF Db
  <1>4. QED
    <2> HIDE DEF dir, db
    <2>1. Puts(Scope(p), db, state[Scope(p)].uninstaller) BY <1>2, <1>3, PutsAt
    <2>2. QED BY <2>1 DEF Here, db

LEMMA OpenLogStill ==
  ASSUME TypeOK, NEW p \in Processes, Scope(p) \in Scopes, OpenLog(p)
  PROVE  Still
  <1>1. CASE UNCHANGED state BY <1>1, StillAt
  <1>2. CASE state' = [state EXCEPT ![Scope(p)].log = TRUE]
    <2> DEFINE dir == [state[Scope(p)] EXCEPT !.log = TRUE]
    <2>1. dir \in Directories /\ dir.db = Here(p).db /\ dir.uninstaller = Here(p).uninstaller
      <3>1. state[Scope(p)] \in Directories /\ Here(p) = state[Scope(p)] BY HereFacts
      <3>2. QED BY <3>1, LogUpdate, UninstallerUpdate
    <2>2. state' = [state EXCEPT ![Scope(p)] = dir] BY <1>2
    <2>3. Puts(Scope(p), Here(p).db, Here(p).uninstaller)
      <3> HIDE DEF dir
      <3> QED BY <2>1, <2>2, PutsAt
    <2>4. QED BY <2>3, HereFacts DEF Puts, Still
  <1>3. QED BY <1>1, <1>2 DEF OpenLog

LEMMA OpenPuts ==
  ASSUME TypeOK, NEW p \in Processes, Scope(p) \in Scopes, Open(p)
  PROVE  Puts(Scope(p), IF Here(p).db = None THEN Database(FALSE, <<>>) ELSE Here(p).db,
              Here(p).uninstaller)
  <1> DEFINE db == IF Here(p).db = None THEN Database(FALSE, <<>>) ELSE Here(p).db
             dir == [state[Scope(p)] EXCEPT !.db = db]
  <1>1. db \in Databases \cup {None}
    <2>1. <<>> \in Seq(Transactions) OBVIOUS
    <2>2. Database(FALSE, <<>>) \in Databases BY <2>1, DatabaseType
    <2>3. QED BY <2>2, HereFacts
  <1>2. dir \in Directories /\ dir.db = db /\ dir.uninstaller = Here(p).uninstaller
    <2> HIDE DEF db
    <2>1. state[Scope(p)] \in Directories /\ Here(p) = state[Scope(p)] BY HereFacts
    <2>2. QED BY <1>1, <2>1, DbUpdate
  <1>3. state' = [state EXCEPT ![Scope(p)] = dir] BY DEF Open, Here
  <1>4. QED
    <2> HIDE DEF dir, db
    <2>1. Puts(Scope(p), db, Here(p).uninstaller) BY <1>2, <1>3, PutsAt
    <2>2. QED BY <2>1 DEF db

LEMMA WritePuts ==
  ASSUME TypeOK, NEW p \in Processes, Scope(p) \in Scopes, Write(p)
  PROVE  \/ Puts(Scope(p), Here(p).db, TRUE) /\ Goes(p, "begin")
         \/ Still /\ Leaves(p, "failed")
  <1>1. CASE Leaves(p, "failed") /\ UNCHANGED state BY <1>1, StillAt
  <1>2. CASE Goes(p, "begin") /\ state' = [state EXCEPT ![Scope(p)].uninstaller = TRUE]
    <2> DEFINE dir == [state[Scope(p)] EXCEPT !.uninstaller = TRUE]
    <2>1. dir \in Directories /\ dir.db = Here(p).db /\ dir.uninstaller = TRUE
      <3>1. state[Scope(p)] \in Directories /\ Here(p) = state[Scope(p)] BY HereFacts
      <3>2. QED BY <3>1, LogUpdate, UninstallerUpdate
    <2>2. state' = [state EXCEPT ![Scope(p)] = dir] BY <1>2
    <2>3. QED
      <3> HIDE DEF dir
      <3> QED BY <1>2, <2>1, <2>2, PutsAt
  <1>3. QED BY <1>1, <1>2 DEF Write

LEMMA AsidePuts ==
  ASSUME TypeOK, NEW p \in Processes, Scope(p) \in Scopes, MoveAside(p)
  PROVE  \/ /\ Puts(Scope(p), Here(p).db, FALSE)
            /\ Role(p) = "copy" /\ temp' = temp \cup {<<"aside", L(p)>>}
         \/ Still /\ temp' = temp
  <1>1. CASE UNCHANGED <<state, temp>> BY <1>1, StillAt
  <1>2. CASE /\ Role(p) = "copy" /\ temp' = temp \cup {<<"aside", L(p)>>}
             /\ state' = [state EXCEPT ![Scope(p)].uninstaller = FALSE]
    <2> DEFINE dir == [state[Scope(p)] EXCEPT !.uninstaller = FALSE]
    <2>1. dir \in Directories /\ dir.db = Here(p).db /\ dir.uninstaller = FALSE
      <3>1. state[Scope(p)] \in Directories /\ Here(p) = state[Scope(p)] BY HereFacts
      <3>2. QED BY <3>1, LogUpdate, UninstallerUpdate
    <2>2. state' = [state EXCEPT ![Scope(p)] = dir] BY <1>2
    <2>3. QED
      <3> HIDE DEF dir
      <3> QED BY <1>2, <2>1, <2>2, PutsAt
  <1>3. QED BY <1>1, <1>2 DEF MoveAside

\* The directory goes, but for a running executable, or something stays.
LEMMA RemovePuts ==
  ASSUME TypeOK, NEW p \in Processes, Scope(p) \in Scopes, RemoveState(p)
  PROVE  LET stays == Here(p).uninstaller /\ Running(Scope(p)) IN
         \/ /\ Puts(Scope(p), None, stays) /\ lock[Scope(p)] = None
            /\ history' = [history EXCEPT !.last[Scope(p)] =
                             IF stays /\ Role(p) # "copy" THEN "left" ELSE "removed"]
         \/ /\ Puts(Scope(p), Here(p).db, stays) \/ Still
            /\ history' = [history EXCEPT !.last[Scope(p)] = "left"]
  <1> DEFINE stays == Here(p).uninstaller /\ Running(Scope(p))
  <1>0. stays \in BOOLEAN BY HereFacts
  <1>1. CASE /\ lock[Scope(p)] = None
             /\ state' = [state EXCEPT ![Scope(p)] = [NoDirectory EXCEPT !.uninstaller = stays]]
             /\ history' = [history EXCEPT !.last[Scope(p)] =
                              IF stays /\ Role(p) # "copy" THEN "left" ELSE "removed"]
    <2> DEFINE dir == [NoDirectory EXCEPT !.uninstaller = stays]
    <2>1. dir \in Directories /\ dir.db = None /\ dir.uninstaller = stays
      <3> HIDE DEF stays
      <3>1. NoDirectory \in Directories /\ NoDirectory.db = None
        BY DEF NoDirectory, Directories
      <3>2. QED BY <1>0, <3>1, UninstallerUpdate
    <2>2. Puts(Scope(p), None, stays)
      <3> HIDE DEF dir, stays
      <3>1. state' = [state EXCEPT ![Scope(p)] = dir] BY <1>1 DEF dir
      <3>2. QED BY <2>1, <3>1, PutsAt
    <2>3. QED BY <1>1, <2>2
  <1>2. ASSUME NEW here \in {Here(p), [Here(p) EXCEPT !.log = FALSE, !.uninstaller = stays]},
               state' = [state EXCEPT ![Scope(p)] = here]
        PROVE  Puts(Scope(p), Here(p).db, stays) \/ Still
    <2>1. CASE here = Here(p)
      <3>1. state' = state BY <1>2, <2>1, HereFacts DEF TypeOK
      <3>2. QED BY <3>1, StillAt
    <2>2. CASE here = [Here(p) EXCEPT !.log = FALSE, !.uninstaller = stays]
      <3>1. here \in Directories /\ here.db = Here(p).db /\ here.uninstaller = stays
        <4> HIDE DEF stays
        <4>1. Here(p) \in Directories BY HereFacts
        <4>2. QED BY <1>0, <2>2, <4>1, BothUpdate
      <3>2. QED
        <4> HIDE DEF stays
        <4> QED BY <1>2, <3>1, PutsAt
    <2>3. QED BY <2>1, <2>2
  <1>3. QED
    <2> HIDE DEF stays
    <2>1. CASE \E here \in {Here(p), [Here(p) EXCEPT !.log = FALSE, !.uninstaller = stays]} :
                 /\ state' = [state EXCEPT ![Scope(p)] = here]
                 /\ history' = [history EXCEPT !.last[Scope(p)] = "left"]
      BY <1>2, <2>1 DEF stays
    <2>2. QED BY <1>1, <2>1 DEF RemoveState, stays

\* The steps that write the database.
Records(p) ==
  LET db == Here(p).db  u == Here(p).uninstaller  op == Cmd(p).operation IN
  \E installed \in BOOLEAN, open \in Seq(Transactions) :
    /\ Puts(Scope(p), Database(installed, open), u)
    /\ \/ /\ Recover(p) /\ db.open # <<>> /\ Len(open) = Len(db.open) - 1 /\ Recovered(p)
       \/ Begin(p) /\ installed = db.installed /\ Len(open) = Len(db.open) + 1
       \/ Commit(p) /\ installed = Forward(op) /\ open = Front(db.open)
       \/ /\ RollBack(p) /\ installed = Back(op) /\ open = Front(db.open)
          /\ Leaves(p, "rolled_back")

LEMMA RecordsAt ==
  ASSUME TypeOK, Placed, NEW p \in Processes,
         Recover(p) \/ Begin(p) \/ Commit(p) \/ RollBack(p)
  PROVE  \/ Records(p)
         \/ /\ Still /\ ~Begin(p) /\ ~Commit(p)
            /\ Recover(p) => Here(p).db.open = <<>> \/ Ends(p, "drop", "recovery_incomplete")
  <1> DEFINE db == Here(p).db
  <1>1. proc[p].pc \in {"recover", "begin", "walk"} BY DEF Recover, Begin, Commit, RollBack
  <1>2. Scope(p) \in Scopes /\ lock[Scope(p)] = p /\ Cmd(p) # None
    BY <1>1 DEF Placed, PlacedAt, Alive, Locked
  <1>3. db # None BY <1>2, Facts DEF Placed, LockedAt, Here
  <1>4. db \in Databases \cup {None} BY <1>2, HereFacts
  <1>5. db.installed \in BOOLEAN /\ db.open \in Seq(Transactions)
    <2> HIDE DEF db
    <2> QED BY <1>3, <1>4, DatabaseFields
  <1>6. Cmd(p).operation \in Operations /\ Cmd(p).exe \in Scopes \cup {"setup"}
    BY <1>2, CommandFacts DEF Operations
  <1>7. Len(db.open) \in Nat /\ (Len(db.open) = 0 <=> db.open = <<>>) BY <1>5, EmptySeq
  <1> HIDE DEF db
  <1>8. /\ Front(db.open) \in Seq(Transactions)
        /\ db.open # <<>> => Len(Front(db.open)) = Len(db.open) - 1
    <2>1. CASE db.open # <<>> BY <1>5, <2>1, FrontFacts
    <2>2. CASE db.open = <<>> BY <2>2 DEF Front
    <2>3. QED BY <2>1, <2>2
  <1>9. CASE Recover(p)
    <2> DEFINE n == Len(db.open)
    <2>1. \/ Still /\ (n = 0 \/ Ends(p, "drop", "recovery_incomplete"))
          \/ n > 0 /\ Recovered(p) /\ Db(p, Forward(db.open[n].kind), Front(db.open))
          \/ n > 0 /\ Recovered(p) /\ Db(p, Back(db.open[n].kind), Front(db.open))
      BY <1>9, StillAt DEF Recover, db
    <2>2. n > 0 => db.open[n] \in Transactions BY <1>5, <1>7, ElementOfSeq
    <2>3. ASSUME n > 0, Recovered(p), NEW installed \in BOOLEAN, Db(p, installed, Front(db.open))
          PROVE  Records(p)
      <3>1. Puts(Scope(p), Database(installed, Front(db.open)), Here(p).uninstaller)
        BY <1>2, <1>8, <2>3, DbAt
      <3>2. db.open # <<>> /\ Len(Front(db.open)) = Len(db.open) - 1 BY <1>7, <1>8, <2>3
      <3>3. QED BY <1>8, <1>9, <2>3, <3>1, <3>2 DEF Records, db
    <2>4. \A kind : Forward(kind) \in BOOLEAN /\ Back(kind) \in BOOLEAN
      BY DEF Forward, Back, Installs
    <2>5. QED BY <1>7, <1>9, <1>1, <2>1, <2>3, <2>4 DEF Recover, Begin, Commit, db
  <1>10. CASE Begin(p)
    <2> DEFINE t == [kind |-> Cmd(p).operation, exe |-> Cmd(p).exe]
               open == Append(db.open, t)
    <2>1. t \in Transactions BY <1>6 DEF Transactions
    <2>2. open \in Seq(Transactions) /\ Len(open) = Len(db.open) + 1
      <3> HIDE DEF t
      <3> QED BY <1>5, <2>1, AppendProperties
    <2>3. Db(p, db.installed, open) BY <1>10 DEF Begin, db
    <2>4. Puts(Scope(p), Database(db.installed, open), Here(p).uninstaller)
      <3> HIDE DEF open
      <3> QED BY <1>2, <1>5, <2>2, <2>3, DbAt
    <2>5. QED
      <3> HIDE DEF open
      <3> QED BY <1>5, <1>10, <2>2, <2>4 DEF Records, db
  <1>11. CASE Commit(p)
    <2>1. Db(p, Forward(Cmd(p).operation), Front(db.open)) BY <1>11 DEF Commit, db
    <2>2. Forward(Cmd(p).operation) \in BOOLEAN BY DEF Forward, Installs
    <2>3. QED BY <1>2, <1>8, <1>11, <2>1, <2>2, DbAt DEF Records, db
  <1>12. CASE RollBack(p)
    <2>1. \/ Db(p, Back(Cmd(p).operation), Front(db.open)) /\ Leaves(p, "rolled_back")
          \/ Still /\ Leaves(p, "rollback_failed")
      BY <1>12, StillAt DEF RollBack, db
    <2>2. Back(Cmd(p).operation) \in BOOLEAN BY DEF Back
    <2>3. CASE Db(p, Back(Cmd(p).operation), Front(db.open)) /\ Leaves(p, "rolled_back")
      BY <1>2, <1>8, <1>12, <2>2, <2>3, DbAt DEF Records, db
    <2>4. CASE Still /\ Leaves(p, "rollback_failed")
      <3>1. ~Begin(p) /\ ~Recover(p) BY <1>12 DEF RollBack, Begin, Recover
      <3>2. CASE Commit(p) BY <1>11, <3>2
      <3>3. QED BY <2>4, <3>1, <3>2
    <2>5. QED BY <2>1, <2>3, <2>4
  <1>13. QED BY <1>9, <1>10, <1>11, <1>12

\* A helper works for an uninstaller's copy, and removes at most its file.
LEMMA HelpPuts ==
  ASSUME TypeOK, Placed, NEW l \in Launches, Helps(l)
  PROVE  LET s == chain[l].command.exe IN
         /\ chain[l].command # None /\ s \in Scopes
         /\ Still \/ (Deletes(l) /\ Puts(s, state[s].db, FALSE))
         /\ proc' = proc /\ chain' = chain /\ lock' = lock /\ history' = history
         /\ legacy' = legacy /\ result' = result /\ temp' \subseteq temp
         /\ helper' \in [Launches -> {"none", "waits", "uninstalled", "done", "ended"}]
         /\ \A k \in Launches : k # l => helper'[k] = helper[k]
         /\ helper'[l] \in {helper[l], "done", "ended"}
  <1> DEFINE s == chain[l].command.exe
  <1>1. helper[l] \in {"waits", "uninstalled"} BY DEF Helps, Help, GivesUp
  <1>2. proc[Copy(l)].pc \in {"over", "killed"} BY <1>1 DEF Placed, BornAt
  <1>3. chain[l].command # None /\ s \in Scopes
    <2>1. Copy(l) \in Processes /\ L(Copy(l)) = l /\ proc[Copy(l)].pc # "none"
      BY <1>2 DEF Copy, Processes, Roles, L
    <2>2. QED BY <2>1 DEF Placed, AimedAt, PlacedAt, Cmd
  <1>4. Still \/ (Deletes(l) /\ Puts(s, state[s].db, FALSE))
    <2>1. CASE state' = state BY <2>1, StillAt
    <2>2. CASE Deletes(l) /\ state' = [state EXCEPT ![s].uninstaller = FALSE]
      <3> DEFINE dir == [state[s] EXCEPT !.uninstaller = FALSE]
      <3>1. dir \in Directories /\ dir.db = state[s].db /\ dir.uninstaller = FALSE
        <4>1. state[s] \in Directories BY <1>3 DEF TypeOK
        <4>2. QED BY <4>1, UninstallerUpdate
      <3>2. state' = [state EXCEPT ![s] = dir] BY <2>2
      <3>3. QED
        <4> HIDE DEF dir, s
        <4> QED BY <1>3, <2>2, <3>1, <3>2, PutsAt
    <2>3. QED BY <2>1, <2>2 DEF Helps, Help, GivesUp
  <1>5. \/ helper' = helper \/ helper' = [helper EXCEPT ![l] = "done"]
        \/ helper' = [helper EXCEPT ![l] = "ended"]
    BY DEF Helps, Help, GivesUp
  <1>6. /\ proc' = proc /\ chain' = chain /\ lock' = lock /\ history' = history
        /\ legacy' = legacy /\ result' = result /\ temp' \subseteq temp
    BY DEF Helps, Help, GivesUp
  <1>7. QED BY <1>3, <1>4, <1>5, <1>6 DEF TypeOK

----------------------------------------------------------------------------
(* Type correctness.                                                       *)

LEMMA ProcType ==
  ASSUME TypeOK, Placed, Preceded, NEW p \in Processes, Step(p)
  PROVE  proc' \in [Processes -> Runs]
  <1>1. CASE Inner(p) BY <1>1, InnerLeads DEF Passes, Gives, On, Left, Ending, Fields
  <1>2. CASE Resolve(p)
    <2>1. Cmd(p) # None BY <1>2 DEF Resolve, Placed, PlacedAt
    <2>2. QED BY <1>2, <2>1, ResolveLeads, OverWith DEF Settled, Fields
  <1>3. CASE Relaunch(p) \/ Stage(p)
    <2>1. /\ Child(L(p)) \in Processes /\ Copy(L(p)) \in Processes BY ProcessFacts
    <2>2. CASE Relaunch(p)
      <3>1. proc' = [proc EXCEPT ![p].pc = "wait", ![Child(L(p))].pc = "resolve"]
        BY <2>2 DEF Relaunch, Child
      <3>2. QED BY <2>1, <3>1, AllPlaces, TwoTypes
    <2>3. CASE Stage(p)
      <3>1. proc' = [proc EXCEPT ![p].pc = "linger", ![Copy(L(p))].pc = "resolve"]
        BY <2>3 DEF Stage, Copy
      <3>2. QED BY <2>1, <3>1, AllPlaces, TwoTypes
    <2>4. QED BY <1>3, <2>2, <2>3
  <1>4. CASE Refused(p) \/ StageFails(p)
    <2>1. "elevation" \in Outcomes /\ "relaunch_failed" \in Outcomes BY DEF Outcomes
    <2>2. QED BY <1>4, <2>1, OverWith DEF Refused, StageFails, Fields
  <1>5. CASE Collect(p)
    <2>1. Set(p, [proc[p] EXCEPT !.pc = "over", !.code = proc[Child(L(p))].code])
      BY <1>5 DEF Collect, Child
    <2>2. QED BY <2>1, ProcessFacts, OverLike DEF Fields
  <1>6. CASE Copied(p)
    <2>1. Set(p, [proc[p] EXCEPT !.pc = "over", !.code = proc[Copy(L(p))].code])
      BY <1>6 DEF Copied, Copy
    <2>2. QED BY <2>1, ProcessFacts, OverLike DEF Fields
  <1>7. CASE Run(p)
    <2>1. Cmd(p) # None BY <1>7 DEF Run, Placed, PlacedAt
    <2>2. QED BY <1>7, <2>1, RunLeads DEF On, Ending, Fields
  <1>8. CASE Uninstaller(p) BY <1>8, UninstallerLeads DEF Fields
  <1>9. CASE Finish(p)
    <2>1. proc[p].outcome \in Outcomes /\ Over(p, proc[p].outcome)
      BY <1>9 DEF Finish, Placed, PlacedAt
    <2>2. QED BY <2>1, OverWith DEF Fields
  <1>10. CASE Kill(p) BY <1>10, KilledAt DEF Kill, Fields
  <1>11. QED BY <1>1, <1>2, <1>3, <1>4, <1>5, <1>6, <1>7, <1>8, <1>9, <1>10, StepCases

LEMMA ChainType ==
  ASSUME TypeOK, Placed, NEW p \in Processes, Step(p)
  PROVE  SameChains /\ \A l \in Launches : l # L(p) => chain'[l] = chain[l]
  <1>0. ASSUME chain' = chain
        PROVE  SameChains /\ \A l \in Launches : l # L(p) => chain'[l] = chain[l]
    BY <1>0 DEF SameChains, TypeOK
  <1>1. CASE Inner(p)
    BY <1>0, <1>1 DEF Inner, HoldsPolicy, Open, Busy, Recover, Dependencies, Migrate, Migrated, Plan,
       Write, Begin, Commit, RollBack, Drop, MoveAside, RemoveState
  <1>2. CASE Resolve(p)
    <2>1. Cmd(p) # None BY <1>2 DEF Resolve, Placed, PlacedAt
    <2>2. QED BY <1>0, <1>2, <2>1, ResolveLeads, OverShows
  <1>3. CASE Relaunch(p) \/ Stage(p) \/ Copied(p) \/ Run(p) \/ Uninstaller(p) \/ Kill(p)
    BY <1>0, <1>3 DEF Relaunch, Stage, Copied, Run, Uninstaller, Kill
  <1>4. CASE Refused(p) \/ StageFails(p)
    <2>1. "elevation" \in Outcomes /\ "relaunch_failed" \in Outcomes BY DEF Outcomes
    <2>2. QED BY <1>4, <2>1, OverShows DEF Refused, StageFails
  <1>5. CASE Collect(p)
    <2> DEFINE what == IF result[L(p)] \in {None, "unwritten"} THEN "elevated_result_missing"
                       ELSE result[L(p)]
    <2>1. Show(p, what) BY <1>5 DEF Collect
    <2>2. what \in Told BY ProcessFacts DEF Told, TypeOK
    <2>3. QED
      <3> HIDE DEF what
      <3> QED BY <2>1, <2>2, Shows
  <1>6. CASE Finish(p)
    <2>1. proc[p].outcome \in Outcomes /\ Over(p, proc[p].outcome)
      BY <1>6 DEF Finish, Placed, PlacedAt
    <2>2. QED BY <2>1, OverShows
  <1>7. QED BY <1>1, <1>2, <1>3, <1>4, <1>5, <1>6, StepCases

LEMMA InScope ==
  ASSUME TypeOK, Placed, NEW p \in Processes, Alive(p), proc[p].pc # "resolve"
  PROVE  Scope(p) \in Scopes /\ Cmd(p) # None
  BY DEF Placed, PlacedAt, Alive

\* Only the engine's steps touch the directories.
LEMMA StepStill ==
  ASSUME TypeOK, NEW p \in Processes, Step(p)
  PROVE  \/ state' = state
         \/ Run(p) \/ Open(p) \/ Recover(p) \/ Write(p) \/ Begin(p) \/ Commit(p) \/ RollBack(p)
         \/ MoveAside(p) \/ RemoveState(p)
  BY DEF Step, Resolve, Relaunch, Refused, Collect, Stage, StageFails, Copied, HoldsPolicy, Busy,
     Dependencies, Migrate, Uninstaller, Migrated, Plan, Drop, Finish, Kill

LEMMA StateType ==
  ASSUME TypeOK, Placed, NEW p \in Processes, Step(p)
  PROVE  state' \in [Scopes -> Directories]
  <1>1. CASE state' = state BY <1>1 DEF TypeOK
  <1>2. ASSUME \/ Run(p) \/ Open(p) \/ Recover(p) \/ Write(p) \/ Begin(p) \/ Commit(p)
               \/ RollBack(p) \/ MoveAside(p) \/ RemoveState(p)
        PROVE  Scope(p) \in Scopes
    <2>1. Alive(p) /\ proc[p].pc # "resolve"
      BY <1>2 DEF Alive, Run, Open, Recover, Write, Begin, Commit, RollBack, MoveAside, RemoveState
    <2>2. QED BY <2>1, InScope
  <1>3. CASE Run(p) BY <1>2, <1>3, OpenLogStill DEF Run, Still
  <1>4. CASE Open(p) BY <1>2, <1>4, OpenPuts DEF Puts
  <1>5. CASE Recover(p) \/ Begin(p) \/ Commit(p) \/ RollBack(p)
    BY <1>5, RecordsAt DEF Records, Puts, Still
  <1>6. CASE Write(p) BY <1>2, <1>6, WritePuts DEF Puts, Still
  <1>7. CASE MoveAside(p) BY <1>2, <1>7, AsidePuts DEF Puts, Still
  <1>8. CASE RemoveState(p) BY <1>2, <1>8, RemovePuts DEF Puts, Still
  <1>9. QED BY <1>1, <1>3, <1>4, <1>5, <1>6, <1>7, <1>8, StepStill

LEMMA LockType ==
  ASSUME TypeOK, NEW p \in Processes, Step(p)
  PROVE  lock' \in [Scopes -> Processes \cup {None}]
  <1>1. CASE Open(p) BY <1>1 DEF Open, TypeOK
  <1>2. CASE Drop(p) BY <1>2 DEF Drop, TypeOK
  <1>3. CASE Kill(p) BY <1>3 DEF Kill, TypeOK
  <1>4. lock' = lock \/ Open(p) \/ Drop(p) \/ Kill(p)
    BY DEF Step, Resolve, Relaunch, Refused, Collect, Stage, StageFails, Copied, HoldsPolicy, Busy,
       Dependencies, Migrate, Uninstaller, Migrated, Plan, Finish, Run, Recover, Write, Begin,
       Commit, RollBack, MoveAside, RemoveState
  <1>5. QED BY <1>1, <1>2, <1>3, <1>4 DEF TypeOK

LEMMA TempLeads ==
  ASSUME NEW p \in Processes, Step(p)
  PROVE  \/ temp' = temp
         \/ Relaunch(p) /\ temp' = temp \cup {<<"result", L(p)>>}
         \/ Collect(p) /\ temp' = temp \ {<<"result", L(p)>>}
         \/ Stage(p) /\ temp' = temp \cup {<<"copy", L(p)>>}
         \/ StageFails(p) /\ temp' = temp \cup {<<"staging", L(p)>>}
         \/ Run(p) /\ temp' = temp \cup {<<"log", L(p)>>}
         \/ MoveAside(p) /\ Role(p) = "copy" /\ temp' = temp \cup {<<"aside", L(p)>>}
         \/ Finish(p) /\ temp' = temp \ {<<"log", L(p)>>}
  <1>1. CASE Relaunch(p) \/ Collect(p) \/ Stage(p) \/ StageFails(p)
    BY <1>1 DEF Relaunch, Collect, Stage, StageFails
  <1>2. CASE Run(p) BY <1>2 DEF Run, OpenLog
  <1>3. CASE MoveAside(p) BY <1>3 DEF MoveAside
  <1>4. CASE Finish(p) BY <1>4 DEF Finish
  <1>5. \/ temp' = temp
        \/ Relaunch(p) \/ Collect(p) \/ Stage(p) \/ StageFails(p) \/ Run(p) \/ MoveAside(p) \/ Finish(p)
    BY DEF Step, Resolve, Refused, Copied, HoldsPolicy, Busy,
       Dependencies, Migrate, Uninstaller, Migrated, Plan, Recover, Write, Begin,
       Commit, RollBack, RemoveState, Drop, Kill, Open
  <1>6. QED BY <1>1, <1>2, <1>3, <1>4, <1>5

LEMMA TempType ==
  ASSUME TypeOK, NEW p \in Processes, Step(p)
  PROVE  temp' \subseteq {"result", "copy", "staging", "log", "aside"} \X Launches
  <1>0. L(p) \in Launches BY ProcessFacts
  <1>1. \E what \in {"result", "copy", "staging", "log", "aside"} :
          temp' \subseteq temp \cup {<<what, L(p)>>}
    BY TempLeads
  <1>2. QED BY <1>0, <1>1 DEF TypeOK

LEMMA OthersType ==
  ASSUME TypeOK, Placed, NEW p \in Processes, Step(p)
  PROVE  /\ result' \in [Launches -> Outcomes \cup {None, "unwritten"}]
         /\ helper' \in [Launches -> {"none", "waits", "uninstalled", "done", "ended"}]
         /\ legacy' \subseteq Scopes
  <1>0. L(p) \in Launches BY ProcessFacts
  <1>1. CASE Finish(p)
    <2>1. proc[p].outcome \in Outcomes BY <1>1 DEF Finish, Placed, PlacedAt
    <2>2. QED BY <1>0, <1>1, <2>1 DEF Finish, TypeOK
  <1>2. CASE Uninstaller(p) BY <1>2 DEF Uninstaller, TypeOK
  <1>3. UNCHANGED <<result, helper, legacy>> \/ Finish(p) \/ Uninstaller(p)
    BY DEF Step, Resolve, Relaunch, Refused, Collect, Stage, StageFails, Copied, HoldsPolicy, Busy,
       Dependencies, Migrate, Migrated, Plan, Run, Recover, Write, Begin,
       Commit, RollBack, MoveAside, RemoveState, Drop, Kill, Open
  <1>4. QED BY <1>1, <1>2, <1>3 DEF TypeOK

Histories == [kills : Nat, killed : SUBSET Launches, ran : SUBSET Processes,
              last : [Scopes -> {"none", "kept", "left", "removed"}], met : SUBSET Scopes]

LEMMA HistoryUpdates ==
  ASSUME NEW h \in Histories
  PROVE  /\ \A ran \in SUBSET Processes : [h EXCEPT !.ran = ran] \in Histories
         /\ \A met \in SUBSET Scopes : [h EXCEPT !.met = met] \in Histories
         /\ \A last \in [Scopes -> {"none", "kept", "left", "removed"}] :
              [h EXCEPT !.last = last] \in Histories
         /\ \A kills \in Nat, killed \in SUBSET Launches,
               last \in [Scopes -> {"none", "kept", "left", "removed"}] :
              [h EXCEPT !.kills = kills, !.killed = killed, !.last = last] \in Histories
  BY DEF Histories

\* What is remembered, and by which steps.
LEMMA HistoryLeads ==
  ASSUME TypeOK, NEW p \in Processes, Step(p)
  PROVE  \/ UNCHANGED history
         \/ Run(p) /\ history' = [history EXCEPT !.ran = history.ran \cup {p}]
         \/ \E met \in {history.met, history.met \cup {Scope(p)}} :
              (Open(p) \/ Begin(p)) /\ history' = [history EXCEPT !.met = met]
         \/ \E how \in {"kept", "left", "removed"} :
              /\ (Drop(p) /\ how = "kept") \/ RemoveState(p)
              /\ history' = [history EXCEPT !.last[Scope(p)] = how]
         \/ /\ Kill(p)
            /\ history' = [history EXCEPT !.kills = history.kills + 1,
                 !.killed = history.killed \cup {L(p)},
                 !.last = [s \in Scopes |-> IF lock[s] = p THEN "kept" ELSE history.last[s]]]
  <1>1. CASE Run(p) BY <1>1 DEF Run
  <1>2. CASE Open(p) BY <1>2 DEF Open
  <1>3. CASE Begin(p) BY <1>3 DEF Begin
  <1>4. CASE Drop(p) BY <1>4 DEF Drop
  <1>5. CASE RemoveState(p) BY <1>5 DEF RemoveState
  <1>6. CASE Kill(p) BY <1>6 DEF Kill
  <1>7. UNCHANGED history \/ Run(p) \/ Open(p) \/ Begin(p) \/ Drop(p) \/ RemoveState(p) \/ Kill(p)
    BY DEF Step, Resolve, Relaunch, Refused, Collect, Stage, StageFails, Copied, HoldsPolicy, Busy,
       Dependencies, Migrate, Uninstaller, Migrated, Plan, Finish, Recover, Write,
       Commit, RollBack, MoveAside
  <1>8. QED BY <1>1, <1>2, <1>3, <1>4, <1>5, <1>6, <1>7

LEMMA HistoryType ==
  ASSUME TypeOK, Placed, NEW p \in Processes, Step(p)
  PROVE  /\ history' \in Histories
         /\ history.met \subseteq history'.met
         /\ history'.ran \in {history.ran, history.ran \cup {p}}
         /\ history'.killed \in {history.killed, history.killed \cup {L(p)}}
         /\ Kill(p) \/ history'.killed = history.killed
         /\ Run(p) \/ history'.ran = history.ran
         /\ Open(p) \/ Begin(p) \/ history'.met = history.met
         /\ Drop(p) \/ RemoveState(p) \/ Kill(p) \/ history'.last = history.last
  <1>0. history \in Histories /\ L(p) \in Launches BY ProcessFacts DEF TypeOK, Histories
  <1>1. CASE UNCHANGED history BY <1>0, <1>1
  <1>2. CASE Run(p) /\ history' = [history EXCEPT !.ran = history.ran \cup {p}]
    <2>1. history.ran \cup {p} \in SUBSET Processes BY <1>0 DEF Histories
    <2>2. history' \in Histories BY <1>0, <1>2, <2>1, HistoryUpdates
    <2>3. /\ history'.ran = history.ran \cup {p} /\ history'.met = history.met
          /\ history'.killed = history.killed /\ history'.last = history.last
      BY <1>0, <1>2 DEF Histories
    <2>4. QED BY <1>2, <2>2, <2>3
  <1>3. ASSUME Open(p) \/ Begin(p), NEW met \in {history.met, history.met \cup {Scope(p)}},
               history' = [history EXCEPT !.met = met]
        PROVE  /\ history' \in Histories /\ history.met \subseteq history'.met
               /\ history'.ran = history.ran /\ history'.killed = history.killed
               /\ history'.last = history.last
    <2>1. Scope(p) \in Scopes
      <3>1. Alive(p) /\ proc[p].pc # "resolve" BY <1>3 DEF Open, Begin, Alive
      <3>2. QED BY <3>1, InScope
    <2>2. met \in SUBSET Scopes BY <1>0, <2>1 DEF Histories
    <2>3. history' \in Histories BY <1>0, <1>3, <2>2, HistoryUpdates
    <2>4. /\ history'.met = met /\ history'.ran = history.ran
          /\ history'.killed = history.killed /\ history'.last = history.last
      BY <1>0, <1>3 DEF Histories
    <2>5. QED BY <2>3, <2>4
  <1>4. ASSUME NEW how \in {"kept", "left", "removed"}, Drop(p) \/ RemoveState(p),
               history' = [history EXCEPT !.last[Scope(p)] = how]
        PROVE  /\ history' \in Histories /\ history'.met = history.met
               /\ history'.ran = history.ran /\ history'.killed = history.killed
    <2> DEFINE last == [history.last EXCEPT ![Scope(p)] = how]
    <2>1. last \in [Scopes -> {"none", "kept", "left", "removed"}] BY <1>0 DEF Histories
    <2>2. history' = [history EXCEPT !.last = last] BY <1>4
    <2>3. history' \in Histories
      <3> HIDE DEF last
      <3> QED BY <1>0, <2>1, <2>2, HistoryUpdates
    <2>4. /\ history'.met = history.met /\ history'.ran = history.ran
          /\ history'.killed = history.killed
      <3> HIDE DEF last
      <3> QED BY <1>0, <2>2 DEF Histories
    <2>5. QED BY <2>3, <2>4
  <1>5. ASSUME Kill(p),
               history' = [history EXCEPT !.kills = history.kills + 1,
                 !.killed = history.killed \cup {L(p)},
                 !.last = [s \in Scopes |-> IF lock[s] = p THEN "kept" ELSE history.last[s]]]
        PROVE  /\ history' \in Histories /\ history'.met = history.met
               /\ history'.ran = history.ran /\ history'.killed = history.killed \cup {L(p)}
    <2> DEFINE last == [s \in Scopes |-> IF lock[s] = p THEN "kept" ELSE history.last[s]]
               kills == history.kills + 1
               killed == history.killed \cup {L(p)}
    <2>1. /\ last \in [Scopes -> {"none", "kept", "left", "removed"}]
          /\ kills \in Nat /\ killed \in SUBSET Launches
      BY <1>0 DEF Histories
    <2>2. history' = [history EXCEPT !.kills = kills, !.killed = killed, !.last = last]
      BY <1>5
    <2>3. history' \in Histories
      <3> HIDE DEF last, kills, killed
      <3> QED BY <1>0, <2>1, <2>2, HistoryUpdates
    <2>4. /\ history'.met = history.met /\ history'.ran = history.ran
          /\ history'.killed = killed
      <3> HIDE DEF last, kills, killed
      <3> QED BY <1>0, <2>2 DEF Histories
    <2>5. QED BY <2>3, <2>4
  <1>6. QED BY <1>1, <1>2, <1>3, <1>4, <1>5, HistoryLeads

LEMMA BeginsLeads ==
  ASSUME TypeOK, Placed, NEW l \in Launches, Begins(l)
  PROVE  /\ proc[First(l)].pc = "none" /\ chain[l].command = None
         /\ Fields(First(l), "resolve", proc[First(l)].outcome)
         /\ proc'[First(l)].tree = proc[First(l)].tree
         /\ \E c \in Commands, admin \in BOOLEAN :
              /\ chain' \in [Launches -> Chains]
              /\ chain'[l].command = c /\ chain'[l].admin = admin /\ chain'[l].shown = chain[l].shown
              /\ \A k \in Launches : k # l => chain'[k] = chain[k]
         /\ UNCHANGED <<state, lock, temp, result, helper, legacy, history>>
  <1>1. First(l) \in Processes /\ L(First(l)) = l BY DEF First, Processes, Roles, L
  <1>2. chain[l].command = None BY DEF Begins
  <1>3. proc[First(l)].pc = "none" BY <1>1, <1>2 DEF Placed, PlacedAt, Cmd
  <1>4. Goes(First(l), "resolve") BY DEF Begins, First
  <1>5. Fields(First(l), "resolve", proc[First(l)].outcome) /\ proc'[First(l)].tree = proc[First(l)].tree
    BY <1>1, <1>4, AllPlaces, GoesTo
  <1>6. PICK c \in Commands, admin \in BOOLEAN :
          chain' = [chain EXCEPT ![l] = [@ EXCEPT !.command = c, !.admin = admin]]
    BY DEF Begins
  <1>7. LET now == [chain[l] EXCEPT !.command = c, !.admin = admin] IN
        /\ now \in Chains /\ now.command = c /\ now.admin = admin /\ now.shown = chain[l].shown
    <2>1. chain[l] \in [command : Commands \cup {None}, admin : BOOLEAN, shown : Told]
      BY DEF TypeOK, Chains
    <2>2. QED BY <2>1 DEF Chains
  <1>8. /\ chain' \in [Launches -> Chains]
        /\ chain'[l].command = c /\ chain'[l].admin = admin /\ chain'[l].shown = chain[l].shown
        /\ \A k \in Launches : k # l => chain'[k] = chain[k]
    <2> DEFINE now == [chain[l] EXCEPT !.command = c, !.admin = admin]
    <2>1. now \in Chains /\ now.command = c /\ now.admin = admin /\ now.shown = chain[l].shown
      BY <1>7
    <2>2. chain' = [chain EXCEPT ![l] = now] BY <1>6
    <2> HIDE DEF now
    <2>3. QED BY <2>1, <2>2 DEF TypeOK
  <1>9. QED BY <1>2, <1>3, <1>5, <1>8 DEF Begins

LEMMA NoProcessFacts ==
  /\ NoProcess \in Runs /\ NoProcess.pc = "none" /\ NoProcess.scope = None
  /\ NoProcess.outcome = None /\ NoProcess.tree = "none" /\ NoProcess.code = None
  BY DEF NoProcess, Runs, Places

LEMMA InitTypes == Init => TypeOK
  <1> SUFFICES ASSUME Init PROVE TypeOK OBVIOUS
  <1>1. proc \in [Processes -> Runs] BY NoProcessFacts DEF Init
  <1>2. chain \in [Launches -> Chains] BY DEF Init, Chains, Told
  <1>3. state \in [Scopes -> Directories]
    <2>1. <<>> \in Seq(Transactions) OBVIOUS
    <2>2. Holding \in Directories /\ NoDirectory \in Directories
      <3>1. Database(TRUE, <<>>) \in Databases BY <2>1, DatabaseType
      <3>2. QED BY <3>1 DEF Holding, NoDirectory, Directories
    <2>3. QED BY <2>2 DEF Init
  <1>4. legacy \subseteq Scopes BY ClientAssumption DEF Init
  <1>5. history \in Histories BY DEF Init, Histories
  <1>6. QED BY <1>1, <1>2, <1>3, <1>4, <1>5 DEF Init, TypeOK, Histories

LEMMA NextTypes ==
  ASSUME TypeOK, Placed, Preceded, [Next]_vars
  PROVE  TypeOK'
  <1>1. CASE UNCHANGED vars BY <1>1 DEF vars, TypeOK
  <1>2. ASSUME NEW p \in Processes, Step(p) PROVE TypeOK'
    BY <1>2, ProcType, ChainType, StateType, LockType, TempType, OthersType, HistoryType
       DEF TypeOK, SameChains, Histories
  <1>3. ASSUME NEW l \in Launches, Begins(l) PROVE TypeOK'
    BY <1>3, BeginsLeads DEF TypeOK, Fields
  <1>4. ASSUME NEW l \in Launches, Helps(l) PROVE TypeOK'
    BY <1>4, HelpPuts DEF TypeOK, Still, Puts
  <1>5. QED BY <1>1, <1>2, <1>3, <1>4 DEF Next, Helps

----------------------------------------------------------------------------
(* Where a process is, from step to step.                                  *)

LEMMA LockLeads ==
  ASSUME TypeOK, Placed, NEW p \in Processes, Step(p), NEW s \in Scopes
  PROVE  \/ lock'[s] = lock[s] /\ ~(Open(p) /\ Scope(p) = s)
                               /\ ~((Drop(p) \/ Kill(p)) /\ lock[s] = p)
         \/ Open(p) /\ Scope(p) = s /\ lock[s] = None /\ lock'[s] = p
         \/ (Drop(p) \/ Kill(p)) /\ lock[s] = p /\ lock'[s] = None
  <1>1. CASE Open(p) BY <1>1, Facts DEF Open, TypeOK, Drop, Kill
  <1>2. CASE Drop(p)
    <2>1. proc[p].pc = "drop" /\ lock' = [lock EXCEPT ![Scope(p)] = None] BY <1>2 DEF Drop
    <2>2. Scope(p) \in Scopes /\ lock[Scope(p)] = p
      BY <2>1 DEF Placed, PlacedAt, Alive, Locked
    <2>3. lock[s] = p => Scope(p) = s BY Facts DEF Placed, LockedAt
    <2>4. ~Open(p) BY <2>1 DEF Open
    <2>5. lock \in [Scopes -> Processes \cup {None}] BY DEF TypeOK
    <2>6. CASE s = Scope(p) BY <1>2, <2>1, <2>2, <2>5, <2>6
    <2>7. CASE s # Scope(p) BY <2>1, <2>3, <2>4, <2>5, <2>7
    <2>8. QED BY <2>6, <2>7
  <1>3. CASE Kill(p) /\ ~Open(p) BY <1>3 DEF Kill, TypeOK
  <1>4. lock' = lock \/ Open(p) \/ Drop(p) \/ Kill(p)
    BY DEF Step, Resolve, Relaunch, Refused, Collect, Stage, StageFails, Copied, HoldsPolicy, Busy,
       Dependencies, Migrate, Uninstaller, Migrated, Plan, Finish, Run, Recover, Write, Begin,
       Commit, RollBack, MoveAside, RemoveState
  <1>5. QED BY <1>1, <1>2, <1>3, <1>4

LEMMA DbKept ==
  ASSUME TypeOK, Placed, NEW p \in Processes, Step(p), NEW s \in Scopes, state[s].db # None
  PROVE  \/ state'[s].db # None
         \/ RemoveState(p) /\ Scope(p) = s /\ lock[s] = None
  <1>1. CASE state' = state BY <1>1
  <1>2. ASSUME \/ Run(p) \/ Open(p) \/ Recover(p) \/ Write(p) \/ Begin(p) \/ Commit(p)
               \/ RollBack(p) \/ MoveAside(p) \/ RemoveState(p)
        PROVE  Scope(p) \in Scopes
    <2>1. Alive(p) /\ proc[p].pc # "resolve"
      BY <1>2 DEF Alive, Run, Open, Recover, Write, Begin, Commit, RollBack, MoveAside, RemoveState
    <2>2. QED BY <2>1, InScope
  <1>3. CASE Run(p) BY <1>2, <1>3, OpenLogStill DEF Run, Still
  <1>4. CASE Open(p)
    <2>1. <<>> \in Seq(Transactions) OBVIOUS
    <2>2. Database(FALSE, <<>>) # None BY <2>1, DatabaseType
    <2>3. QED BY <1>2, <1>4, <2>2, OpenPuts DEF Puts, Here
  <1>5. CASE Recover(p) \/ Begin(p) \/ Commit(p) \/ RollBack(p)
    <2>1. CASE Records(p) BY <2>1, DatabaseType DEF Records, Puts
    <2>2. QED BY <1>5, <2>1, RecordsAt DEF Still
  <1>6. CASE Write(p) BY <1>2, <1>6, WritePuts DEF Puts, Still, Here
  <1>7. CASE MoveAside(p) BY <1>2, <1>7, AsidePuts DEF Puts, Still, Here
  <1>8. CASE RemoveState(p) BY <1>2, <1>8, RemovePuts DEF Puts, Still, Here
  <1>9. QED BY <1>1, <1>3, <1>4, <1>5, <1>6, <1>7, <1>8, StepStill

\* A process comes to its end.
Closes(p) ==
  /\ proc[p].pc # "none"
  /\ \E pc \in {"over", "killed"} : Fields(p, pc, proc'[p].outcome)

LEMMA StepKinds ==
  ASSUME TypeOK, Placed, Preceded, NEW p \in Processes, Step(p)
  PROVE  \/ Inner(p) \/ Run(p) \/ Uninstaller(p) \/ Relaunch(p) \/ Stage(p) \/ Closes(p)
         \/ /\ Resolve(p) /\ chain' = chain
            /\ \E scope \in Scopes :
                 /\ scope = decide(Start(p, Given(p)), Requested(Start(p, Given(p))))
                 /\ Settled(p, scope) /\ Next0(p, scope) \in {"elevate", "stage", "engine"}
  <1>0. ASSUME NEW pc \in {"over", "killed"}, NEW outcome, Fields(p, pc, outcome),
               proc[p].pc # "none"
        PROVE  Closes(p)
    <2>1. proc'[p].outcome = outcome BY <1>0 DEF Fields
    <2>2. QED BY <1>0, <2>1 DEF Closes
  <1>1. CASE Resolve(p)
    <2>1. Cmd(p) # None /\ proc[p].pc = "resolve" BY <1>1 DEF Resolve, Placed, PlacedAt
    <2>2. CASE \E outcome \in Outcomes : Over(p, outcome) BY <1>0, <2>1, <2>2, OverWith
    <2>3. QED BY <1>1, <2>1, <2>2, ResolveLeads
  <1>2. CASE Refused(p) \/ StageFails(p)
    <2>1. "elevation" \in Outcomes /\ "relaunch_failed" \in Outcomes BY DEF Outcomes
    <2>2. QED BY <1>0, <1>2, <2>1, OverWith DEF Refused, StageFails
  <1>3. CASE Collect(p)
    <2>1. /\ Set(p, [proc[p] EXCEPT !.pc = "over", !.code = proc[Child(L(p))].code])
          /\ proc[p].pc = "wait"
      BY <1>3 DEF Collect, Child
    <2>2. QED BY <1>0, <2>1, ProcessFacts, OverLike
  <1>4. CASE Copied(p)
    <2>1. /\ Set(p, [proc[p] EXCEPT !.pc = "over", !.code = proc[Copy(L(p))].code])
          /\ proc[p].pc = "linger"
      BY <1>4 DEF Copied, Copy
    <2>2. QED BY <1>0, <2>1, ProcessFacts, OverLike
  <1>5. CASE Finish(p)
    <2>1. proc[p].outcome \in Outcomes /\ Over(p, proc[p].outcome) /\ proc[p].pc = "finish"
      BY <1>5 DEF Finish, Placed, PlacedAt
    <2>2. QED BY <1>0, <2>1, OverWith
  <1>6. CASE Kill(p) BY <1>0, <1>6, KilledAt DEF Kill, Alive
  <1>7. QED BY <1>1, <1>2, <1>3, <1>4, <1>5, <1>6, StepCases

\* A step that starts no process and resolves no scope: only the process
\* that takes it changes, and it does not go back.
Calm(p) ==
  \E pc \in {"over", "killed"} \cup Inside :
    /\ Fields(p, pc, proc'[p].outcome)
    /\ proc[p].pc # "none"
    /\ proc[p].pc \in {"wait", "linger", "over", "killed"} => pc \in {"over", "killed"}

LEMMA InnerFrom ==
  ASSUME NEW p \in Processes, Inner(p)
  PROVE  proc[p].pc \in Inside \ {"finish"}
  BY DEF Inner, Inside, HoldsPolicy, Open, Busy, Recover, Dependencies, Migrate, Migrated, Plan,
     Write, Begin, Commit, RollBack, Drop, MoveAside, RemoveState

LEMMA InnerCalm ==
  ASSUME TypeOK, Placed, Preceded, NEW p \in Processes, Inner(p)
  PROVE  Calm(p) /\ proc'[p].pc \in Inside
  <1>1. proc[p].pc \in Inside BY InnerFrom
  <1>2. \E pc \in Inside : Fields(p, pc, proc'[p].outcome)
    <2>1. CASE Passes(p) BY <2>1 DEF Passes, On, Inside, Fields
    <2>2. CASE Gives(p) BY <2>2 DEF Gives, Left, Ending, Inside
    <2>3. QED BY <2>1, <2>2, InnerLeads
  <1>3. PICK pc \in Inside : Fields(p, pc, proc'[p].outcome) BY <1>2
  <1>4. proc'[p].pc = pc BY <1>3 DEF Fields
  <1>5. proc[p].pc \notin {"none", "wait", "linger", "over", "killed"} BY <1>1 DEF Inside
  <1>6. QED BY <1>3, <1>4, <1>5 DEF Calm

LEMMA CalmSteps ==
  ASSUME TypeOK, Placed, Preceded, NEW p \in Processes, Step(p)
  PROVE  \/ Calm(p) \/ Relaunch(p) \/ Stage(p)
         \/ /\ Resolve(p) /\ chain' = chain
            /\ \E scope \in Scopes :
                 /\ scope = decide(Start(p, Given(p)), Requested(Start(p, Given(p))))
                 /\ Settled(p, scope) /\ Next0(p, scope) \in {"elevate", "stage", "engine"}
  <1>1. CASE Inner(p) BY <1>1, InnerCalm
  <1>2. CASE Run(p)
    <2>1. Cmd(p) # None /\ proc[p].pc = "engine" BY <1>2 DEF Run, Placed, PlacedAt
    <2>2. \E pc \in Inside : Fields(p, pc, proc'[p].outcome)
      BY <1>2, <2>1, RunLeads DEF On, Ending, Inside, Fields
    <2>3. QED BY <2>1, <2>2 DEF Calm
  <1>3. CASE Uninstaller(p)
    <2>1. Fields(p, proc[p].pc, proc[p].outcome) /\ proc[p].tree = "running"
      BY <1>3, UninstallerLeads
    <2>2. proc[p].pc \in {"verdict", "drop", "aside", "remove", "finish", "over", "killed"}
      BY <2>1 DEF Preceded, PrecededAt
    <2>3. proc'[p].outcome = proc[p].outcome BY <2>1 DEF Fields
    <2>4. proc[p].pc \in {"over", "killed"} \cup Inside BY <2>2 DEF Inside
    <2>5. QED BY <2>1, <2>2, <2>3, <2>4 DEF Calm
  <1>4. CASE Closes(p) BY <1>4 DEF Closes, Calm
  <1>5. QED BY <1>1, <1>2, <1>3, <1>4, StepKinds

LEMMA RoleFacts ==
  ASSUME NEW k \in Launches
  PROVE  /\ \A r \in Roles : <<k, r>> \in Processes /\ L(<<k, r>>) = k /\ Role(<<k, r>>) = r
         /\ First(k) \in Processes /\ Child(k) \in Processes /\ Copy(k) \in Processes
         /\ First(k) # Child(k) /\ First(k) # Copy(k) /\ Child(k) # Copy(k)
         /\ L(First(k)) = k /\ L(Child(k)) = k /\ L(Copy(k)) = k
         /\ Role(First(k)) = "first" /\ Role(Child(k)) = "elevated" /\ Role(Copy(k)) = "copy"
         /\ Roles = {"first", "elevated", "copy"}
  BY DEF Processes, Roles, L, Role, First, Child, Copy

LEMMA AimedStays ==
  ASSUME TypeOK, SameChains, NEW l \in Launches, AimedAt(l),
         \A r \in Roles :
           /\ proc'[<<l, r>>].scope = proc[<<l, r>>].scope
           /\ proc'[<<l, r>>].pc = "none" <=> proc[<<l, r>>].pc = "none"
           /\ proc'[<<l, r>>].pc \in {"stage", "linger"} => proc[<<l, r>>].pc \in {"stage", "linger"}
  PROVE  AimedAt(l)'
  <1>1. /\ chain'[l].command = chain[l].command /\ Target(l)' = Target(l)
    BY DEF SameChains, Target
  <1>2. "first" \in Roles /\ "elevated" \in Roles /\ "copy" \in Roles BY DEF Roles
  <1>3. QED BY <1>1, <1>2 DEF AimedAt, First, Child, Copy

LEMMA BornStays ==
  ASSUME TypeOK, SameChains, NEW l \in Launches, BornAt(l),
         \A r \in Roles :
           \/ proc'[<<l, r>>].pc = proc[<<l, r>>].pc
           \/ /\ proc'[<<l, r>>].pc \in {"over", "killed"} \cup Inside
              /\ proc[<<l, r>>].pc # "none"
              /\ proc[<<l, r>>].pc \in {"wait", "linger", "over", "killed"} =>
                   proc'[<<l, r>>].pc \in {"over", "killed"},
         helper'[l] # "none" => helper[l] # "none" \/ proc'[Copy(l)].pc \in {"over", "killed"}
  PROVE  BornAt(l)'
  <1>1. /\ chain'[l].command = chain[l].command /\ Target(l)' = Target(l)
        /\ MustElevate(l)' = MustElevate(l)
    BY DEF SameChains, Target, MustElevate
  <1>2. "first" \in Roles /\ "elevated" \in Roles /\ "copy" \in Roles BY DEF Roles
  <1>3. \A pc \in {"over", "killed"} \cup Inside :
          pc \notin {"none", "elevate", "stage", "wait", "linger"}
    BY DEF Inside
  <1>4. /\ proc'[First(l)].pc = "none" <=> proc[First(l)].pc = "none"
        /\ proc'[Child(l)].pc = "none" <=> proc[Child(l)].pc = "none"
        /\ proc'[Copy(l)].pc = "none" <=> proc[Copy(l)].pc = "none"
    BY <1>2, <1>3 DEF First, Child, Copy
  <1>5. /\ proc[First(l)].pc \in {"wait", "over", "killed"} =>
             proc'[First(l)].pc \in {"wait", "over", "killed"}
        /\ proc[First(l)].pc \in {"linger", "over", "killed"} =>
             proc'[First(l)].pc \in {"linger", "over", "killed"}
        /\ proc[Child(l)].pc \in {"linger", "over", "killed"} =>
             proc'[Child(l)].pc \in {"linger", "over", "killed"}
        /\ proc[Copy(l)].pc \in {"over", "killed"} => proc'[Copy(l)].pc \in {"over", "killed"}
    BY <1>2 DEF First, Child, Copy
  <1>6. /\ proc'[Child(l)].pc \notin {"elevate", "wait"}
        /\ proc'[Copy(l)].pc \notin {"elevate", "stage", "wait", "linger"}
        /\ proc'[First(l)].pc = "stage" => proc[First(l)].pc = "stage"
    <2>1. proc[Child(l)].pc \notin {"elevate", "wait"}
          /\ proc[Copy(l)].pc \notin {"elevate", "stage", "wait", "linger"}
      BY DEF BornAt
    <2>2. QED BY <1>2, <1>3, <2>1 DEF First, Child, Copy
  <1>7. QED BY <1>1, <1>4, <1>5, <1>6 DEF BornAt

LEMMA CalmPlaced ==
  ASSUME TypeOK, Placed, SameChains, NEW p \in Processes, Calm(p), NEW l \in Launches,
         helper'[l] # "none" => helper[l] # "none" \/ proc'[Copy(l)].pc \in {"over", "killed"}
  PROVE  AimedAt(l)' /\ BornAt(l)'
  <1>1. PICK pc \in {"over", "killed"} \cup Inside :
          /\ Fields(p, pc, proc'[p].outcome)
          /\ proc[p].pc # "none"
          /\ proc[p].pc \in {"wait", "linger", "over", "killed"} => pc \in {"over", "killed"}
    BY DEF Calm
  <1>2. \A r \in Roles : <<l, r>> \in Processes BY RoleFacts
  <1>3. \A pc1 \in {"over", "killed"} \cup Inside : pc1 \notin {"none", "stage", "linger"}
    BY DEF Inside
  <1>4. \A r \in Roles :
           /\ proc'[<<l, r>>].scope = proc[<<l, r>>].scope
           /\ proc'[<<l, r>>].pc = "none" <=> proc[<<l, r>>].pc = "none"
           /\ proc'[<<l, r>>].pc \in {"stage", "linger"} => proc[<<l, r>>].pc \in {"stage", "linger"}
           /\ \/ proc'[<<l, r>>].pc = proc[<<l, r>>].pc
              \/ /\ proc'[<<l, r>>].pc \in {"over", "killed"} \cup Inside
                 /\ proc[<<l, r>>].pc # "none"
                 /\ proc[<<l, r>>].pc \in {"wait", "linger", "over", "killed"} =>
                      proc'[<<l, r>>].pc \in {"over", "killed"}
    <2> TAKE r \in Roles
    <2>1. CASE <<l, r>> # p BY <1>1, <1>2, <2>1 DEF Fields
    <2>2. CASE <<l, r>> = p BY <1>1, <1>3, <2>2 DEF Fields
    <2>3. QED BY <2>1, <2>2
  <1>5. AimedAt(l) /\ BornAt(l) BY DEF Placed
  <1>6. QED BY <1>4, <1>5, AimedStays, BornStays

LEMMA HelperLeads ==
  ASSUME TypeOK, Placed, NEW p \in Processes, Step(p), NEW l \in Launches,
         helper'[l] # helper[l]
  PROVE  Finish(p) /\ p = Copy(l) /\ proc'[p].pc = "over"
         /\ helper'[l] = IF Gone(proc[p].outcome) THEN "uninstalled" ELSE "waits"
  <1>1. Finish(p)
    BY DEF Step, Resolve, Relaunch, Refused, Collect, Stage, StageFails, Copied, HoldsPolicy, Busy,
       Dependencies, Migrate, Uninstaller, Migrated, Plan, Run, Recover, Write, Begin,
       Commit, RollBack, MoveAside, RemoveState, Drop, Kill, Open
  <1>2. Role(p) = "copy" /\ helper' = [helper EXCEPT ![L(p)] =
          IF Gone(proc[p].outcome) THEN "uninstalled" ELSE "waits"]
    BY <1>1 DEF Finish
  <1>3. l = L(p) BY <1>2 DEF TypeOK
  <1>4. p = Copy(l) BY <1>2, <1>3, ProcessFacts DEF Copy
  <1>5. proc[p].outcome \in Outcomes /\ Over(p, proc[p].outcome)
    BY <1>1 DEF Finish, Placed, PlacedAt
  <1>6. proc'[p].pc = "over" BY <1>5, OverWith DEF Fields
  <1>7. QED BY <1>1, <1>2, <1>3, <1>4, <1>6 DEF TypeOK

\* The processes of another chain do not change.
LEMMA OtherChains ==
  ASSUME TypeOK, Placed, SameChains, NEW l \in Launches,
         \A r \in Roles : proc'[<<l, r>>] = proc[<<l, r>>],
         helper'[l] # "none" => helper[l] # "none"
  PROVE  AimedAt(l)' /\ BornAt(l)'
  <1>1. AimedAt(l) /\ BornAt(l) BY DEF Placed
  <1>2. QED BY <1>1, AimedStays, BornStays

LEMMA RelaunchLeads ==
  ASSUME TypeOK, Placed, NEW p \in Processes, Relaunch(p)
  PROVE  LET l == L(p) IN
         /\ p = First(l) /\ proc[Child(l)] = NoProcess /\ proc[Copy(l)] = NoProcess
         /\ Launched(p, Child(l), "wait") /\ chain' = chain
         /\ UNCHANGED <<state, lock, result, helper, legacy, history>>
  <1> DEFINE l == L(p)
  <1>1. proc[p].pc = "elevate" /\ l \in Launches BY ProcessFacts DEF Relaunch
  <1>2. BornAt(l) /\ p \in {First(l), Child(l), Copy(l)}
    BY <1>1, ProcessFacts DEF Placed, Roles, First, Child, Copy
  <1>3. p = First(l) BY <1>1, <1>2 DEF BornAt
  <1>4. proc[Child(l)].pc = "none" /\ proc[Copy(l)].pc = "none"
    BY <1>1, <1>2, <1>3 DEF BornAt
  <1>5. proc[Child(l)] = NoProcess /\ proc[Copy(l)] = NoProcess
    BY <1>1, <1>4, RoleFacts DEF Placed, PlacedAt
  <1>6. proc' = [proc EXCEPT ![p].pc = "wait", ![Child(l)].pc = "resolve"]
    BY DEF Relaunch, Child
  <1>7. p # Child(l) /\ Child(l) \in Processes BY <1>1, <1>3, RoleFacts
  <1>8. Launched(p, Child(l), "wait")
    <2> HIDE DEF l
    <2> QED BY <1>6, <1>7, AllPlaces, Launching
  <1>9. QED BY <1>3, <1>5, <1>8 DEF Relaunch

LEMMA StageLeads ==
  ASSUME TypeOK, Placed, NEW p \in Processes, Stage(p)
  PROVE  LET l == L(p) IN
         /\ p \in {First(l), Child(l)} /\ proc[Copy(l)] = NoProcess
         /\ p = First(l) => proc[Child(l)] = NoProcess
         /\ Launched(p, Copy(l), "linger") /\ chain' = chain
         /\ UNCHANGED <<state, lock, result, helper, legacy, history>>
  <1> DEFINE l == L(p)
  <1>1. proc[p].pc = "stage" /\ l \in Launches BY ProcessFacts DEF Stage
  <1>2. BornAt(l) /\ p \in {First(l), Child(l), Copy(l)}
    BY <1>1, ProcessFacts DEF Placed, Roles, First, Child, Copy
  <1>3. p \in {First(l), Child(l)} BY <1>1, <1>2 DEF BornAt
  <1>4. proc[Copy(l)].pc = "none" /\ (p = First(l) => proc[Child(l)].pc = "none")
    BY <1>1, <1>2, <1>3 DEF BornAt
  <1>5. proc[Copy(l)] = NoProcess /\ (p = First(l) => proc[Child(l)] = NoProcess)
    BY <1>1, <1>4, RoleFacts DEF Placed, PlacedAt
  <1>6. proc' = [proc EXCEPT ![p].pc = "linger", ![Copy(l)].pc = "resolve"]
    BY DEF Stage, Copy
  <1>7. p # Copy(l) /\ Copy(l) \in Processes BY <1>1, <1>3, RoleFacts
  <1>8. Launched(p, Copy(l), "linger")
    <2> HIDE DEF l
    <2> QED BY <1>6, <1>7, AllPlaces, Launching
  <1>9. QED BY <1>3, <1>5, <1>8 DEF Stage

LEMMA RelaunchPlaced ==
  ASSUME TypeOK, Placed, NEW p \in Processes, Relaunch(p), NEW l \in Launches
  PROVE  AimedAt(l)' /\ BornAt(l)'
  <1>0. /\ L(p) \in Launches /\ SameChains
    BY RelaunchLeads, ProcessFacts DEF SameChains, TypeOK
  <1>1. CASE l # L(p)
    <2>1. \A r \in Roles : <<l, r>> \notin {p, Child(L(p))} /\ <<l, r>> \in Processes
      BY <1>0, <1>1, RoleFacts
    <2>2. \A r \in Roles : proc'[<<l, r>>] = proc[<<l, r>>]
      BY <2>1, RelaunchLeads DEF Launched
    <2>3. QED BY <1>0, <2>2, RelaunchLeads, OtherChains
  <1>2. CASE l = L(p)
    <2>1. /\ p = First(l) /\ proc[Child(l)] = NoProcess /\ proc[Copy(l)] = NoProcess
          /\ Launched(p, Child(l), "wait") /\ helper' = helper
      BY <1>2, RelaunchLeads
    <2>2. /\ proc'[First(l)].pc = "wait" /\ proc'[First(l)].scope = proc[First(l)].scope
          /\ proc'[Child(l)].pc = "resolve" /\ proc'[Child(l)].scope = None
          /\ proc'[Copy(l)] = proc[Copy(l)] /\ proc[Copy(l)].pc = "none" /\ proc[Copy(l)].scope = None
      BY <1>0, <1>2, <2>1, RoleFacts, NoProcessFacts DEF Launched
    <2>3. proc[First(l)].scope \in Scopes
      <3>1. proc[p].pc = "elevate" BY DEF Relaunch
      <3>2. QED BY <2>1, <3>1, InScope DEF Alive, Scope
    <2>4. AimedAt(l) /\ BornAt(l) BY DEF Placed
    <2>5. helper[l] = "none" BY <2>2, <2>4 DEF BornAt
    <2>6. chain'[l].command = chain[l].command /\ Target(l)' = Target(l)
      BY <1>0 DEF SameChains, Target
    <2>7. \A r \in Roles : <<l, r>> \in {First(l), Child(l), Copy(l)}
      BY DEF Roles, First, Child, Copy
    <2>8. "first" \in Roles /\ "stage" # "wait" /\ "linger" # "wait" BY DEF Roles
    <2>9. AimedAt(l)'
      <3>1. ASSUME chain[l].command # None, chain[l].command.operation = "uninstall",
                   chain[l].command.exe \in Scopes, NEW r \in Roles
            PROVE  proc'[<<l, r>>].scope \in {None, Target(l)}
        <4>1. proc[<<l, r>>].scope \in {None, Target(l)} BY <3>1, <2>4 DEF AimedAt
        <4>2. QED BY <2>2, <2>7, <4>1
      <3>2. \A r \in Roles : proc'[<<l, r>>].pc \notin {"stage", "linger"} BY <2>2, <2>7
      <3>3. QED BY <2>2, <2>3, <2>6, <3>1, <3>2 DEF AimedAt
    <2>10. BornAt(l)' BY <2>1, <2>2, <2>5 DEF BornAt
    <2>11. QED BY <2>9, <2>10
  <1>3. QED BY <1>1, <1>2

LEMMA StagePlaced ==
  ASSUME TypeOK, Placed, NEW p \in Processes, Stage(p), NEW l \in Launches
  PROVE  AimedAt(l)' /\ BornAt(l)'
  <1>0. /\ L(p) \in Launches /\ SameChains
    BY StageLeads, ProcessFacts DEF SameChains, TypeOK
  <1>1. CASE l # L(p)
    <2>1. \A r \in Roles : <<l, r>> \notin {p, Copy(L(p))} /\ <<l, r>> \in Processes
      BY <1>0, <1>1, RoleFacts
    <2>2. \A r \in Roles : proc'[<<l, r>>] = proc[<<l, r>>] BY <2>1, StageLeads DEF Launched
    <2>3. QED BY <1>0, <2>2, StageLeads, OtherChains
  <1>2. CASE l = L(p)
    <2>1. /\ p \in {First(l), Child(l)} /\ proc[Copy(l)] = NoProcess
          /\ p = First(l) => proc[Child(l)] = NoProcess
          /\ Launched(p, Copy(l), "linger") /\ helper' = helper
      BY <1>2, StageLeads
    <2>2. /\ proc'[p].pc = "linger" /\ proc'[p].scope = proc[p].scope
          /\ proc'[Copy(l)].pc = "resolve" /\ proc'[Copy(l)].scope = None
          /\ proc[Copy(l)].pc = "none" /\ proc[p].pc = "stage"
          /\ \A r \in Roles : <<l, r>> \notin {p, Copy(l)} => proc'[<<l, r>>] = proc[<<l, r>>]
      BY <2>1, RoleFacts, NoProcessFacts DEF Launched, Stage
    <2>3. \A r \in Roles : <<l, r>> \in {First(l), Child(l), Copy(l)}
      BY DEF Roles, First, Child, Copy
    <2>4. AimedAt(l) /\ BornAt(l) BY DEF Placed
    <2>5. helper[l] = "none" BY <2>2, <2>4 DEF BornAt
    <2>6. chain'[l].command = chain[l].command /\ Target(l)' = Target(l)
          /\ MustElevate(l)' = MustElevate(l)
      BY <1>0 DEF SameChains, Target, MustElevate
    <2>7. \E r \in Roles : proc[<<l, r>>].pc \in {"stage", "linger"}
      BY <2>1, <2>2 DEF Roles, First, Child
    <2>8. \A r \in Roles : proc'[<<l, r>>].scope \in {None, proc[<<l, r>>].scope}
      BY <2>2, <2>3
    <2>9. proc'[Child(l)].pc # "none" => proc'[First(l)].scope \in Scopes
      <3>1. CASE p = First(l) BY <1>2, <2>2, <3>1, InScope DEF Alive, Scope
      <3>2. CASE p = Child(l)
        <4>1. proc'[First(l)] = proc[First(l)] BY <2>2, <3>2, RoleFacts DEF First, Roles
        <4>2. QED BY <2>2, <2>4, <3>2, <4>1 DEF AimedAt
      <3>3. QED BY <2>1, <3>1, <3>2
    <2>10. AimedAt(l)'
      <3>1. /\ chain[l].command.operation = "uninstall" /\ chain[l].command.exe \in Scopes
            /\ Target(l) = chain[l].command.exe
        BY <2>4, <2>7 DEF AimedAt
      <3>2. chain[l].command # None =>
              \A r \in Roles : proc'[<<l, r>>].scope \in {None, Target(l)}
        BY <2>4, <2>8, <3>1 DEF AimedAt
      <3>3. QED BY <2>6, <2>9, <3>1, <3>2 DEF AimedAt
    <2>11. BornAt(l)'
      <3>1. CASE p = First(l)
        <4>1. proc'[Child(l)] = proc[Child(l)] /\ proc[Child(l)].pc = "none"
          BY <2>1, <2>2, <3>1, RoleFacts, NoProcessFacts DEF Child, Roles
        <4>2. ~MustElevate(l) BY <2>2, <2>4, <3>1 DEF BornAt
        <4>3. QED BY <2>1, <2>2, <2>5, <2>6, <3>1, <4>1, <4>2 DEF BornAt
      <3>2. CASE p = Child(l)
        <4>1. proc'[First(l)] = proc[First(l)] BY <2>2, <3>2, RoleFacts DEF First, Roles
        <4>2. QED BY <2>1, <2>2, <2>4, <2>5, <2>6, <3>2, <4>1 DEF BornAt
      <3>3. QED BY <2>1, <3>1, <3>2
    <2>12. QED BY <2>10, <2>11
  <1>3. QED BY <1>1, <1>2

\* An uninstaller's process decides on its scope, and is elevated only where
\* the first process would be.
LEMMA ResolvesTarget ==
  ASSUME TypeOK, Placed, NEW p \in Processes, Cmd(p) # None, proc[p].pc = "resolve",
         Cmd(p).operation = "uninstall", Cmd(p).exe \in Scopes
  PROVE  decide(Start(p, Given(p)), Requested(Start(p, Given(p)))) = Target(L(p))
  <1> DEFINE l == L(p)  in == Start(p, Given(p))
  <1>1. l \in Launches /\ p \in {First(l), Child(l), Copy(l)} /\ AimedAt(l)
        /\ Cmd(p) = chain[l].command /\ Role(p) \in Roles
    BY ProcessFacts DEF Placed, Roles, First, Child, Copy, Cmd
  <1>2. HasElevated(l) => proc[First(l)].scope = Target(l)
    <2>1. HasElevated(l) => proc[First(l)].scope \in Scopes
      BY <1>1 DEF AimedAt, HasElevated, Child
    <2>2. proc[First(l)].scope \in {None, Target(l)} BY <1>1 DEF AimedAt, First, Roles
    <2>3. QED BY <2>1, <2>2, Facts
  <1>3. Role(p) = "elevated" => HasElevated(l) BY <1>1, ProcessFacts DEF HasElevated
  <1>4. Target(l) \in Scopes /\ Cmd(p).given \in Scopes \cup {None}
    BY <1>1, CommandFacts DEF Target
  <1>5. Given(p) = Target(l) \/ (Given(p) = None /\ Cmd(p).given = None)
    BY <1>1, <1>2, <1>3, <1>4 DEF Given, First, Target, Roles
  <1>6. Requested(in) = Target(l) /\ in.operation = "uninstall"
    <2>1. Given(p) \in Scopes \cup {None} BY GivenType
    <2>2. /\ in.operation = Cmd(p).operation
          /\ Requested(in) = IF Given(p) # None THEN Given(p)
                             ELSE IF Cmd(p).exe = "setup" THEN None ELSE Cmd(p).exe
      BY <2>1, StartFacts
    <2> HIDE DEF in
    <2>3. QED BY <1>1, <1>4, <1>5, <2>2, Facts DEF Target
  <1>7. QED
    <2> HIDE DEF in
    <2>1. decide(in, Target(l)) = Target(l) BY <1>4, <1>6, DecideUninstall
    <2>2. QED BY <1>6, <2>1 DEF in

LEMMA Elevates ==
  ASSUME TypeOK, Placed, NEW p \in Processes, Cmd(p) # None, NEW scope \in Scopes
  PROVE  /\ Next0(p, scope) = "elevate" =>
              Role(p) # "elevated" /\ ~(Role(p) = "copy" /\ HasElevated(L(p)))
         /\ Next0(p, scope) = "stage" =>
              Role(p) # "copy" /\ Cmd(p).operation = "uninstall" /\ Cmd(p).exe = scope
         /\ ~HasElevated(L(p)) /\ Role(p) # "elevated" /\ scope = Target(L(p)) =>
              (Next0(p, scope) = "elevate" <=> MustElevate(L(p)))
  <1> DEFINE in == Start(p, Given(p))
  <1>1. Given(p) \in Scopes \cup {None} BY GivenType
  <1>2. in.scopes = Offered /\ in.admin = Elevated(p) BY <1>1, StartFacts
  <1>3. needs_elevation(in, scope) <=>
          scope \in Range(Offered) /\ scope = "machine" /\ ~Elevated(p)
    <2> HIDE DEF in
    <2> QED BY <1>2 DEF needs_elevation, required
  <1>4. ~HasElevated(L(p)) => (Elevated(p) <=> chain[L(p)].admin) BY DEF Elevated
  <1>5. QED
    <2> HIDE DEF in
    <2>1. Next0(p, scope) =
            IF /\ Role(p) # "elevated" /\ ~(Role(p) = "copy" /\ HasElevated(L(p)))
               /\ needs_elevation(in, scope)
            THEN "elevate"
            ELSE IF Cmd(p).operation = "uninstall" /\ Role(p) # "copy" /\ Cmd(p).exe = scope
            THEN "stage" ELSE "engine"
      BY DEF Next0, in
    <2>2. QED BY <1>3, <1>4, <2>1 DEF MustElevate

LEMMA SettledPlaced ==
  ASSUME TypeOK, Placed, NEW p \in Processes, proc[p].pc = "resolve", chain' = chain,
         NEW scope \in Scopes,
         scope = decide(Start(p, Given(p)), Requested(Start(p, Given(p)))),
         Settled(p, scope), Next0(p, scope) \in {"elevate", "stage", "engine"},
         helper' = helper, NEW l \in Launches
  PROVE  AimedAt(l)' /\ BornAt(l)'
  <1>0. /\ L(p) \in Launches /\ SameChains BY ProcessFacts DEF SameChains, TypeOK
  <1>1. CASE l # L(p)
    <2>1. \A r \in Roles : <<l, r>> # p /\ <<l, r>> \in Processes BY <1>0, <1>1, RoleFacts
    <2>2. \A r \in Roles : proc'[<<l, r>>] = proc[<<l, r>>] BY <2>1 DEF Settled
    <2>3. QED BY <1>0, <2>2, OtherChains
  <1>2. CASE l = L(p)
    <2> DEFINE to == Next0(p, scope)
    <2>1. /\ p \in {First(l), Child(l), Copy(l)} /\ Cmd(p) = chain[l].command
          /\ Role(p) \in Roles /\ p = <<l, Role(p)>>
      BY <1>2, ProcessFacts DEF Roles, First, Child, Copy, Cmd
    <2>2. Cmd(p) # None /\ AimedAt(l) /\ BornAt(l) BY DEF Placed, PlacedAt
    <2>3. /\ proc'[p].pc = to /\ proc'[p].scope = scope
          /\ \A r \in Roles : <<l, r>> # p => proc'[<<l, r>>] = proc[<<l, r>>]
      BY <1>2, RoleFacts DEF Settled
    <2>4. chain'[l].command = chain[l].command /\ Target(l)' = Target(l)
          /\ MustElevate(l)' = MustElevate(l)
      BY <1>0 DEF SameChains, Target, MustElevate
    <2>5. Cmd(p).operation = "uninstall" /\ Cmd(p).exe \in Scopes => scope = Target(l)
      BY <1>2, <2>2, ResolvesTarget
    <2>6. /\ to = "elevate" => Role(p) # "elevated" /\ ~(Role(p) = "copy" /\ HasElevated(l))
          /\ to = "stage" =>
               Role(p) # "copy" /\ Cmd(p).operation = "uninstall" /\ Cmd(p).exe = scope
          /\ ~HasElevated(l) /\ Role(p) # "elevated" /\ scope = Target(l) =>
               (to = "elevate" <=> MustElevate(l))
      BY <1>2, <2>2, Elevates
    <2> HIDE DEF to
    <2>7. /\ p = First(l) => proc[Child(l)].pc = "none" /\ proc[Copy(l)].pc = "none"
          /\ p = Child(l) => proc[Copy(l)].pc = "none"
          /\ p = Copy(l) /\ ~HasElevated(l) => ~MustElevate(l)
      BY <2>2 DEF BornAt, HasElevated, Child
    <2>8. to \in {"elevate", "stage", "engine"} BY DEF to
    <2>9. AimedAt(l)'
      <3>1. proc'[Child(l)].pc # "none" => proc'[First(l)].scope \in Scopes
        <4>1. CASE p = First(l) BY <2>3, <4>1
        <4>2. CASE p = Child(l) BY <2>2, <2>3, <4>2, RoleFacts DEF AimedAt, First, Roles
        <4>3. CASE p = Copy(l)
          BY <2>2, <2>3, <4>3, RoleFacts DEF AimedAt, First, Child, Roles
        <4>4. QED BY <2>1, <4>1, <4>2, <4>3
      <3>2. ASSUME chain[l].command # None, chain[l].command.operation = "uninstall",
                   chain[l].command.exe \in Scopes, NEW r \in Roles
            PROVE  proc'[<<l, r>>].scope \in {None, Target(l)}
        <4>1. CASE <<l, r>> = p BY <2>1, <2>3, <2>5, <3>2, <4>1
        <4>2. CASE <<l, r>> # p BY <2>2, <2>3, <3>2, <4>2 DEF AimedAt
        <4>3. QED BY <4>1, <4>2
      <3>3. ASSUME (\E r \in Roles : proc'[<<l, r>>].pc \in {"stage", "linger"})
                   \/ proc'[Copy(l)].pc # "none"
            PROVE  /\ chain[l].command.operation = "uninstall" /\ chain[l].command.exe \in Scopes
                   /\ Target(l) = chain[l].command.exe
        <4>1. CASE to = "stage" BY <2>1, <2>5, <2>6, <4>1
        <4>2. CASE to # "stage" /\ p # Copy(l)
          <5>1. (\E r \in Roles : proc[<<l, r>>].pc \in {"stage", "linger"})
                \/ proc[Copy(l)].pc # "none"
            BY <2>3, <2>8, <3>3, <4>2 DEF Copy, Roles
          <5>2. QED BY <2>2, <5>1 DEF AimedAt
        <4>3. CASE p = Copy(l) BY <2>2, <4>3 DEF AimedAt
        <4>4. QED BY <4>1, <4>2, <4>3
      <3>4. QED BY <2>4, <3>1, <3>2, <3>3 DEF AimedAt
    <2>10. BornAt(l)'
      <3>0. /\ to \notin {"wait", "linger", "over", "killed", "none"}
            /\ First(l) # Child(l) /\ First(l) # Copy(l) /\ Child(l) # Copy(l)
            /\ Role(First(l)) = "first" /\ Role(Child(l)) = "elevated" /\ Role(Copy(l)) = "copy"
        BY <2>8, RoleFacts
      <3>1. CASE p = First(l)
        <4>1. proc'[Child(l)] = proc[Child(l)] /\ proc'[Copy(l)] = proc[Copy(l)]
          BY <2>3, <3>1, RoleFacts DEF Child, Copy, Roles
        <4>2. to = "stage" => ~MustElevate(l)
          BY <2>1, <2>5, <2>6, <2>7, <3>0, <3>1 DEF HasElevated, Child
        <4>3. QED BY <2>2, <2>3, <2>4, <2>7, <3>1, <4>1, <4>2 DEF BornAt
      <3>2. CASE p = Child(l)
        <4>1. proc'[First(l)] = proc[First(l)] /\ proc'[Copy(l)] = proc[Copy(l)]
          BY <2>3, <3>0, <3>2, RoleFacts DEF First, Copy, Roles
        <4>2. to \in {"stage", "engine"} BY <2>6, <2>8, <3>0, <3>2
        <4>3. QED BY <2>2, <2>3, <2>4, <2>7, <3>2, <4>1, <4>2 DEF BornAt
      <3>3. CASE p = Copy(l)
        <4>1. proc'[First(l)] = proc[First(l)] /\ proc'[Child(l)] = proc[Child(l)]
          BY <2>3, <3>0, <3>3, RoleFacts DEF First, Child, Roles
        <4>2. chain[l].command.operation = "uninstall" /\ chain[l].command.exe \in Scopes
          BY <2>2, <3>3 DEF AimedAt
        <4>3. to = "engine" BY <2>1, <2>5, <2>6, <2>7, <2>8, <3>0, <3>3, <4>2
        <4>4. QED BY <2>2, <2>3, <2>4, <3>3, <4>1, <4>3 DEF BornAt
      <3>4. QED BY <2>1, <3>1, <3>2, <3>3
    <2>11. QED BY <2>9, <2>10
  <1>3. QED BY <1>1, <1>2

\* What is not of the outcome of an uninstall is not Gone.
LEMMA GoneFacts == ~Gone(None) /\ \A o : Gone(o) => o \in Outcomes
  BY Facts DEF Gone, Outcomes

\* A process a step does not take is where it was, or is started.
LEMMA Untouched ==
  ASSUME TypeOK, Placed, Preceded, NEW p \in Processes, Step(p), NEW q \in Processes, q # p
  PROVE  \/ proc'[q] = proc[q]
         \/ /\ L(q) = L(p) /\ Cmd(p) # None /\ proc[q] = NoProcess
            /\ proc'[q].pc = "resolve" /\ proc'[q].scope = None /\ proc'[q].tree = "none"
            /\ proc'[q].outcome = None
  <1>1. CASE Calm(p) BY <1>1 DEF Calm, Fields
  <1>2. CASE \E scope \in Scopes : Settled(p, scope) BY <1>2 DEF Settled
  <1>3. Relaunch(p) \/ Stage(p) => Cmd(p) # None BY DEF Relaunch, Stage, Placed, PlacedAt
  <1>4. CASE Relaunch(p)
    <2>1. Launched(p, Child(L(p)), "wait") /\ proc[Child(L(p))] = NoProcess
      BY <1>4, RelaunchLeads
    <2>2. L(Child(L(p))) = L(p) BY ProcessFacts, RoleFacts
    <2>3. QED BY <1>3, <1>4, <2>1, <2>2, NoProcessFacts DEF Launched
  <1>5. CASE Stage(p)
    <2>1. Launched(p, Copy(L(p)), "linger") /\ proc[Copy(L(p))] = NoProcess
      BY <1>5, StageLeads
    <2>2. L(Copy(L(p))) = L(p) BY ProcessFacts, RoleFacts
    <2>3. QED BY <1>3, <1>5, <2>1, <2>2, NoProcessFacts DEF Launched
  <1>6. QED BY <1>1, <1>2, <1>4, <1>5, CalmSteps

LEMMA PlacedOthers ==
  ASSUME TypeOK, Placed, Preceded, NEW p \in Processes, Step(p), NEW q \in Processes, q # p
  PROVE  PlacedAt(q)'
  <1>1. PlacedAt(q) /\ L(q) \in Launches BY ProcessFacts DEF Placed
  <1>2. Cmd(q)' = Cmd(q) /\ Cmd(p)' = Cmd(p)
    BY <1>1, ChainType, ProcessFacts DEF SameChains, Cmd
  <1>3. CASE proc'[q] = proc[q]
    <2>1. Scope(q)' = Scope(q) /\ Alive(q)' = Alive(q) BY <1>3 DEF Scope, Alive
    <2>2. proc[q].pc \in Locked => lock'[Scope(q)] = q
      <3>1. proc[q].pc \in Locked => Scope(q) \in Scopes /\ lock[Scope(q)] = q
        BY <1>1 DEF PlacedAt, Alive, Locked
      <3>2. QED BY <3>1, LockLeads, Facts
    <2>3. QED BY <1>1, <1>2, <1>3, <2>1, <2>2 DEF PlacedAt
  <1>4. CASE /\ L(q) = L(p) /\ Cmd(p) # None /\ proc[q] = NoProcess
             /\ proc'[q].pc = "resolve" /\ proc'[q].scope = None /\ proc'[q].tree = "none"
             /\ proc'[q].outcome = None
    <2>1. Cmd(q)' # None BY <1>2, <1>4 DEF Cmd
    <2>2. ~Gone(proc'[q].outcome) BY <1>4, GoneFacts
    <2>3. QED BY <1>4, <2>1, <2>2 DEF PlacedAt, Locked
  <1>5. QED BY <1>3, <1>4, Untouched

\* The lock from step to step of the engine.
LEMMA InnerLock ==
  ASSUME TypeOK, Placed, NEW p \in Processes, Inner(p)
  PROVE  /\ proc[p].pc = "open" =>
              \/ Open(p) /\ lock'[Scope(p)] = p
              \/ Busy(p) /\ lock' = lock /\ proc'[p].pc = "finish"
         /\ proc[p].pc = "drop" => Drop(p) /\ lock'[Scope(p)] = None
         /\ proc[p].pc \notin {"open", "drop"} => lock' = lock
  <1>1. CASE Open(p)
    <2>1. proc[p].pc = "open" /\ lock' = [lock EXCEPT ![Scope(p)] = p] BY <1>1 DEF Open
    <2>2. Scope(p) \in Scopes BY <2>1 DEF Placed, PlacedAt, Alive
    <2>3. QED BY <1>1, <2>1, <2>2 DEF TypeOK
  <1>2. CASE Busy(p)
    <2>1. Ending(p, "finish") /\ proc[p].pc = "open" /\ lock' = lock
      <3>1. "database_busy" \in Outcomes BY DEF Outcomes
      <3>2. QED BY <1>2, <3>1, FailsAt DEF Busy
    <2>2. QED BY <1>2, <2>1 DEF Ending, Fields
  <1>3. CASE Drop(p)
    <2>1. proc[p].pc = "drop" /\ lock' = [lock EXCEPT ![Scope(p)] = None] BY <1>3 DEF Drop
    <2>2. Scope(p) \in Scopes BY <2>1 DEF Placed, PlacedAt, Alive
    <2>3. QED BY <1>3, <2>1, <2>2 DEF TypeOK
  <1>4. CASE /\ proc[p].pc \notin {"open", "drop"} /\ lock' = lock BY <1>4
  <1>5. QED
    BY <1>1, <1>2, <1>3, <1>4 DEF Inner, HoldsPolicy, Recover, Dependencies, Migrate, Migrated, Plan,
       Write, Begin, Commit, RollBack, MoveAside, RemoveState

LEMMA PlacedInner ==
  ASSUME TypeOK, Placed, Preceded, NEW p \in Processes, Inner(p)
  PROVE  PlacedAt(p)'
  <1>1. /\ Scope(p) \in Scopes /\ Cmd(p) # None /\ PlacedAt(p) /\ proc[p].pc \in Inside
    <2>1. proc[p].pc \in Inside BY InnerFrom
    <2>2. Alive(p) /\ proc[p].pc # "resolve" BY <2>1 DEF Alive, Inside
    <2>3. QED BY <2>1, <2>2, InScope DEF Placed
  <1>2. Cmd(p)' = Cmd(p)
    <2>1. Step(p) BY DEF Step, Inner
    <2>2. QED BY <2>1, ChainType, ProcessFacts DEF SameChains, Cmd
  <1>3. /\ proc[p].pc = "open" => lock'[Scope(p)] = p \/ proc'[p].pc = "finish"
        /\ proc[p].pc \notin {"open", "drop"} => lock' = lock
    BY InnerLock
  <1>4. proc[p].pc \in Locked => lock[Scope(p)] = p BY <1>1 DEF PlacedAt
  <1>5. Scope(p)' = Scope(p) /\ proc'[p].scope = proc[p].scope /\ proc'[p].pc \in Inside
    <2>1. Calm(p) /\ proc'[p].pc \in Inside BY InnerCalm
    <2>2. QED BY <2>1 DEF Calm, Fields, Scope
  <1>6. CASE Passes(p)
    <2>1. proc'[p].outcome = proc[p].outcome BY <1>6 DEF Passes, On, Fields
    <2>2. /\ proc'[p].pc \in Locked => lock'[Scope(p)] = p
          /\ proc'[p].pc \in {"policy", "dependencies", "legacy", "verdict"} =>
               Cmd(p).operation = "install"
          /\ proc'[p].pc = "open" => proc'[p].early \/ Cmd(p).operation = "install"
          /\ proc'[p].pc \in {"drop", "aside", "remove", "finish"} =>
               proc[p].pc \in {"drop", "aside", "remove"}
          /\ proc'[p].pc \in {"aside", "remove"} => Gone(proc[p].outcome)
          /\ proc[p].pc \in {"drop", "aside", "remove", "finish"} =>
               proc'[p].pc \in {"drop", "aside", "remove", "finish"}
      BY <1>1, <1>3, <1>4, <1>6 DEF Passes, On, Fields, Locked, Held, PlacedAt
    <2>3. QED BY <1>1, <1>2, <1>5, <2>1, <2>2 DEF PlacedAt, Inside
  <1>7. CASE Gives(p)
    <2>1. /\ proc'[p].outcome \in Outcomes /\ proc'[p].pc \in {"drop", "finish"}
          /\ proc'[p].pc = "drop" => proc[p].pc = "recover" \/ Held(p)
          /\ proc[p].pc \notin {"open", "drop"} \/ proc'[p].pc = "finish"
      BY <1>7 DEF Gives, Left, Ending, Fields, Commit
    <2>2. proc'[p].pc = "drop" => lock'[Scope(p)] = p BY <1>3, <1>4, <2>1 DEF Held, Locked
    <2>3. QED BY <1>1, <1>2, <1>5, <2>1, <2>2 DEF PlacedAt, Inside, Locked
  <1>8. QED BY <1>6, <1>7, InnerLeads

LEMMA PlacedRun ==
  ASSUME TypeOK, Placed, Preceded, NEW p \in Processes, Run(p)
  PROVE  PlacedAt(p)'
  <1>1. proc[p].pc = "engine" /\ Scope(p) \in Scopes /\ Cmd(p) # None /\ ~Gone(proc[p].outcome)
    <2>1. proc[p].pc = "engine" BY DEF Run
    <2>2. QED BY <2>1, InScope DEF Alive, Placed, PlacedAt
  <1>2. Cmd(p)' = Cmd(p)
    <2>1. Step(p) BY DEF Step
    <2>2. QED BY <2>1, ChainType, ProcessFacts DEF SameChains, Cmd
  <1>3. CASE Ending(p, "finish") /\ ~Gone(proc'[p].outcome)
    BY <1>1, <1>2, <1>3 DEF PlacedAt, Ending, Fields, Scope, Locked
  <1>4. CASE On(p, "policy") /\ Cmd(p).operation = "install"
    BY <1>1, <1>2, <1>4 DEF PlacedAt, On, Fields, Scope, Locked
  <1>5. CASE On(p, "open") /\ proc'[p].early
    BY <1>1, <1>2, <1>5 DEF PlacedAt, On, Fields, Scope, Locked
  <1>6. QED BY <1>1, <1>3, <1>4, <1>5, RunLeads

\* A process that is over is in no place.
LEMMA PlacedOver ==
  ASSUME TypeOK, Placed, Preceded, NEW p \in Processes, Step(p), proc[p].pc # "none",
         proc'[p].pc \in {"over", "killed"}
  PROVE  PlacedAt(p)'
  <1>1. Cmd(p)' # None BY ChainType, ProcessFacts DEF SameChains, Cmd, Placed, PlacedAt
  <1>2. QED BY <1>1 DEF PlacedAt, Alive, Locked

LEMMA PlacedStep ==
  ASSUME TypeOK, Placed, Preceded, NEW p \in Processes, Step(p)
  PROVE  PlacedAt(p)'
  <1>0. Cmd(p)' = Cmd(p) BY ChainType, ProcessFacts DEF SameChains, Cmd
  <1>1. CASE Inner(p) BY <1>1, PlacedInner
  <1>2. CASE Run(p) BY <1>2, PlacedRun
  <1>3. CASE Closes(p) BY <1>3, PlacedOver DEF Closes, Fields
  <1>4. ASSUME NEW scope \in Scopes, Resolve(p), Settled(p, scope),
               Next0(p, scope) \in {"elevate", "stage", "engine"}
        PROVE  PlacedAt(p)'
    <2>1. Cmd(p) # None /\ ~Gone(proc[p].outcome) BY <1>4 DEF Resolve, Placed, PlacedAt
    <2>2. QED BY <1>0, <1>4, <2>1 DEF Settled, PlacedAt, Alive, Locked, Scope
  <1>5. CASE Relaunch(p) \/ Stage(p)
    <2>1. /\ proc'[p].pc \in {"wait", "linger"} /\ proc'[p].scope = proc[p].scope
          /\ proc'[p].outcome = proc[p].outcome
      BY <1>5, RelaunchLeads, StageLeads DEF Launched
    <2>2. Cmd(p) # None /\ Scope(p) \in Scopes /\ ~Gone(proc[p].outcome)
      <3>1. proc[p].pc \in {"elevate", "stage"} BY <1>5 DEF Relaunch, Stage
      <3>2. QED BY <3>1, InScope DEF Alive, Placed, PlacedAt
    <2>3. QED BY <1>0, <2>1, <2>2 DEF PlacedAt, Locked, Scope
  <1>6. CASE Uninstaller(p)
    <2>1. /\ proc'[p].pc = proc[p].pc /\ proc'[p].outcome = proc[p].outcome
          /\ proc'[p].scope = proc[p].scope /\ proc'[p].early = proc[p].early
          /\ proc[p].tree = "running"
      BY <1>6, UninstallerLeads DEF Fields
    <2>2. proc[p].pc \in {"verdict", "drop", "aside", "remove", "finish", "over", "killed"}
      BY <2>1 DEF Preceded, PrecededAt
    <2>3. lock' = lock BY <1>6 DEF Uninstaller
    <2>4. PlacedAt(p) BY DEF Placed
    <2>5. QED BY <1>0, <2>1, <2>2, <2>3, <2>4 DEF PlacedAt, Alive, Scope
  <1>7. QED BY <1>1, <1>2, <1>3, <1>4, <1>5, <1>6, StepKinds

LEMMA HolderStays ==
  ASSUME TypeOK, Placed, Preceded, NEW p \in Processes, Step(p), ~Drop(p), ~Kill(p),
         Scope(p) \in Scopes, lock[Scope(p)] = p
  PROVE  proc'[p].scope = proc[p].scope
         /\ proc'[p].pc \in Locked \cup {"dependencies", "legacy", "verdict"}
  <1>1. proc[p].pc \in Locked \cup {"dependencies", "legacy", "verdict"}
    BY Facts DEF Placed, LockedAt
  <1>2. Inner(p) \/ Uninstaller(p)
    BY <1>1, StepCases DEF Locked, Resolve, Relaunch, Refused, Collect, Stage, StageFails, Copied,
       Run, Finish
  <1>3. CASE Uninstaller(p) BY <1>1, <1>3, UninstallerLeads DEF Fields
  <1>4. CASE Inner(p)
    <2>1. Calm(p) BY <1>4, InnerCalm
    <2>2. proc[p].pc # "drop" BY <1>4, InnerLock
    <2>3. Held(p) BY DEF Held
    <2>4. proc'[p].pc \in Locked \cup {"dependencies", "legacy", "verdict"}
      <3>1. CASE Passes(p) BY <1>1, <2>2, <2>3, <3>1 DEF Passes, On, Fields, Locked
      <3>2. CASE Gives(p)
        BY <1>1, <2>2, <2>3, <3>2 DEF Gives, Left, Ending, Fields, Locked, Commit
      <3>3. QED BY <1>4, <3>1, <3>2, InnerLeads
    <2>5. QED BY <2>1, <2>4 DEF Calm, Fields
  <1>5. QED BY <1>2, <1>3, <1>4

LEMMA LockedStep ==
  ASSUME TypeOK, Placed, Preceded, NEW p \in Processes, Step(p), NEW s \in Scopes
  PROVE  LockedAt(s)'
  <1> SUFFICES ASSUME lock'[s] # None
               PROVE  /\ state'[s].db # None
                      /\ proc'[lock'[s]].scope = s
                      /\ proc'[lock'[s]].pc \in Locked \cup {"dependencies", "legacy", "verdict"}
    BY DEF LockedAt, Scope
  <1>1. CASE /\ lock'[s] = lock[s] /\ ~(Open(p) /\ Scope(p) = s)
             /\ ~((Drop(p) \/ Kill(p)) /\ lock[s] = p)
    <2> DEFINE q == lock[s]
    <2>1. /\ q \in Processes /\ state[s].db # None /\ proc[q].scope = s
          /\ proc[q].pc \in Locked \cup {"dependencies", "legacy", "verdict"}
      BY <1>1 DEF TypeOK, Placed, LockedAt, Scope
    <2>2. state'[s].db # None BY <1>1, <2>1, DbKept
    <2>3. CASE q # p
      <3>1. proc'[q] = proc[q] BY <2>1, <2>3, Untouched, NoProcessFacts DEF Locked
      <3>2. QED BY <1>1, <2>1, <2>2, <3>1
    <2>4. CASE q = p BY <1>1, <2>1, <2>2, <2>4, HolderStays DEF Scope
    <2>5. QED BY <2>3, <2>4
  <1>2. CASE Open(p) /\ Scope(p) = s /\ lock[s] = None /\ lock'[s] = p
    <2>1. state'[s].db # None
      <3>1. <<>> \in Seq(Transactions) OBVIOUS
      <3>2. Database(FALSE, <<>>) # None BY <3>1, DatabaseType
      <3>3. QED BY <1>2, <3>2, OpenPuts DEF Puts
    <2>2. Goes(p, IF proc[p].early THEN "recover" ELSE "plan") BY <1>2 DEF Open
    <2>3. proc'[p].pc \in {"recover", "plan"} /\ proc'[p].scope = proc[p].scope
      BY <2>2, AllPlaces, GoesTo DEF Fields
    <2>4. QED BY <1>2, <2>1, <2>3 DEF Scope, Locked
  <1>3. QED BY <1>1, <1>2, LockLeads

LEMMA PlacedByStep ==
  ASSUME TypeOK, Placed, Preceded, NEW p \in Processes, Step(p)
  PROVE  Placed'
  <1>0. SameChains BY ChainType
  <1>1. \A q \in Processes : PlacedAt(q)' BY PlacedStep, PlacedOthers
  <1>2. \A s \in Scopes : LockedAt(s)' BY LockedStep
  <1>3. ASSUME NEW l \in Launches PROVE AimedAt(l)' /\ BornAt(l)'
    <2>1. CASE Calm(p)
      <3>1. helper'[l] # "none" => helper[l] # "none" \/ proc'[Copy(l)].pc \in {"over", "killed"}
        BY HelperLeads
      <3>2. QED BY <1>0, <2>1, <3>1, CalmPlaced
    <2>2. CASE Relaunch(p) BY <2>2, RelaunchPlaced
    <2>3. CASE Stage(p) BY <2>3, StagePlaced
    <2>4. ASSUME Resolve(p), chain' = chain, NEW scope \in Scopes,
                 scope = decide(Start(p, Given(p)), Requested(Start(p, Given(p)))),
                 Settled(p, scope), Next0(p, scope) \in {"elevate", "stage", "engine"}
          PROVE  AimedAt(l)' /\ BornAt(l)'
      BY <2>4, SettledPlaced DEF Resolve
    <2>5. QED BY <2>1, <2>2, <2>3, <2>4, CalmSteps
  <1>4. QED BY <1>1, <1>2, <1>3 DEF Placed

LEMMA LegacyShrinks ==
  ASSUME TypeOK, NEW p \in Processes, Step(p)
  PROVE  legacy' \subseteq legacy
  BY DEF Step, Resolve, Relaunch, Refused, Collect, Stage, StageFails, Copied, HoldsPolicy, Busy,
     Dependencies, Migrate, Uninstaller, Migrated, Plan, Run, Recover, Write, Begin,
     Commit, RollBack, MoveAside, RemoveState, Drop, Kill, Open, Finish

LEMMA PrecededInner ==
  ASSUME TypeOK, Placed, Preceded, NEW p \in Processes, Inner(p)
  PROVE  PrecededAt(p)'
  <1>1. Step(p) BY DEF Step, Inner
  <1>2. Cmd(p)' = Cmd(p) /\ legacy' \subseteq legacy
    BY <1>1, LegacyShrinks, ChainType, ProcessFacts DEF SameChains, Cmd
  <1>3. Scope(p)' = Scope(p) /\ PrecededAt(p) BY InnerCalm DEF Calm, Fields, Scope, Preceded
  <1>4. CASE Passes(p)
    <2>1. proc'[p].tree = "running" => proc'[p].pc \in {"verdict", "drop", "aside", "remove", "finish"}
      BY <1>3, <1>4 DEF Passes, On, Fields, PrecededAt
    <2>2. Decided(p)' /\ Cmd(p).operation = "install" => Decided(p) \/ Scope(p) \notin legacy
      BY <1>4 DEF Passes, On, Fields, Decided
    <2>3. QED BY <1>2, <1>3, <2>1, <2>2 DEF PrecededAt
  <1>5. CASE Gives(p)
    <2>1. proc'[p].pc \in {"drop", "finish"} BY <1>5 DEF Gives, Left, Ending, Fields
    <2>2. QED BY <2>1 DEF PrecededAt, Decided
  <1>6. QED BY <1>4, <1>5, InnerLeads

LEMMA PrecededStep ==
  ASSUME TypeOK, Placed, Preceded, NEW p \in Processes, Step(p)
  PROVE  Preceded'
  <1>0. legacy' \subseteq legacy /\ SameChains BY LegacyShrinks, ChainType
  <1>1. ASSUME NEW q \in Processes, q # p PROVE PrecededAt(q)'
    <2>1. CASE proc'[q] = proc[q]
      <3>1. Cmd(q)' = Cmd(q) /\ Scope(q)' = Scope(q) /\ Decided(q)' = Decided(q)
        BY <1>0, <2>1, ProcessFacts DEF SameChains, Cmd, Scope, Decided
      <3>2. QED BY <1>0, <2>1, <3>1 DEF Preceded, PrecededAt
    <2>2. CASE proc'[q].pc = "resolve" /\ proc'[q].tree = "none"
      BY <2>2 DEF PrecededAt, Decided
    <2>3. QED BY <1>1, <2>1, <2>2, Untouched
  <1>2. PrecededAt(p)'
    <2>0. PrecededAt(p) BY DEF Preceded
    <2>1. CASE Inner(p) BY <2>1, PrecededInner
    <2>2. CASE Run(p)
      <3>1. proc[p].pc = "engine" /\ Cmd(p) # None BY <2>2 DEF Run, Placed, PlacedAt
      <3>2. /\ proc'[p].tree = proc[p].tree
            /\ \/ proc'[p].pc \in {"finish", "policy"}
               \/ proc'[p].pc = "open" /\ proc'[p].early
        BY <2>2, <3>1, RunLeads DEF On, Ending, Fields
      <3>3. QED BY <2>0, <3>1, <3>2 DEF PrecededAt, Decided
    <2>3. CASE Uninstaller(p)
      <3>1. proc[p].tree = "running" /\ proc'[p].pc = proc[p].pc
        BY <2>3, UninstallerLeads DEF Fields
      <3>2. QED BY <2>0, <3>1 DEF PrecededAt, Decided
    <2>4. CASE Closes(p) BY <2>4 DEF Closes, Fields, PrecededAt, Decided
    <2>5. CASE Relaunch(p) \/ Stage(p)
      <3>1. proc[p].pc \in {"elevate", "stage"} BY <2>5 DEF Relaunch, Stage
      <3>2. proc'[p].tree = proc[p].tree /\ proc'[p].pc \in {"wait", "linger"}
        BY <2>5, RelaunchLeads, StageLeads DEF Launched
      <3>3. QED BY <2>0, <3>1, <3>2 DEF PrecededAt, Decided
    <2>6. ASSUME NEW scope \in Scopes, Resolve(p), Settled(p, scope),
                 Next0(p, scope) \in {"elevate", "stage", "engine"}
          PROVE  PrecededAt(p)'
      <3>1. proc[p].pc = "resolve" BY <2>6 DEF Resolve
      <3>2. QED BY <2>0, <2>6, <3>1 DEF Settled, PrecededAt, Decided
    <2>7. QED BY <2>1, <2>2, <2>3, <2>4, <2>5, <2>6, StepKinds
  <1>3. QED BY <1>1, <1>2 DEF Preceded

\* A chain that begins had no processes.
LEMMA BeginsPlaced ==
  ASSUME TypeOK, Placed, Preceded, NEW l \in Launches, Begins(l)
  PROVE  Placed' /\ Preceded'
  <1>1. /\ proc[First(l)].pc = "none" /\ chain[l].command = None
        /\ Fields(First(l), "resolve", proc[First(l)].outcome)
        /\ proc'[First(l)].tree = proc[First(l)].tree
        /\ UNCHANGED <<state, lock, temp, result, helper, legacy, history>>
    BY BeginsLeads
  <1>2. PICK c \in Commands : chain'[l].command = c /\ \A k \in Launches : k # l => chain'[k] = chain[k]
    BY BeginsLeads
  <1>3. First(l) \in Processes /\ L(First(l)) = l /\ proc[First(l)] = NoProcess
    BY <1>1, RoleFacts DEF Placed, PlacedAt
  <1>4. /\ proc'[First(l)].pc = "resolve" /\ proc'[First(l)].scope = None
        /\ proc'[First(l)].tree = "none" /\ proc'[First(l)].outcome = None
        /\ \A q \in Processes : q # First(l) => proc'[q] = proc[q]
    BY <1>1, <1>3, NoProcessFacts DEF Fields
  <1>5. \A q \in Processes : proc[q].pc # "none" => L(q) # l /\ Cmd(q)' = Cmd(q)
    BY <1>1, <1>2, ProcessFacts DEF Placed, PlacedAt, Cmd
  <1>6. c # None BY Facts
  <1>7. ASSUME NEW q \in Processes PROVE PlacedAt(q)' /\ PrecededAt(q)'
    <2>1. CASE q = First(l)
      BY <1>2, <1>3, <1>4, <1>6, <2>1, GoneFacts DEF PlacedAt, PrecededAt, Decided, Locked, Cmd
    <2>2. CASE q # First(l) /\ proc[q].pc # "none"
      <3>1. proc'[q] = proc[q] /\ Cmd(q)' = Cmd(q) BY <1>4, <1>5, <2>2
      <3>2. Scope(q)' = Scope(q) /\ Alive(q)' = Alive(q) /\ Decided(q)' = Decided(q)
        BY <3>1 DEF Scope, Alive, Decided
      <3>3. PlacedAt(q) /\ PrecededAt(q) /\ lock' = lock /\ legacy' = legacy
        BY <1>1 DEF Placed, Preceded
      <3>4. PlacedAt(q)' BY <3>1, <3>2, <3>3 DEF PlacedAt
      <3>5. QED BY <3>1, <3>2, <3>3, <3>4 DEF PrecededAt
    <2>3. CASE q # First(l) /\ proc[q].pc = "none"
      <3>1. proc'[q] = NoProcess BY <1>4, <2>3 DEF Placed, PlacedAt
      <3>2. QED
        BY <3>1, NoProcessFacts, GoneFacts DEF PlacedAt, PrecededAt, Decided, Locked, Alive
    <2>4. QED BY <2>1, <2>2, <2>3
  <1>8. ASSUME NEW s \in Scopes PROVE LockedAt(s)'
    <2>1. LockedAt(s) /\ lock' = lock /\ state' = state BY <1>1 DEF Placed
    <2>2. lock[s] # None => lock[s] \in Processes /\ proc[lock[s]].pc # "none"
      BY <2>1 DEF LockedAt, TypeOK, Locked
    <2>3. lock[s] # None => proc'[lock[s]] = proc[lock[s]] BY <1>1, <1>4, <2>2
    <2>4. QED BY <2>1, <2>3 DEF LockedAt, Scope
  <1>9. ASSUME NEW k \in Launches PROVE AimedAt(k)' /\ BornAt(k)'
    <2>1. CASE k # l
      <3>1. /\ chain'[k] = chain[k] /\ helper' = helper /\ AimedAt(k) /\ BornAt(k)
        BY <1>1, <1>2, <2>1 DEF Placed
      <3>2. \A r \in Roles : proc'[<<k, r>>] = proc[<<k, r>>] BY <1>3, <1>4, <2>1, RoleFacts
      <3>3. /\ proc'[First(k)] = proc[First(k)] /\ proc'[Child(k)] = proc[Child(k)]
            /\ proc'[Copy(k)] = proc[Copy(k)]
        BY <3>2 DEF First, Child, Copy, Roles
      <3>4. Target(k)' = Target(k) /\ MustElevate(k)' = MustElevate(k)
        BY <3>1 DEF Target, MustElevate
      <3>5. AimedAt(k)' BY <3>1, <3>2, <3>3, <3>4 DEF AimedAt
      <3>6. QED BY <3>1, <3>3, <3>4, <3>5 DEF BornAt
    <2>2. CASE k = l
      <3>1. \A q \in Processes : L(q) = l => proc[q] = NoProcess
        BY <1>5 DEF Placed, PlacedAt
      <3>2. \A r \in Roles : <<l, r>> # First(l) => proc'[<<l, r>>] = NoProcess
        BY <1>4, <3>1, RoleFacts
      <3>3. /\ proc'[Child(l)].pc = "none" /\ proc'[Copy(l)].pc = "none"
            /\ proc[Copy(l)].pc = "none"
        BY <3>1, <3>2, RoleFacts, NoProcessFacts DEF Child, Copy, Roles
      <3>4. \A r \in Roles : proc'[<<l, r>>].scope = None /\ proc'[<<l, r>>].pc \in {"none", "resolve"}
        BY <1>4, <3>2, NoProcessFacts
      <3>5. helper'[l] = "none" BY <1>1, <3>3 DEF Placed, BornAt
      <3>6. AimedAt(l)' BY <3>3, <3>4 DEF AimedAt
      <3>7. BornAt(l)' BY <1>4, <3>3, <3>5 DEF BornAt
      <3>8. QED BY <2>2, <3>6, <3>7
    <2>3. QED BY <2>1, <2>2
  <1>10. QED BY <1>7, <1>8, <1>9 DEF Placed, Preceded

LEMMA HelpPlaced ==
  ASSUME TypeOK, Placed, Preceded, NEW l \in Launches, Helps(l)
  PROVE  Placed' /\ Preceded'
  <1>1. /\ proc' = proc /\ chain' = chain /\ lock' = lock /\ legacy' = legacy
        /\ \A k \in Launches : k # l => helper'[k] = helper[k]
        /\ helper'[l] \in {helper[l], "done", "ended"}
    BY HelpPuts
  <1>2. helper[l] # "none" BY DEF Helps, Help, GivesUp
  <1>3. \A s \in Scopes : state'[s].db = state[s].db BY HelpPuts DEF Still, Puts
  <1>4. \A q \in Processes : PlacedAt(q)' /\ PrecededAt(q)'
    BY <1>1 DEF Placed, Preceded, PlacedAt, PrecededAt, Cmd, Scope, Alive, Decided
  <1>5. \A s \in Scopes : LockedAt(s)' BY <1>1, <1>3 DEF Placed, LockedAt, Scope
  <1>6. ASSUME NEW k \in Launches PROVE AimedAt(k)' /\ BornAt(k)'
    <2>1. AimedAt(k) /\ BornAt(k) /\ (helper'[k] # "none" => helper[k] # "none")
      BY <1>1, <1>2 DEF Placed
    <2>2. Target(k)' = Target(k) /\ MustElevate(k)' = MustElevate(k)
      BY <1>1 DEF Target, MustElevate
    <2>3. QED BY <1>1, <2>1, <2>2 DEF AimedAt, BornAt
  <1>7. QED BY <1>4, <1>5, <1>6 DEF Placed, Preceded

LEMMA InitPlaced == Init => Placed /\ Preceded
  <1> SUFFICES ASSUME Init PROVE Placed /\ Preceded OBVIOUS
  <1>1. /\ \A p \in Processes : proc[p] = NoProcess
        /\ \A l \in Launches : helper[l] = "none" /\ chain[l].command = None
        /\ \A s \in Scopes : lock[s] = None
    BY DEF Init
  <1>2. \A p \in Processes : PlacedAt(p) /\ PrecededAt(p)
    BY <1>1, NoProcessFacts, GoneFacts DEF PlacedAt, PrecededAt, Locked, Alive, Decided
  <1>3. \A l \in Launches : AimedAt(l) /\ BornAt(l)
    <2> TAKE l \in Launches
    <2>1. \A r \in Roles : proc[<<l, r>>].pc = "none" BY <1>1, RoleFacts, NoProcessFacts
    <2>2. proc[First(l)].pc = "none" /\ proc[Child(l)].pc = "none" /\ proc[Copy(l)].pc = "none"
      BY <2>1 DEF First, Child, Copy, Roles
    <2>3. QED BY <1>1, <2>1, <2>2 DEF AimedAt, BornAt
  <1>4. QED BY <1>1, <1>2, <1>3 DEF Placed, Preceded, LockedAt

\* The types, and where the processes are, with their predecessors gone.
PlacedInv == TypeOK /\ Placed /\ Preceded

LEMMA PlacedAlways == Spec => []PlacedInv
  <1>1. Init => PlacedInv BY InitTypes, InitPlaced DEF PlacedInv
  <1>2. PlacedInv /\ [Next]_vars => PlacedInv'
    <2> SUFFICES ASSUME TypeOK, Placed, Preceded, [Next]_vars PROVE PlacedInv'
      BY DEF PlacedInv
    <2>1. TypeOK' BY NextTypes
    <2>2. Placed' /\ Preceded'
      <3>1. CASE UNCHANGED vars
        BY <3>1 DEF vars, Placed, Preceded, PlacedAt, PrecededAt, LockedAt, AimedAt, BornAt,
           Cmd, Scope, Alive, Decided, Target, MustElevate
      <3>2. ASSUME NEW p \in Processes, Step(p) PROVE Placed' /\ Preceded'
        BY <3>2, PlacedByStep, PrecededStep
      <3>3. ASSUME NEW l \in Launches, Begins(l) PROVE Placed' /\ Preceded'
        BY <3>3, BeginsPlaced
      <3>4. ASSUME NEW l \in Launches, Helps(l) PROVE Placed' /\ Preceded'
        BY <3>4, HelpPlaced
      <3>5. QED BY <3>1, <3>2, <3>3, <3>4 DEF Next, Helps
    <2>3. QED BY <2>1, <2>2 DEF PlacedInv
  <1>3. QED BY <1>1, <1>2, PTL DEF Spec

\* Every variable has the type the code gives it, whoever starts, is killed
\* or finds the database busy.
THEOREM TypeCorrect == Spec => []TypeOK
  BY PlacedAlways, PTL DEF PlacedInv

\* The product is never installed over a predecessor that is still there.
THEOREM PredecessorFirst == Spec => []LegacyFirst
  <1>1. PlacedInv => LegacyFirst
    BY DEF PlacedInv, Preceded, PrecededAt, LegacyFirst, Decided
  <1>2. QED BY <1>1, PlacedAlways, PTL

----------------------------------------------------------------------------
(* The uninstaller, from step to step.                                     *)

\* What a step does to the databases and uninstallers: at most the
\* directory of the scope it is about changes.
LEMMA StateLeads ==
  ASSUME TypeOK, Placed, NEW p \in Processes, Step(p)
  PROVE  \/ Still
         \/ /\ Open(p) /\ Scope(p) \in Scopes
            /\ Puts(Scope(p), IF Here(p).db = None THEN Database(FALSE, <<>>) ELSE Here(p).db,
                    Here(p).uninstaller)
         \/ Records(p) /\ Scope(p) \in Scopes /\ lock[Scope(p)] = p
         \/ /\ Write(p) /\ Goes(p, "begin") /\ Scope(p) \in Scopes /\ lock[Scope(p)] = p
            /\ Puts(Scope(p), Here(p).db, TRUE)
         \/ /\ MoveAside(p) \/ RemoveState(p)
            /\ Scope(p) \in Scopes
            /\ \E db \in {None, Here(p).db}, u \in BOOLEAN : Puts(Scope(p), db, u)
  <1>1. CASE state' = state BY <1>1, StillAt
  <1>2. ASSUME \/ Run(p) \/ Open(p) \/ Recover(p) \/ Write(p) \/ Begin(p) \/ Commit(p)
               \/ RollBack(p) \/ MoveAside(p) \/ RemoveState(p)
        PROVE  Scope(p) \in Scopes
    <2>1. Alive(p) /\ proc[p].pc # "resolve"
      BY <1>2 DEF Alive, Run, Open, Recover, Write, Begin, Commit, RollBack, MoveAside, RemoveState
    <2>2. QED BY <2>1, InScope
  <1>3. ASSUME Recover(p) \/ Write(p) \/ Begin(p) \/ Commit(p) \/ RollBack(p)
        PROVE  lock[Scope(p)] = p
    <2>1. proc[p].pc \in Locked BY <1>3 DEF Locked, Recover, Write, Begin, Commit, RollBack
    <2>2. QED BY <2>1 DEF Placed, PlacedAt
  <1>4. CASE Run(p) BY <1>2, <1>4, OpenLogStill DEF Run
  <1>5. CASE Open(p) BY <1>2, <1>5, OpenPuts
  <1>6. CASE Recover(p) \/ Begin(p) \/ Commit(p) \/ RollBack(p)
    BY <1>2, <1>3, <1>6, RecordsAt
  <1>7. CASE Write(p) BY <1>2, <1>3, <1>7, WritePuts
  <1>8. CASE MoveAside(p) BY <1>2, <1>8, AsidePuts
  <1>9. CASE RemoveState(p)
    <2>1. (Here(p).uninstaller /\ Running(Scope(p))) \in BOOLEAN BY <1>2, <1>9, HereFacts
    <2>2. QED BY <1>2, <1>9, <2>1, RemovePuts
  <1>10. QED BY <1>1, <1>4, <1>5, <1>6, <1>7, <1>8, <1>9, StepStill

\* A scope comes to be removed when its uninstall lets go of the database.
LEMMA RemovalBegins ==
  ASSUME TypeOK, Placed, Preceded, NEW p \in Processes, Step(p), NEW s \in Scopes, BeingRemoved(s)'
  PROVE  BeingRemoved(s) \/ (Drop(p) /\ Gone(proc[p].outcome) /\ Scope(p) = s)
  <1>0. \A l \in Launches : chain'[l].command = chain[l].command BY ChainType DEF SameChains
  <1>1. ASSUME NEW q \in Processes, proc'[q].pc \in {"aside", "remove"}, proc'[q].scope = s
        PROVE  BeingRemoved(s) \/ (Drop(p) /\ Gone(proc[p].outcome) /\ Scope(p) = s)
    <2>1. CASE q # p
      <3>1. proc'[q] = proc[q] BY <1>1, <2>1, Untouched
      <3>2. QED BY <1>1, <3>1 DEF BeingRemoved, Scope
    <2>2. CASE q = p /\ Inner(p)
      <3>1. proc[p].scope = s BY <1>1, <2>2, InnerCalm DEF Calm, Fields
      <3>2. Passes(p) BY <1>1, <2>2, InnerLeads DEF Gives, Left, Ending, Fields
      <3>3. \/ proc[p].pc = "drop" /\ Gone(proc[p].outcome)
            \/ proc[p].pc = "aside"
        BY <1>1, <2>2, <3>2 DEF Passes, On, Fields
      <3>4. QED BY <2>2, <3>1, <3>3, InnerLock DEF BeingRemoved, Scope
    <2>3. CASE q = p /\ Uninstaller(p)
      <3>1. proc'[p].pc = proc[p].pc /\ proc'[p].scope = proc[p].scope
        BY <2>3, UninstallerLeads DEF Fields
      <3>2. QED BY <1>1, <2>3, <3>1 DEF BeingRemoved, Scope
    <2>4. CASE q = p /\ Run(p)
      <3>1. Cmd(p) # None BY <2>4 DEF Run, Placed, PlacedAt
      <3>2. QED BY <1>1, <2>4, <3>1, RunLeads DEF On, Ending, Fields
    <2>5. CASE q = p /\ (Relaunch(p) \/ Stage(p) \/ Closes(p) \/ \E scope \in Scopes : Settled(p, scope)
                         /\ Next0(p, scope) \in {"elevate", "stage", "engine"})
      BY <1>1, <2>5, RelaunchLeads, StageLeads DEF Launched, Closes, Fields, Settled
    <2>6. QED BY <2>1, <2>2, <2>3, <2>4, <2>5, StepKinds
  <1>2. ASSUME NEW l \in Launches, chain[l].command # None, chain[l].command.exe = s,
               helper'[l] = "uninstalled"
        PROVE  BeingRemoved(s)
    <2>1. CASE helper'[l] = helper[l] BY <1>2, <2>1 DEF BeingRemoved, LeftToHelper
    <2>2. CASE helper'[l] # helper[l]
      <3>1. Finish(p) /\ p = Copy(l) /\ Gone(proc[p].outcome) BY <1>2, <2>2, HelperLeads
      <3>2. proc[p].pc = "finish" BY <3>1 DEF Finish
      <3>3. QED BY <1>2, <3>1, <3>2 DEF BeingRemoved, LeftToHelper, Copy
    <2>3. QED BY <2>1, <2>2
  <1>3. ASSUME NEW l \in Launches, chain[l].command # None, chain[l].command.exe = s,
               proc'[Copy(l)].pc = "finish", Gone(proc'[Copy(l)].outcome)
        PROVE  BeingRemoved(s)
    <2>0. Copy(l) \in Processes /\ L(Copy(l)) = l BY RoleFacts
    <2>1. CASE Copy(l) # p
      <3>1. proc'[Copy(l)] = proc[Copy(l)] BY <1>3, <2>0, <2>1, Untouched
      <3>2. QED BY <1>3, <3>1 DEF BeingRemoved, LeftToHelper, Copy
    <2>2. CASE Copy(l) = p /\ Inner(p)
      <3>1. proc[p].pc = "remove"
        <4>1. CASE Passes(p) BY <1>3, <2>2, <4>1 DEF Passes, On, Fields
        <4>2. CASE Gives(p)
          <5>1. proc[p].pc \in {"plan", "walk"} BY <1>3, <2>2, <4>2 DEF Gives, Commit
          <5>2. Held(p) BY <5>1 DEF Placed, PlacedAt, Locked, Held
          <5>3. QED BY <1>3, <2>2, <4>2, <5>1, <5>2 DEF Gives, Left, Ending, Fields
        <4>3. QED BY <2>2, <4>1, <4>2, InnerLeads
      <3>2. Scope(p) \in Scopes BY <3>1, InScope DEF Alive
      <3>3. /\ chain[l].command.operation = "uninstall" /\ Target(l) = chain[l].command.exe
            /\ \A r \in Roles : proc[<<l, r>>].scope \in {None, Target(l)}
        <4>1. AimedAt(l) /\ proc[Copy(l)].pc # "none" BY <2>2, <3>1 DEF Placed
        <4>2. QED BY <1>3, <4>1 DEF AimedAt
      <3>4. Scope(p) = s BY <1>3, <2>2, <3>2, <3>3, Facts DEF Scope, Copy, Roles
      <3>5. QED BY <3>1, <3>4 DEF BeingRemoved
    <2>3. CASE Copy(l) = p /\ Uninstaller(p)
      <3>1. proc'[p].pc = proc[p].pc /\ proc'[p].outcome = proc[p].outcome
        BY <2>3, UninstallerLeads DEF Fields
      <3>2. QED BY <1>3, <2>3, <3>1 DEF BeingRemoved, LeftToHelper, Copy
    <2>4. CASE Copy(l) = p /\ Run(p)
      <3>1. Cmd(p) # None /\ ~Gone(proc[p].outcome) BY <2>4 DEF Run, Placed, PlacedAt
      <3>2. QED BY <1>3, <2>4, <3>1, RunLeads DEF On, Ending, Fields
    <2>5. CASE Copy(l) = p /\ (Relaunch(p) \/ Stage(p) \/ Closes(p)
                         \/ \E scope \in Scopes : Settled(p, scope)
                              /\ Next0(p, scope) \in {"elevate", "stage", "engine"})
      BY <1>3, <2>5, RelaunchLeads, StageLeads DEF Launched, Closes, Fields, Settled
    <2>6. QED BY <2>1, <2>2, <2>3, <2>4, <2>5, StepKinds
  <1>4. \/ \E q \in Processes : proc'[q].pc \in {"aside", "remove"} /\ proc'[q].scope = s
        \/ \E l \in Launches : chain[l].command # None /\ chain[l].command.exe = s
             /\ \/ helper'[l] = "uninstalled"
                \/ proc'[Copy(l)].pc = "finish" /\ Gone(proc'[Copy(l)].outcome)
    BY <1>0 DEF BeingRemoved, LeftToHelper, Scope, Copy, Gone
  <1>5. QED BY <1>1, <1>2, <1>3, <1>4

LEMMA MetBy ==
  ASSUME TypeOK, NEW p \in Processes, Open(p) \/ Begin(p)
  PROVE  /\ Open(p) /\ BeingRemoved(Scope(p)) => Scope(p) \in history'.met
         /\ Begin(p) /\ Here(p).db.open # <<>> => Scope(p) \in history'.met
  <1>1. history \in Histories BY DEF TypeOK, Histories
  <1>2. ASSUME NEW met, history' = [history EXCEPT !.met = met] PROVE history'.met = met
    BY <1>1, <1>2 DEF Histories
  <1>3. ASSUME Open(p), BeingRemoved(Scope(p)) PROVE Scope(p) \in history'.met
    <2>1. history' = [history EXCEPT !.met = history.met \cup {Scope(p)}] BY <1>3 DEF Open
    <2>2. QED BY <1>2, <2>1
  <1>4. ASSUME Begin(p), Here(p).db.open # <<>> PROVE Scope(p) \in history'.met
    <2>1. history' = [history EXCEPT !.met = history.met \cup {Scope(p)}] BY <1>4 DEF Begin
    <2>2. QED BY <1>2, <2>1
  <1>5. QED BY <1>3, <1>4

\* What is recorded leaves the directory with its uninstaller and at most
\* one transaction.
LEMMA RecordsKeep ==
  ASSUME TypeOK, Placed, Preceded, Kept, NEW p \in Processes, Records(p),
         Scope(p) \in Scopes, lock[Scope(p)] = p, Scope(p) \notin history.met,
         Scope(p) \notin history'.met
  PROVE  LET s == Scope(p) IN
         /\ state'[s].db # None /\ Len(state'[s].db.open) <= 1
         /\ state'[s].db.installed \/ state'[s].db.open # <<>> => state'[s].uninstaller
         /\ Begin(p) => state'[s].uninstaller /\ state'[s].db.open # <<>>
         /\ Recover(p) \/ Commit(p) \/ RollBack(p) => state'[s].db.open = <<>>
         /\ Commit(p) /\ Cmd(p).operation = "uninstall" => ~state'[s].db.installed
  <1> DEFINE s == Scope(p)  db == Here(p).db  u == Here(p).uninstaller
  <1>1. state[s].db # None /\ Here(p) = state[s] BY Facts, HereFacts DEF Placed, LockedAt
  <1>2. db.open \in Seq(Transactions) /\ db.installed \in BOOLEAN /\ u \in BOOLEAN
    BY <1>1, HereFacts, DatabaseFields
  <1>3. Len(db.open) \in Nat /\ (Len(db.open) = 0 <=> db.open = <<>>) BY <1>2, EmptySeq
  <1>4. Len(db.open) <= 1 /\ (db.installed \/ db.open # <<>> => u) BY <1>1 DEF Kept, KeptAt
  <1>5. KeepsAt(p) BY DEF Kept
  <1> HIDE DEF db, u
  <1>6. PICK installed \in BOOLEAN, open \in Seq(Transactions) :
          /\ Puts(s, Database(installed, open), u)
          /\ \/ /\ Recover(p) /\ db.open # <<>> /\ Len(open) = Len(db.open) - 1 /\ Recovered(p)
             \/ Begin(p) /\ installed = db.installed /\ Len(open) = Len(db.open) + 1
             \/ Commit(p) /\ installed = Forward(Cmd(p).operation) /\ open = Front(db.open)
             \/ /\ RollBack(p) /\ installed = Back(Cmd(p).operation) /\ open = Front(db.open)
                /\ Leaves(p, "rolled_back")
    BY DEF Records, db, u
  <1>7. /\ state'[s].db # None /\ state'[s].db.installed = installed
        /\ state'[s].db.open = open /\ state'[s].uninstaller = u
    BY <1>6, DatabaseType DEF Puts
  <1>8. Len(open) \in Nat /\ (Len(open) = 0 <=> open = <<>>) BY <1>6, EmptySeq
  <1>9. CASE Recover(p) /\ db.open # <<>> /\ Len(open) = Len(db.open) - 1
    <2>1. u /\ open = <<>> /\ Len(open) = 0 BY <1>3, <1>4, <1>8, <1>9
    <2>2. ~Begin(p) /\ ~Commit(p) BY <1>9 DEF Recover, Begin, Commit
    <2>3. QED BY <1>7, <2>1, <2>2
  <1>10. CASE Begin(p) /\ installed = db.installed /\ Len(open) = Len(db.open) + 1
    <2>1. db.open = <<>> BY <1>10, MetBy DEF db
    <2>2. u BY <1>5, <1>10 DEF KeepsAt, Begin, u
    <2>3. Len(open) = 1 /\ open # <<>> BY <1>3, <1>8, <1>10, <2>1
    <2>4. ~Recover(p) /\ ~Commit(p) /\ ~RollBack(p)
      BY <1>10 DEF Recover, Begin, Commit, RollBack
    <2>5. QED BY <1>7, <2>2, <2>3, <2>4
  <1>11. CASE (Commit(p) \/ RollBack(p)) /\ open = Front(db.open)
              /\ (installed = Forward(Cmd(p).operation) \/ ~Commit(p))
    <2>1. proc[p].pc = "walk" BY <1>11 DEF Commit, RollBack
    <2>2. u /\ db.open # <<>> BY <1>5, <2>1 DEF KeepsAt, db, u
    <2>3. Len(open) = Len(db.open) - 1 BY <1>2, <1>11, <2>2, FrontFacts
    <2>4. open = <<>> /\ Len(open) = 0 BY <1>3, <1>4, <1>8, <2>2, <2>3
    <2>5. ~Begin(p) /\ (Commit(p) /\ Cmd(p).operation = "uninstall" => ~installed)
      BY <1>11, <2>1 DEF Begin, Forward, Installs
    <2>6. QED BY <1>7, <2>2, <2>4, <2>5
  <1>12. CASE RollBack(p) /\ open = Front(db.open) /\ Commit(p)
    \* Both may have written the same row; then it is as Commit wrote it.
    <2>1. installed = Forward(Cmd(p).operation) \/ installed # Forward(Cmd(p).operation)
      OBVIOUS
    <2>2. state'[s].db = Database(Forward(Cmd(p).operation), Front(db.open))
      <3>1. /\ state' = [state EXCEPT ![s].db = Database(Forward(Cmd(p).operation), Front(db.open))]
            /\ state \in [Scopes -> Directories]
        BY <1>12 DEF Commit, Db, TypeOK, db
      <3>2. QED BY <3>1 DEF Directories
    <2>3. state'[s].db.installed = Forward(Cmd(p).operation) BY <2>2 DEF Database
    <2>4. QED BY <1>7, <1>11, <1>12, <2>3
  <1>13. QED BY <1>6, <1>9, <1>10, <1>11, <1>12

LEMMA KeptDirectory ==
  ASSUME TypeOK, Placed, Preceded, Kept, NEW p \in Processes, Step(p), NEW s \in Scopes,
         s \notin history'.met
  PROVE  KeptAt(s)'
  <1>0. s \notin history.met /\ KeptAt(s) BY HistoryType DEF Kept
  <1>1. state'[s].db # None =>
          /\ Len(state'[s].db.open) <= 1
          /\ state'[s].db.installed \/ state'[s].db.open # <<>> => state'[s].uninstaller
    <2>1. CASE Still BY <1>0, <2>1 DEF Still, KeptAt
    <2>2. CASE Scope(p) # s /\ \E db, u : Puts(Scope(p), db, u)
      <3>1. state'[s] = state[s] BY <2>2 DEF Puts
      <3>2. QED BY <1>0, <3>1 DEF KeptAt
    <2>3. CASE Scope(p) = s /\ Open(p)
               /\ Puts(s, IF Here(p).db = None THEN Database(FALSE, <<>>) ELSE Here(p).db,
                       Here(p).uninstaller)
      <3>1. /\ state'[s].db = IF state[s].db = None THEN Database(FALSE, <<>>) ELSE state[s].db
            /\ state'[s].uninstaller = state[s].uninstaller
        BY <2>3 DEF Puts, Here
      <3>2. ~Database(FALSE, <<>>).installed /\ Database(FALSE, <<>>).open = <<>>
        BY DEF Database
      <3>3. Len(<<>>) = 0 OBVIOUS
      <3>4. CASE state[s].db = None
        <4>1. state'[s].db = Database(FALSE, <<>>) BY <3>1, <3>4
        <4>2. ~state'[s].db.installed /\ state'[s].db.open = <<>> BY <3>2, <4>1
        <4>3. Len(state'[s].db.open) = 0 BY <3>3, <4>2
        <4>4. QED BY <4>2, <4>3
      <3>5. CASE state[s].db # None BY <1>0, <3>1, <3>5 DEF KeptAt
      <3>6. QED BY <3>4, <3>5
    <2>4. CASE Scope(p) = s /\ Records(p) /\ lock[s] = p BY <1>0, <2>4, RecordsKeep
    <2>5. CASE Scope(p) = s /\ Puts(s, Here(p).db, TRUE)
      BY <1>0, <2>5 DEF Puts, Here, KeptAt
    <2>6. ASSUME Scope(p) = s, MoveAside(p) \/ RemoveState(p),
                 NEW db \in {None, Here(p).db}, NEW u \in BOOLEAN, Puts(s, db, u)
          PROVE  state'[s].db # None =>
                   /\ Len(state'[s].db.open) <= 1
                   /\ state'[s].db.installed \/ state'[s].db.open # <<>> => state'[s].uninstaller
      <3>1. BeingRemoved(s) BY <2>6 DEF BeingRemoved, MoveAside, RemoveState
      <3>2. Nothing(s) /\ state'[s].db \in {None, state[s].db}
        BY <1>0, <2>6, <3>1 DEF KeptAt, Puts, Here
      <3>3. state'[s].db # None => state'[s].db.open = <<>> /\ ~state'[s].db.installed
        BY <3>2 DEF Nothing
      <3>4. Len(<<>>) = 0 OBVIOUS
      <3>5. QED BY <3>3, <3>4
    <2>7. CASE /\ Scope(p) = s /\ (MoveAside(p) \/ RemoveState(p))
               /\ \E db \in {None, Here(p).db}, u \in BOOLEAN : Puts(s, db, u)
      BY <2>6, <2>7
    <2>8. CASE Scope(p) = s BY <2>1, <2>3, <2>4, <2>5, <2>7, <2>8, StateLeads
    <2>9. CASE Scope(p) # s BY <2>1, <2>2, <2>9, StateLeads DEF Records
    <2>10. QED BY <2>8, <2>9
  <1>2. ASSUME BeingRemoved(s)' PROVE lock'[s] = None /\ Nothing(s)'
    <2>1. CASE BeingRemoved(s)
      <3>1. lock[s] = None /\ Nothing(s) BY <1>0, <2>1 DEF KeptAt
      <3>2. ~(Open(p) /\ Scope(p) = s) BY <2>1, MetBy
      <3>3. lock'[s] = None BY <3>1, <3>2, LockLeads, Facts
      <3>4. lock[s] # p BY <3>1, Facts
      <3>5. state'[s].db \in {None, state[s].db}
        <4>1. CASE Scope(p) = s BY <3>2, <3>4, <4>1, StateLeads DEF Still, Puts, Here
        <4>2. CASE Scope(p) # s BY <4>2, StateLeads DEF Still, Puts, Records
        <4>3. QED BY <4>1, <4>2
      <3>6. QED BY <3>1, <3>3, <3>5 DEF Nothing
    <2>2. CASE Drop(p) /\ Gone(proc[p].outcome) /\ Scope(p) = s
      <3>1. proc[p].pc = "drop" /\ state' = state /\ lock' = [lock EXCEPT ![s] = None]
        BY <2>2 DEF Drop
      <3>2. Nothing(s) BY <1>0, <2>2, <3>1 DEF Kept, KeepsAt
      <3>3. QED BY <3>1, <3>2 DEF TypeOK, Nothing
    <2>3. QED BY <1>2, <2>1, <2>2, RemovalBegins
  <1>3. QED BY <1>1, <1>2 DEF KeptAt

\* What the run of another process relies on is not taken away.
LEMMA KeepsOthers ==
  ASSUME TypeOK, Placed, Preceded, Kept, NEW p \in Processes, Step(p),
         NEW q \in Processes, q # p, proc'[q].scope \in Scopes, proc'[q].scope \notin history'.met
  PROVE  KeepsAt(q)'
  <1> DEFINE s == proc[q].scope
  <1>1. CASE proc'[q].pc \notin {"plan", "write", "begin", "walk", "drop"}
    BY <1>1 DEF KeepsAt
  <1>2. CASE proc'[q].pc \in {"plan", "write", "begin", "walk", "drop"}
    <2>1. proc'[q] = proc[q] BY <1>2, Untouched
    <2>2. Cmd(q)' = Cmd(q) BY ChainType, ProcessFacts DEF SameChains, Cmd
    <2>3. s \in Scopes /\ s \notin history.met /\ KeepsAt(q) /\ KeptAt(s)
      BY <2>1, HistoryType DEF Kept, Scope
    <2>4. lock[s] = q BY <1>2, <2>1 DEF Placed, PlacedAt, Locked, Scope
    <2>5. ~BeingRemoved(s) /\ lock[s] # p /\ lock[s] # None BY <2>3, <2>4, Facts DEF KeptAt
    <2>6. state[s].db # None BY <2>3, <2>5 DEF Placed, LockedAt
    <2>7. state'[s].db = state[s].db /\ state'[s].uninstaller = state[s].uninstaller
      <3>1. CASE Scope(p) # s BY <2>3, <3>1, StateLeads DEF Still, Puts, Records
      <3>2. CASE Scope(p) = s
        <4>1. ~Open(p) BY <2>5, <3>2 DEF Open
        <4>2. ~MoveAside(p) /\ ~RemoveState(p)
          BY <2>5, <3>2 DEF BeingRemoved, MoveAside, RemoveState
        <4>3. QED BY <2>3, <2>5, <3>2, <4>1, <4>2, StateLeads DEF Still
      <3>3. QED BY <3>1, <3>2
    <2>8. KeepsAt(q) BY <2>3
    <2>9. QED BY <2>1, <2>2, <2>7, <2>8 DEF KeepsAt, Here, Scope, Nothing
  <1>3. QED BY <1>1, <1>2

LEMMA KeepsSelf ==
  ASSUME TypeOK, Placed, Preceded, Kept, NEW p \in Processes, Step(p),
         proc'[p].scope \in Scopes, proc'[p].scope \notin history'.met
  PROVE  KeepsAt(p)'
  <1> DEFINE s == proc[p].scope
  <1>0. Cmd(p)' = Cmd(p) BY ChainType, ProcessFacts DEF SameChains, Cmd
  <1>1. CASE proc'[p].pc \notin {"plan", "write", "begin", "walk", "drop"}
    BY <1>1 DEF KeepsAt
  <1>2. CASE proc'[p].pc \in {"plan", "write", "begin", "walk", "drop"} /\ Uninstaller(p)
    <2>1. /\ proc'[p].pc = proc[p].pc /\ proc'[p].outcome = proc[p].outcome
          /\ proc'[p].scope = s /\ proc[p].tree = "running"
      BY <1>2, UninstallerLeads DEF Fields
    <2>2. proc[p].pc = "drop" BY <1>2, <2>1 DEF Preceded, PrecededAt
    <2>3. state' = state BY <1>2 DEF Uninstaller
    <2>4. KeepsAt(p) BY <2>1, HistoryType DEF Kept, Scope
    <2>5. QED BY <2>1, <2>2, <2>3, <2>4 DEF KeepsAt, Scope, Nothing
  <1>3. CASE proc'[p].pc \in {"plan", "write", "begin", "walk", "drop"} /\ Inner(p)
    <2>1. proc'[p].scope = s /\ Scope(p) = s /\ Scope(p)' = s
      BY <1>3, InnerCalm DEF Calm, Fields, Scope
    <2>2. s \in Scopes /\ s \notin history.met /\ KeepsAt(p) /\ KeptAt(s)
      BY <2>1, HistoryType DEF Kept
    <2>3. Here(p) = state[s] /\ Here(p)' = state'[s] BY <2>1 DEF Here
    <2>4. CASE Passes(p) /\ proc'[p].pc = "plan"
      <3>1. Cmd(p).operation = "uninstall" => proc[p].pc = "recover"
        <4>1. proc[p].pc \in {"legacy", "verdict"} => Cmd(p).operation = "install"
          BY DEF Placed, PlacedAt
        <4>2. proc[p].pc = "open" /\ ~proc[p].early => Cmd(p).operation = "install"
          BY DEF Placed, PlacedAt
        <4>3. QED BY <2>4, <4>1, <4>2 DEF Passes, On, Fields
      <3>2. ASSUME proc[p].pc = "recover" PROVE state'[s].db.open = <<>>
        <4>1. Recover(p)
          BY <1>3, <3>2 DEF Inner, HoldsPolicy, Open, Busy, Recover, Dependencies, Migrate, Migrated,
             Plan, Write, Begin, Commit, RollBack, Drop, MoveAside, RemoveState
        <4>2. lock[s] = p BY <2>1, <3>2 DEF Placed, PlacedAt, Locked
        <4>3. CASE Records(p) BY <2>1, <2>2, <4>1, <4>2, <4>3, RecordsKeep
        <4>4. CASE Still /\ (Here(p).db.open = <<>> \/ Ends(p, "drop", "recovery_incomplete"))
          <5>1. Ends(p, "drop", "recovery_incomplete") => proc'[p].pc = "drop"
            <6>1. "recovery_incomplete" \in Outcomes BY DEF Outcomes
            <6>2. QED BY <6>1, AllPlaces, EndsAt DEF Fields
          <5>2. QED BY <2>2, <2>3, <2>4, <4>4, <5>1 DEF Still
        <4>5. QED BY <4>1, <4>3, <4>4, RecordsAt
      <3>3. QED BY <1>0, <2>3, <2>4, <3>1, <3>2 DEF KeepsAt
    <2>5. CASE Passes(p) /\ proc'[p].pc = "begin"
      <3>1. proc[p].pc \in {"plan", "write"} /\ lock[s] = p
        <4>1. proc[p].pc \in {"plan", "write"} BY <2>5 DEF Passes, On, Fields
        <4>2. QED BY <2>1, <4>1 DEF Placed, PlacedAt, Locked
      <3>2. state[s].db # None BY <2>2, <3>1, Facts DEF Placed, LockedAt
      <3>3. CASE proc[p].pc = "plan"
        <4>1. Cmd(p).operation = "uninstall" /\ Here(p).db.installed
          BY <2>5, <3>3 DEF Passes, On, Fields
        <4>2. Plan(p)
          BY <1>3, <3>3 DEF Inner, HoldsPolicy, Open, Busy, Recover, Dependencies, Migrate, Migrated,
             Plan, Write, Begin, Commit, RollBack, Drop, MoveAside, RemoveState
        <4>3. state' = state BY <4>2 DEF Plan
        <4>4. state[s].uninstaller BY <2>2, <2>3, <3>2, <4>1 DEF KeptAt
        <4>5. state[s].db.open = <<>> BY <2>2, <2>3, <3>3, <4>1 DEF KeepsAt
        <4>6. QED BY <2>3, <2>5, <4>3, <4>4, <4>5 DEF KeepsAt
      <3>4. CASE proc[p].pc = "write"
        <4>1. Write(p) /\ proc'[p].pc # "finish" /\ proc'[p].pc # "drop"
          BY <1>3, <2>5, <3>4 DEF Inner, HoldsPolicy, Open, Busy, Recover, Dependencies, Migrate,
             Migrated, Plan, Write, Begin, Commit, RollBack, Drop, MoveAside, RemoveState
        <4>2. ~Leaves(p, "failed")
          <5>1. "failed" \in Outcomes BY DEF Outcomes
          <5>2. QED BY <4>1, <5>1, LeavesAt DEF Left, Ending, Fields
        <4>3. Puts(s, Here(p).db, TRUE) BY <2>1, <2>2, <4>1, <4>2, WritePuts
        <4>4. state'[s].db = state[s].db /\ state'[s].uninstaller BY <2>3, <4>3 DEF Puts
        <4>5. QED BY <1>0, <2>2, <2>3, <2>5, <3>4, <4>4 DEF KeepsAt
      <3>5. QED BY <3>1, <3>3, <3>4
    <2>6. CASE Passes(p) /\ proc'[p].pc = "write"
      <3>1. Cmd(p).operation # "uninstall" BY <2>6 DEF Passes, On, Fields
      <3>2. QED BY <1>0, <2>6, <3>1 DEF KeepsAt
    <2>7. CASE Passes(p) /\ proc'[p].pc = "walk"
      <3>1. proc[p].pc = "begin" BY <2>7 DEF Passes, On, Fields
      <3>2. Begin(p) /\ lock[s] = p
        BY <1>3, <2>1, <3>1 DEF Inner, HoldsPolicy, Open, Busy, Recover, Dependencies, Migrate,
           Migrated, Plan, Write, Begin, Commit, RollBack, Drop, MoveAside, RemoveState,
           Placed, PlacedAt, Locked
      <3>3. Records(p) BY <3>2, RecordsAt
      <3>4. state'[s].uninstaller /\ state'[s].db.open # <<>>
        BY <2>1, <2>2, <3>2, <3>3, RecordsKeep
      <3>5. QED BY <2>3, <2>7, <3>4 DEF KeepsAt
    <2>8. CASE Passes(p) /\ proc'[p].pc = "drop" BY <2>8 DEF Passes, On, Fields
    <2>9. CASE Gives(p)
      <3>1. proc'[p].pc \in {"drop", "finish"} BY <2>9 DEF Gives, Left, Ending, Fields
      <3>2. ASSUME proc'[p].pc = "drop", Gone(proc'[p].outcome) PROVE Nothing(s)'
        <4>1. CASE proc[p].pc = "plan" /\ Cmd(p).operation = "uninstall" /\ ~Here(p).db.installed
          <5>1. Plan(p)
            BY <1>3, <4>1 DEF Inner, HoldsPolicy, Open, Busy, Recover, Dependencies, Migrate,
               Migrated, Plan, Write, Begin, Commit, RollBack, Drop, MoveAside, RemoveState
          <5>2. state' = state /\ state[s].db.open = <<>>
            BY <2>2, <2>3, <4>1, <5>1 DEF Plan, KeepsAt
          <5>3. QED BY <2>1, <2>3, <4>1, <5>2 DEF Nothing
        <4>2. CASE Commit(p) /\ Cmd(p).operation = "uninstall"
          <5>1. lock[s] = p BY <2>1, <4>2 DEF Commit, Placed, PlacedAt, Locked
          <5>2. Records(p) BY <4>2, RecordsAt
          <5>3. state'[s].db.open = <<>> /\ ~state'[s].db.installed
            BY <2>1, <2>2, <4>2, <5>1, <5>2, RecordsKeep
          <5>4. QED BY <2>1, <5>3 DEF Nothing
        <4>3. QED BY <2>9, <3>2, <4>1, <4>2 DEF Gives
      <3>3. QED BY <2>1, <3>1, <3>2 DEF KeepsAt, Gone, Nothing
    <2>10. QED BY <1>3, <2>4, <2>5, <2>6, <2>7, <2>8, <2>9, InnerLeads
  <1>4. CASE Run(p)
    <2>1. Cmd(p) # None BY <1>4 DEF Run, Placed, PlacedAt
    <2>2. proc'[p].pc \in {"finish", "policy", "open"}
      BY <1>4, <2>1, RunLeads DEF On, Ending, Fields
    <2>3. QED BY <1>1, <2>2
  <1>5. CASE Relaunch(p) \/ Stage(p) \/ Closes(p) \/ \E scope \in Scopes : Settled(p, scope)
               /\ Next0(p, scope) \in {"elevate", "stage", "engine"}
    BY <1>1, <1>5, RelaunchLeads, StageLeads DEF Launched, Closes, Fields, Settled
  <1>6. QED BY <1>1, <1>2, <1>3, <1>4, <1>5, StepKinds

LEMMA KeptByStep ==
  ASSUME TypeOK, Placed, Preceded, Kept, NEW p \in Processes, Step(p)
  PROVE  Kept'
  <1>1. ASSUME NEW s \in Scopes, s \notin history'.met PROVE KeptAt(s)'
    BY <1>1, KeptDirectory
  <1>2. ASSUME NEW q \in Processes, proc'[q].scope \in Scopes, proc'[q].scope \notin history'.met
        PROVE  KeepsAt(q)'
    <2>1. CASE q = p BY <1>2, <2>1, KeepsSelf
    <2>2. CASE q # p BY <1>2, <2>2, KeepsOthers
    <2>3. QED BY <2>1, <2>2
  <1>3. QED BY <1>1, <1>2 DEF Kept, Scope

\* The helper deletes an executable only where nothing is installed.
LEMMA KeptByHelp ==
  ASSUME TypeOK, Placed, Preceded, Kept, NEW l \in Launches, Helps(l)
  PROVE  Kept'
  <1> DEFINE s == chain[l].command.exe
  <1>1. /\ proc' = proc /\ chain' = chain /\ lock' = lock /\ history' = history
        /\ \A k \in Launches : k # l => helper'[k] = helper[k]
        /\ helper'[l] \in {helper[l], "done", "ended"} /\ s \in Scopes
        /\ Still \/ (Deletes(l) /\ Puts(s, state[s].db, FALSE))
    BY HelpPuts
  <1>2. \A t \in Scopes : state'[t].db = state[t].db BY <1>1 DEF Still, Puts
  <1>3. \A t \in Scopes : BeingRemoved(t)' => BeingRemoved(t)
    BY <1>1 DEF BeingRemoved, LeftToHelper, Gone, Scope
  <1>4. Deletes(l) => BeingRemoved(s)
    <2>1. chain[l].command # None BY HelpPuts
    <2>2. QED BY <2>1 DEF Deletes, BeingRemoved, LeftToHelper
  <1>5. \A t \in Scopes : \/ state'[t].uninstaller = state[t].uninstaller
                          \/ BeingRemoved(t)
    BY <1>1, <1>4 DEF Still, Puts
  <1>6. ASSUME NEW t \in Scopes, t \notin history'.met PROVE KeptAt(t)'
    <2>1. KeptAt(t) /\ state'[t].db = state[t].db /\ lock' = lock
      BY <1>1, <1>2, <1>6 DEF Kept
    <2>2. BeingRemoved(t)' => lock'[t] = None /\ Nothing(t)'
      BY <1>3, <2>1 DEF KeptAt, Nothing
    <2>3. CASE state'[t].uninstaller = state[t].uninstaller BY <2>1, <2>2, <2>3 DEF KeptAt
    <2>4. CASE BeingRemoved(t) BY <2>1, <2>2, <2>4 DEF KeptAt, Nothing
    <2>5. QED BY <1>5, <2>3, <2>4
  <1>7. ASSUME NEW q \in Processes, proc[q].scope \in Scopes, proc[q].scope \notin history.met
        PROVE  KeepsAt(q)'
    <2> DEFINE t == proc[q].scope
    <2>1. KeepsAt(q) /\ KeptAt(t) /\ state'[t].db = state[t].db
      BY <1>2, <1>7 DEF Kept, Scope
    <2>2. CASE proc[q].pc \in {"begin", "walk"}
      <3>1. lock[t] # None BY <2>2, Facts DEF Placed, PlacedAt, Locked, Scope
      <3>2. state'[t].uninstaller = state[t].uninstaller
        BY <1>5, <1>7, <2>1, <3>1 DEF KeptAt
      <3>3. QED BY <1>1, <2>1, <3>2 DEF KeepsAt, Here, Scope, Nothing, Cmd
    <2>3. CASE proc[q].pc \notin {"begin", "walk"}
      BY <1>1, <2>1, <2>3 DEF KeepsAt, Here, Scope, Nothing, Cmd
    <2>4. QED BY <2>2, <2>3
  <1>8. QED BY <1>1, <1>6, <1>7 DEF Kept, Scope

LEMMA KeptByBegins ==
  ASSUME TypeOK, Placed, Preceded, Kept, NEW l \in Launches, Begins(l)
  PROVE  Kept'
  <1>1. /\ proc[First(l)].pc = "none" /\ chain[l].command = None
        /\ Fields(First(l), "resolve", proc[First(l)].outcome)
        /\ \A k \in Launches : k # l => chain'[k] = chain[k]
        /\ UNCHANGED <<state, lock, temp, result, helper, legacy, history>>
    BY BeginsLeads
  <1>2. First(l) \in Processes /\ Copy(l) \in Processes /\ First(l) # Copy(l) /\ L(Copy(l)) = l
    BY RoleFacts
  <1>3. proc[Copy(l)].pc = "none" /\ helper[l] = "none"
    <2>1. BornAt(l) BY DEF Placed
    <2>2. proc[Copy(l)].pc = "none" BY <1>1, <1>2 DEF Placed, PlacedAt, Cmd
    <2>3. QED BY <2>1, <2>2 DEF BornAt
  <1>4. \A q \in Processes :
           proc'[q].scope = proc[q].scope /\ (proc'[q] = proc[q] \/ proc'[q].pc = "resolve")
    BY <1>1 DEF Fields
  <1>5. \A s \in Scopes : BeingRemoved(s)' => BeingRemoved(s)
    <2>1. ASSUME NEW s \in Scopes, NEW k \in Launches, chain'[k].command # None,
                 chain'[k].command.exe = s,
                 \/ helper'[k] = "uninstalled"
                 \/ proc'[Copy(k)].pc = "finish" /\ Gone(proc'[Copy(k)].outcome)
          PROVE  BeingRemoved(s)
      <3>1. k # l BY <1>1, <1>2, <1>3, <2>1 DEF Fields
      <3>2. chain'[k] = chain[k] /\ helper'[k] = helper[k] /\ proc'[Copy(k)] = proc[Copy(k)]
        <4>1. Copy(k) \in Processes /\ Copy(k) # First(l) BY RoleFacts DEF Copy, First
        <4>2. QED BY <1>1, <2>1, <3>1, <4>1 DEF Fields
      <3>3. QED BY <2>1, <3>2 DEF BeingRemoved, LeftToHelper, Copy
    <2>2. ASSUME NEW s \in Scopes, NEW q \in Processes, proc'[q].pc \in {"aside", "remove"},
                 proc'[q].scope = s
          PROVE  BeingRemoved(s)
      BY <1>4, <2>2 DEF BeingRemoved, Scope
    <2>3. ASSUME NEW s \in Scopes, BeingRemoved(s)'
          PROVE  \/ \E q \in Processes : proc'[q].pc \in {"aside", "remove"} /\ proc'[q].scope = s
                 \/ \E k \in Launches : chain'[k].command # None /\ chain'[k].command.exe = s
                      /\ \/ helper'[k] = "uninstalled"
                         \/ proc'[Copy(k)].pc = "finish" /\ Gone(proc'[Copy(k)].outcome)
      BY <2>3 DEF BeingRemoved, LeftToHelper, Scope, Copy, Gone
    <2>4. QED BY <2>1, <2>2, <2>3
  <1>6. ASSUME NEW s \in Scopes, s \notin history'.met PROVE KeptAt(s)'
    <2>1. KeptAt(s) /\ state' = state /\ lock' = lock BY <1>1, <1>6 DEF Kept
    <2>2. QED BY <1>5, <2>1 DEF KeptAt, Nothing
  <1>7. ASSUME NEW q \in Processes, proc'[q].scope \in Scopes, proc'[q].scope \notin history'.met
        PROVE  KeepsAt(q)'
    <2>1. CASE proc'[q].pc \in {"plan", "write", "begin", "walk", "drop"}
      <3>1. proc'[q] = proc[q] /\ KeepsAt(q) /\ state' = state
        BY <1>1, <1>4, <1>7, <2>1 DEF Kept, Scope
      <3>2. Cmd(q)' = Cmd(q)
        <4>1. L(q) \in Launches /\ Cmd(q) # None
          BY <2>1, <3>1, ProcessFacts DEF Placed, PlacedAt
        <4>2. QED BY <1>1, <4>1 DEF Cmd
      <3>3. QED BY <3>1, <3>2 DEF KeepsAt, Here, Scope, Nothing
    <2>2. CASE proc'[q].pc \notin {"plan", "write", "begin", "walk", "drop"}
      BY <2>2 DEF KeepsAt
    <2>3. QED BY <2>1, <2>2
  <1>8. QED BY <1>6, <1>7 DEF Kept, Scope

LEMMA InitKept == Init => Kept
  <1> SUFFICES ASSUME Init PROVE Kept OBVIOUS
  <1>1. \A p \in Processes : proc[p] = NoProcess BY DEF Init
  <1>2. \A s \in Scopes : /\ state[s] \in {Holding, NoDirectory} /\ lock[s] = None
    BY DEF Init
  <1>3. \A s \in Scopes : ~BeingRemoved(s)
    <2>1. \A p \in Processes : proc[p].pc = "none" BY <1>1, NoProcessFacts
    <2>2. \A l \in Launches : proc[<<l, "copy">>].pc = "none" /\ helper[l] = "none"
      BY <2>1, RoleFacts DEF Copy, Init
    <2>3. QED BY <2>1, <2>2 DEF BeingRemoved, LeftToHelper
  <1>4. ASSUME NEW s \in Scopes PROVE KeptAt(s)
    <2>1. state[s].db # None => state[s].db.open = <<>> /\ state[s].uninstaller
      <3>1. CASE state[s] = Holding BY <3>1 DEF Holding, Database
      <3>2. CASE state[s] = NoDirectory BY <3>2 DEF NoDirectory
      <3>3. QED BY <1>2, <3>1, <3>2
    <2>2. Len(<<>>) = 0 OBVIOUS
    <2>3. QED BY <1>3, <2>1, <2>2 DEF KeptAt
  <1>5. QED BY <1>1, <1>4, NoProcessFacts, Facts DEF Kept, Scope

LEMMA KeptAlways == Spec => [](PlacedInv /\ Kept)
  <1>1. Init => PlacedInv /\ Kept BY InitTypes, InitPlaced, InitKept DEF PlacedInv
  <1>2. PlacedInv /\ Kept /\ [Next]_vars => Kept'
    <2> SUFFICES ASSUME TypeOK, Placed, Preceded, Kept, [Next]_vars PROVE Kept'
      BY DEF PlacedInv
    <2>1. CASE UNCHANGED vars
      BY <2>1 DEF vars, Kept, KeptAt, KeepsAt, Nothing, BeingRemoved, LeftToHelper, Gone, Here,
         Scope, Cmd
    <2>2. ASSUME NEW p \in Processes, Step(p) PROVE Kept' BY <2>2, KeptByStep
    <2>3. ASSUME NEW l \in Launches, Begins(l) \/ Helps(l) PROVE Kept'
      BY <2>3, KeptByBegins, KeptByHelp
    <2>4. QED BY <2>1, <2>2, <2>3 DEF Next, Helps
  <1>3. QED BY <1>1, <1>2, PlacedAlways, PTL DEF Spec

\* What is installed has its uninstaller and no predecessor, whichever
\* processes were killed and however many chains ran.
THEOREM InstalledStaysUsable == Spec => []InstalledIsUsable
  <1>1. PlacedInv /\ Kept => HasUninstaller BY DEF PlacedInv, Kept, KeptAt, HasUninstaller
  <1>2. QED BY <1>1, KeptAlways, PredecessorFirst, PTL DEF InstalledIsUsable

----------------------------------------------------------------------------
(* The caller, from step to step.                                          *)

LEMMA RoleOf ==
  ASSUME NEW p \in Processes
  PROVE  /\ p \in {First(L(p)), Child(L(p)), Copy(L(p))}
         /\ p = First(L(p)) <=> Role(p) = "first"
         /\ p = Child(L(p)) <=> Role(p) = "elevated"
         /\ p = Copy(L(p)) <=> Role(p) = "copy"
         /\ Role(p) \in Ran(L(p)) <=> p \in history.ran
  BY ProcessFacts DEF Roles, First, Child, Copy, Ran

\* The process that works for a chain is the only one that has run, and the
\* others wait for it.
LEMMA Works ==
  ASSUME NEW p \in Processes, AnsweredAt(L(p)), proc[p].pc \in Early \cup Inside
  PROVE  LET l == L(p) IN
         /\ Ran(l) \subseteq {Role(p)}
         /\ \/ Alone(l) /\ p = First(l)
            \/ /\ proc[First(l)].pc = "wait" /\ p = Child(l) /\ proc[Copy(l)].pc = "none"
            \/ /\ proc[First(l)].pc = "wait" /\ proc[Child(l)].pc = "linger" /\ p = Copy(l)
            \/ /\ proc[First(l)].pc = "linger" /\ proc[Child(l)].pc = "none" /\ p = Copy(l)
  <1> DEFINE l == L(p)
  <1>1. /\ p \in {First(l), Child(l), Copy(l)}
        /\ p = First(l) <=> Role(p) = "first"
        /\ p = Child(l) <=> Role(p) = "elevated"
        /\ p = Copy(l) <=> Role(p) = "copy"
    BY RoleOf
  <1>2. \A pc \in Early \cup Inside : pc \notin {"none", "wait", "linger", "over", "killed"}
    BY DEF Early, Inside
  <1>3. CASE Alone(l) BY <1>1, <1>2, <1>3 DEF Alone
  <1>4. CASE Waits(l) BY <1>1, <1>2, <1>4 DEF Waits, ChildAt
  <1>5. CASE Lingers(l) BY <1>1, <1>2, <1>5 DEF Lingers
  <1>6. CASE Collected(l) BY <1>1, <1>2, <1>6 DEF Collected, ChildAt
  <1>7. QED BY <1>3, <1>4, <1>5, <1>6 DEF AnsweredAt

LEMMA AnsweredBusy ==
  ASSUME TypeOK, NEW p \in Processes, AnsweredAt(L(p)), BornAt(L(p))',
         proc[p].pc \in Early \cup Inside, proc'[p].pc \in {"over"} \cup Early \cup Inside,
         \A q \in Processes : q # p => proc'[q] = proc[q],
         history'.ran \in {history.ran, history.ran \cup {p}},
         proc'[p].pc \in Inside => p \in history'.ran,
         p \in history'.ran => proc'[p].pc \in Inside \cup {"over"} /\ ToldOf(p)'
  PROVE  AnsweredAt(L(p))'
  <1> DEFINE l == L(p)
  <1>0. /\ l \in Launches
        /\ First(l) # Child(l) /\ First(l) # Copy(l) /\ Child(l) # Copy(l)
        /\ First(l) \in Processes /\ Child(l) \in Processes /\ Copy(l) \in Processes
        /\ \A r \in Roles : <<l, r>> \in Processes /\ L(<<l, r>>) = l /\ Role(<<l, r>>) = r
    BY ProcessFacts, RoleFacts
  <1>1. /\ Ran(l) \subseteq {Role(p)}
        /\ \/ Alone(l) /\ p = First(l)
           \/ /\ proc[First(l)].pc = "wait" /\ p = Child(l) /\ proc[Copy(l)].pc = "none"
           \/ /\ proc[First(l)].pc = "wait" /\ proc[Child(l)].pc = "linger" /\ p = Copy(l)
           \/ /\ proc[First(l)].pc = "linger" /\ proc[Child(l)].pc = "none" /\ p = Copy(l)
    BY Works
  <1>2. Ran(l)' \subseteq {Role(p)}
    <2>1. ASSUME NEW r \in Roles, <<l, r>> \in history'.ran PROVE r = Role(p)
      <3>1. CASE <<l, r>> \in history.ran BY <1>1, <2>1, <3>1 DEF Ran
      <3>2. CASE <<l, r>> = p BY <1>0, <3>2
      <3>3. QED BY <2>1, <3>1, <3>2
    <2>2. QED BY <2>1 DEF Ran
  <1>3. /\ p = First(l) <=> Role(p) = "first"
        /\ p = Child(l) <=> Role(p) = "elevated"
        /\ p = Copy(l) <=> Role(p) = "copy"
        /\ p = <<l, Role(p)>>
    BY RoleOf, ProcessFacts
  <1>4. /\ proc'[Child(l)].pc \notin {"elevate", "wait"}
        /\ proc'[Copy(l)].pc \notin {"elevate", "stage", "wait", "linger"}
    BY DEF BornAt
  <1>5. Alone(l)' \/ Waits(l)' \/ Lingers(l)'
    <2>1. CASE Alone(l) /\ p = First(l)
      <3>1. proc'[Child(l)] = proc[Child(l)] /\ proc'[Copy(l)] = proc[Copy(l)] BY <1>0, <2>1
      <3>2. QED BY <1>2, <1>3, <2>1, <3>1 DEF Alone
    <2>2. CASE proc[First(l)].pc = "wait" /\ p = Child(l) /\ proc[Copy(l)].pc = "none"
      <3>1. proc'[First(l)] = proc[First(l)] /\ proc'[Copy(l)] = proc[Copy(l)] BY <1>0, <2>2
      <3>2. proc'[Child(l)].pc \in {"stage", "over"} \cup Busy0
        BY <1>4, <2>2 DEF Early, Busy0
      <3>3. QED BY <1>2, <1>3, <2>2, <3>1, <3>2 DEF Waits, ChildAt
    <2>3. CASE proc[First(l)].pc = "wait" /\ proc[Child(l)].pc = "linger" /\ p = Copy(l)
      <3>1. proc'[First(l)] = proc[First(l)] /\ proc'[Child(l)] = proc[Child(l)]
        BY <1>0, <2>3
      <3>2. proc'[Copy(l)].pc \in {"over"} \cup Busy0 BY <1>4, <2>3 DEF Early, Busy0
      <3>3. QED BY <1>2, <1>3, <2>3, <3>1, <3>2 DEF Waits, ChildAt
    <2>4. CASE proc[First(l)].pc = "linger" /\ proc[Child(l)].pc = "none" /\ p = Copy(l)
      <3>1. proc'[First(l)] = proc[First(l)] /\ proc'[Child(l)] = proc[Child(l)]
        BY <1>0, <2>4
      <3>2. proc'[Copy(l)].pc \in {"over"} \cup Busy0 BY <1>4, <2>4 DEF Early, Busy0
      <3>3. QED BY <1>2, <1>3, <2>4, <3>1, <3>2 DEF Lingers
    <2>5. QED BY <1>1, <2>1, <2>2, <2>3, <2>4
  <1>6. ASSUME NEW r \in Roles, proc'[<<l, r>>].pc \in Inside PROVE <<l, r>> \in history'.ran
    <2>1. CASE <<l, r>> = p BY <1>6, <2>1
    <2>2. CASE <<l, r>> # p
      <3>1. proc[<<l, r>>].pc \in Inside BY <1>0, <1>6, <2>2
      <3>2. QED BY <3>1 DEF AnsweredAt, Ran
    <2>3. QED BY <2>1, <2>2
  <1>7. ASSUME NEW r \in Roles, <<l, r>> \in history'.ran
        PROVE  proc'[<<l, r>>].pc \in Inside \cup {"over"} /\ ToldOf(<<l, r>>)'
    <2>1. <<l, r>> = p BY <1>2, <1>3, <1>7 DEF Ran
    <2>2. QED BY <1>7, <2>1
  <1>8. QED BY <1>5, <1>6, <1>7 DEF AnsweredAt, Ran

LEMMA AnsweredElsewhere ==
  ASSUME TypeOK, NEW l \in Launches, AnsweredAt(l),
         \A r \in Roles :
           /\ proc'[<<l, r>>].pc = proc[<<l, r>>].pc /\ proc'[<<l, r>>].code = proc[<<l, r>>].code
           /\ proc'[<<l, r>>].outcome = proc[<<l, r>>].outcome
           /\ <<l, r>> \in history'.ran <=> <<l, r>> \in history.ran,
         chain'[l].shown = chain[l].shown, result'[l] = result[l]
  PROVE  AnsweredAt(l)'
  <1>1. "first" \in Roles /\ "elevated" \in Roles /\ "copy" \in Roles BY DEF Roles
  <1>2. /\ proc'[First(l)].pc = proc[First(l)].pc /\ proc'[First(l)].code = proc[First(l)].code
        /\ proc'[Child(l)].pc = proc[Child(l)].pc /\ proc'[Child(l)].code = proc[Child(l)].code
        /\ proc'[Copy(l)].pc = proc[Copy(l)].pc /\ proc'[Copy(l)].code = proc[Copy(l)].code
    BY <1>1 DEF First, Child, Copy
  <1>3. Ran(l)' = Ran(l) BY DEF Ran
  <1>4. HasElevated(l)' = HasElevated(l) BY <1>2 DEF HasElevated, Child
  <1>5. ASSUME NEW r \in Roles, ToldOf(<<l, r>>) PROVE ToldOf(<<l, r>>)'
    BY <1>4, <1>5 DEF ToldOf, L
  <1>6. ChildAt(l)' = ChildAt(l) BY <1>2, <1>3 DEF ChildAt
  <1>7. Alone(l)' \/ Waits(l)' \/ Collected(l)' \/ Lingers(l)'
    BY <1>2, <1>3, <1>6 DEF AnsweredAt, Alone, Waits, Collected, Lingers
  <1>8. QED BY <1>3, <1>5, <1>7 DEF AnsweredAt, Ran

\* What a process that ends a run leaves its caller.
LEMMA FinishTells ==
  ASSUME TypeOK, Placed, NEW p \in Processes, Finish(p)
  PROVE  /\ proc'[p].pc = "over" /\ ToldOf(p)' /\ proc[p].pc = "finish"
         /\ \A q \in Processes : q # p => proc'[q] = proc[q]
         /\ history' = history
  <1> DEFINE l == L(p)  outcome == proc[p].outcome
  <1>1. /\ outcome \in Outcomes /\ Over(p, outcome) /\ l \in Launches /\ proc[p].pc = "finish"
        /\ history' = history
    BY ProcessFacts DEF Finish, Placed, PlacedAt
  <1>2. /\ Fields(p, "over", outcome) /\ proc'[p].code = ExitCode(outcome) BY <1>1, OverWith
  <1>3. HasElevated(l)' = HasElevated(l)
    <2>1. CASE Child(l) = p BY <1>1, <1>2, <2>1 DEF HasElevated, Child, Fields
    <2>2. CASE Child(l) # p BY <1>1, <1>2, <2>2, RoleFacts DEF HasElevated, Child, Fields
    <2>3. QED BY <2>1, <2>2
  <1>4. HasElevated(l) => result'[l] \in {outcome, "unwritten"}
    BY <1>1 DEF Finish, HandsBack, TypeOK
  <1>5. ~HasElevated(l) => chain'[l].shown = outcome
    <2>1. ~HasElevated(l) => Role(p) \in {"first", "copy"}
      BY <1>1, ProcessFacts DEF HasElevated, Roles
    <2>2. QED BY <1>1, <2>1, OverShows
  <1>6. proc'[p].outcome = outcome /\ proc'[p].pc = "over" BY <1>2 DEF Fields
  <1>7. ToldOf(p)' BY <1>1, <1>2, <1>3, <1>4, <1>5, <1>6 DEF ToldOf
  <1>8. QED BY <1>1, <1>2, <1>7 DEF Fields

\* A process whose end ends the chain's wait.
LEMMA Awaited ==
  ASSUME NEW l \in Launches, AnsweredAt(l)
  PROVE  /\ proc[First(l)].pc = "wait" => ChildAt(l)
         /\ proc[First(l)].pc = "linger" =>
              /\ proc[Child(l)].pc = "none" /\ Ran(l) \subseteq {"copy"}
              /\ proc[Copy(l)].pc \in {"over"} \cup Busy0
         /\ proc[Child(l)].pc = "linger" =>
              /\ proc[First(l)].pc = "wait" /\ Ran(l) \subseteq {"copy"}
              /\ proc[Copy(l)].pc \in {"over"} \cup Busy0
         /\ \A r \in Roles : proc[<<l, r>>].pc # "killed"
  <1>1. \A r \in Roles : <<l, r>> \in {First(l), Child(l), Copy(l)}
    BY DEF Roles, First, Child, Copy
  <1>2. "wait" \notin Early \cup Inside /\ "linger" \notin Early \cup Inside
        /\ "killed" \notin Early \cup Inside \cup Busy0
        /\ "linger" \notin Busy0
    BY DEF Early, Inside, Busy0
  <1>3. CASE Alone(l) BY <1>1, <1>2, <1>3 DEF Alone
  <1>4. CASE Waits(l) BY <1>1, <1>2, <1>4 DEF Waits, ChildAt
  <1>5. CASE Collected(l) BY <1>1, <1>2, <1>5 DEF Collected, ChildAt
  <1>6. CASE Lingers(l) BY <1>1, <1>2, <1>6 DEF Lingers
  <1>7. QED BY <1>3, <1>4, <1>5, <1>6 DEF AnsweredAt

\* While the first process or a child waits, no other that has run changes.
LEMMA AnsweredWaiting ==
  ASSUME TypeOK, NEW l \in Launches, AnsweredAt(l), NEW p \in Processes, L(p) = l,
         p \in {First(l), Child(l)}, p \notin history.ran, history' = history,
         proc'[p].pc \notin Inside,
         Alone(l)' \/ Waits(l)' \/ Collected(l)' \/ Lingers(l)',
         \A r \in Roles : <<l, r>> # p =>
           /\ proc'[<<l, r>>].pc = proc[<<l, r>>].pc \/ proc'[<<l, r>>].pc = "resolve"
           /\ <<l, r>> \in history.ran => proc'[<<l, r>>] = proc[<<l, r>>]
           /\ <<l, r>> \in history.ran /\ proc[<<l, r>>].pc = "over" => ToldOf(<<l, r>>)'
  PROVE  AnsweredAt(l)'
  <1>1. Ran(l)' = Ran(l) BY DEF Ran
  <1>2. "resolve" \notin Inside BY DEF Inside
  <1>3. ASSUME NEW r \in Roles, proc'[<<l, r>>].pc \in Inside PROVE r \in Ran(l)
    <2>1. <<l, r>> # p /\ proc[<<l, r>>].pc \in Inside BY <1>2, <1>3
    <2>2. QED BY <2>1 DEF AnsweredAt
  <1>4. ASSUME NEW r \in Ran(l)
        PROVE  proc'[<<l, r>>].pc \in Inside \cup {"over"} /\ ToldOf(<<l, r>>)'
    <2>1. r \in Roles /\ <<l, r>> \in history.ran /\ <<l, r>> # p BY DEF Ran
    <2>2. proc[<<l, r>>].pc \in Inside \cup {"over"} /\ proc'[<<l, r>>] = proc[<<l, r>>]
      BY <2>1 DEF AnsweredAt
    <2>3. CASE proc[<<l, r>>].pc = "over" BY <2>1, <2>2, <2>3
    <2>4. CASE proc[<<l, r>>].pc # "over" BY <2>2, <2>4 DEF ToldOf
    <2>5. QED BY <2>2, <2>3, <2>4
  <1>5. QED BY <1>1, <1>3, <1>4 DEF AnsweredAt

LEMMA ResultLeads ==
  ASSUME NEW p \in Processes, Step(p)
  PROVE  \/ UNCHANGED result
         \/ Finish(p) /\ \E document : result' = [result EXCEPT ![L(p)] = document]
  <1>1. CASE Finish(p) BY <1>1 DEF Finish
  <1>2. UNCHANGED result \/ Finish(p)
    BY DEF Step, Resolve, Relaunch, Refused, Collect, Stage, StageFails, Copied, HoldsPolicy, Busy,
       Dependencies, Migrate, Uninstaller, Migrated, Plan, Run, Recover, Write, Begin,
       Commit, RollBack, MoveAside, RemoveState, Drop, Kill, Open
  <1>3. QED BY <1>1, <1>2

\* What other chains have been told does not change.
LEMMA AnsweredApart ==
  ASSUME TypeOK, Placed, Preceded, NEW p \in Processes, Step(p),
         NEW l \in Launches, l # L(p), AnsweredAt(l)
  PROVE  AnsweredAt(l)'
  <1>1. ASSUME NEW r \in Roles
        PROVE  /\ proc'[<<l, r>>] = proc[<<l, r>>]
               /\ <<l, r>> \in history'.ran <=> <<l, r>> \in history.ran
    <2>1. <<l, r>> \in Processes /\ L(<<l, r>>) = l /\ <<l, r>> # p BY RoleFacts
    <2>2. proc'[<<l, r>>] = proc[<<l, r>>] BY <2>1, Untouched
    <2>3. QED BY <2>1, <2>2, HistoryType
  <1>2. chain'[l] = chain[l] BY ChainType
  <1>3. result'[l] = result[l] BY ResultLeads DEF TypeOK
  <1>4. QED BY <1>1, <1>2, <1>3, AnsweredElsewhere

\* A process starts another and waits.
LEMMA AnsweredStarting ==
  ASSUME TypeOK, Placed, NEW p \in Processes, AnsweredAt(L(p)), Relaunch(p) \/ Stage(p)
  PROVE  AnsweredAt(L(p))'
  <1> DEFINE l == L(p)
  <1>0. /\ l \in Launches
        /\ First(l) # Child(l) /\ First(l) # Copy(l) /\ Child(l) # Copy(l)
        /\ First(l) \in Processes /\ Child(l) \in Processes /\ Copy(l) \in Processes
        /\ \A r \in Roles : <<l, r>> \in Processes
    BY ProcessFacts, RoleFacts
  <1>1. /\ proc[p].pc \in {"elevate", "stage"} /\ history' = history
        /\ proc[p].pc \in Early /\ proc[p].pc \notin Inside \cup {"over"}
    BY DEF Relaunch, Stage, Early, Inside
  <1>2. Ran(l) = {} /\ p \notin history.ran
    <2>1. p \notin history.ran
      <3>1. p \in history.ran => Role(p) \in Ran(l) /\ p = <<l, Role(p)>>
        BY RoleOf, ProcessFacts
      <3>2. QED BY <1>1, <3>1 DEF AnsweredAt
    <2>2. Ran(l) \subseteq {Role(p)} /\ Role(p) \notin Ran(l) BY <1>1, <2>1, Works, RoleOf
    <2>3. QED BY <2>1, <2>2
  <1>3. Ran(l)' = {} BY <1>1, <1>2 DEF Ran
  <1>4. "resolve" \in Busy0 /\ "wait" \notin Inside /\ "linger" \notin Inside
    BY DEF Busy0, Inside
  <1>5. CASE Relaunch(p)
    <2>1. /\ p = First(l) /\ proc[Child(l)] = NoProcess /\ proc[Copy(l)] = NoProcess
          /\ Launched(p, Child(l), "wait")
      BY <1>5, RelaunchLeads
    <2>2. /\ proc'[First(l)].pc = "wait" /\ proc'[Child(l)].pc = "resolve"
          /\ proc'[Copy(l)].pc = "none"
      BY <1>0, <2>1, NoProcessFacts DEF Launched
    <2>3. Waits(l)' BY <1>3, <1>4, <2>2 DEF Waits, ChildAt
    <2>4. \A r \in Roles : <<l, r>> # p =>
             proc'[<<l, r>>].pc = proc[<<l, r>>].pc \/ proc'[<<l, r>>].pc = "resolve"
      BY <1>0, <2>1 DEF Launched
    <2>5. QED BY <1>0, <1>1, <1>2, <1>4, <2>1, <2>2, <2>3, <2>4, AnsweredWaiting DEF Ran
  <1>6. CASE Stage(p)
    <2>1. /\ p \in {First(l), Child(l)} /\ proc[Copy(l)] = NoProcess
          /\ p = First(l) => proc[Child(l)] = NoProcess
          /\ Launched(p, Copy(l), "linger")
      BY <1>6, StageLeads
    <2>2. proc'[p].pc = "linger" /\ proc'[Copy(l)].pc = "resolve" BY <2>1 DEF Launched
    <2>3. ASSUME p = First(l) PROVE Lingers(l)'
      <3>1. proc'[Child(l)].pc = "none" BY <1>0, <2>1, <2>3, NoProcessFacts DEF Launched
      <3>2. QED BY <1>3, <1>4, <2>2, <2>3, <3>1 DEF Lingers
    <2>4. ASSUME p = Child(l) PROVE Waits(l)'
      <3>1. proc[First(l)].pc = "wait" BY <1>0, <1>1, <2>4, Works
      <3>2. proc'[First(l)].pc = "wait" BY <1>0, <2>1, <2>4, <3>1 DEF Launched
      <3>3. QED BY <1>3, <1>4, <2>2, <2>4, <3>2 DEF Waits, ChildAt
    <2>5. \A r \in Roles : <<l, r>> # p =>
             proc'[<<l, r>>].pc = proc[<<l, r>>].pc \/ proc'[<<l, r>>].pc = "resolve"
      BY <1>0, <2>1 DEF Launched
    <2>6. QED
      BY <1>0, <1>1, <1>2, <1>4, <2>1, <2>2, <2>3, <2>4, <2>5, AnsweredWaiting DEF Ran
  <1>7. QED BY <1>5, <1>6

\* The first process hands on what its child left.
LEMMA AnsweredCollect ==
  ASSUME TypeOK, Placed, NEW p \in Processes, AnsweredAt(L(p)), Collect(p)
  PROVE  AnsweredAt(L(p))'
  <1> DEFINE l == L(p)  child == Child(l)
             what == IF result[l] \in {None, "unwritten"} THEN "elevated_result_missing"
                     ELSE result[l]
  <1>0. /\ l \in Launches /\ proc[p].pc = "wait" /\ history' = history /\ result' = result
        /\ First(l) # Child(l) /\ First(l) # Copy(l) /\ Child(l) # Copy(l)
        /\ First(l) \in Processes /\ Child(l) \in Processes /\ Copy(l) \in Processes
        /\ \A r \in Roles : <<l, r>> \in Processes /\ L(<<l, r>>) = l
        /\ ~Alive(child)
        /\ Set(p, [proc[p] EXCEPT !.pc = "over", !.code = proc[child].code])
        /\ Show(p, what)
    BY ProcessFacts, RoleFacts DEF Collect, Child
  <1>1. p = First(l)
    <2>1. BornAt(l) BY <1>0 DEF Placed
    <2>2. QED BY <1>0, <2>1, RoleOf DEF BornAt
  <1>2. Fields(p, "over", proc[p].outcome) /\ proc'[p].code = proc[child].code
    BY <1>0, OverLike
  <1>3. proc'[Child(l)] = proc[Child(l)] /\ proc'[Copy(l)] = proc[Copy(l)]
        /\ proc'[First(l)].pc = "over" /\ proc'[First(l)].code = proc[child].code
    BY <1>0, <1>1, <1>2 DEF Fields
  <1>4. ChildAt(l) BY <1>0, <1>1, Awaited
  <1>5. proc[child].pc = "over" BY <1>0, <1>4 DEF ChildAt, Alive, Busy0, Inside
  <1>6. chain'[l].shown = what
    <2>1. what \in Told BY <1>0 DEF Told, TypeOK
    <2>2. chain'[l].shown = what
      <3> HIDE DEF what
      <3> QED BY <1>0, <2>1, Shows
    <2>3. QED BY <2>2
  <1>7. ChildAt(l)' BY <1>0, <1>3, <1>4 DEF ChildAt, Ran
  <1>8. Collected(l)' BY <1>0, <1>3, <1>5, <1>6, <1>7 DEF Collected
  <1>9. p \notin history.ran
    <2>1. p \in history.ran => Role(p) \in Ran(l) /\ p = <<l, Role(p)>>
      BY RoleOf, ProcessFacts
    <2>2. QED BY <1>0, <2>1 DEF AnsweredAt, Inside
  <1>10. ASSUME NEW r \in Roles, <<l, r>> # p
         PROVE  /\ proc'[<<l, r>>] = proc[<<l, r>>]
                /\ <<l, r>> \in history.ran /\ proc[<<l, r>>].pc = "over" => ToldOf(<<l, r>>)'
    <2>1. proc'[<<l, r>>] = proc[<<l, r>>] BY <1>0, <1>2, <1>10 DEF Fields
    <2>2. HasElevated(l) /\ HasElevated(l)' BY <1>3, <1>5 DEF HasElevated, Child
    <2>3. <<l, r>> \in history.ran => ToldOf(<<l, r>>) BY DEF AnsweredAt, Ran
    <2>4. QED BY <1>0, <2>1, <2>2, <2>3 DEF ToldOf
  <1>11. "over" \notin Inside BY DEF Inside
  <1>12. QED BY <1>0, <1>1, <1>3, <1>8, <1>9, <1>10, <1>11, AnsweredWaiting

\* A process the copy was made of ends with its exit code.
LEMMA AnsweredCopied ==
  ASSUME TypeOK, Placed, NEW p \in Processes, AnsweredAt(L(p)), Copied(p)
  PROVE  AnsweredAt(L(p))'
  <1> DEFINE l == L(p)  copy == Copy(l)
  <1>0. /\ l \in Launches /\ proc[p].pc = "linger"
        /\ history' = history /\ result' = result /\ chain' = chain
        /\ First(l) # Child(l) /\ First(l) # Copy(l) /\ Child(l) # Copy(l)
        /\ First(l) \in Processes /\ Child(l) \in Processes /\ Copy(l) \in Processes
        /\ \A r \in Roles : <<l, r>> \in Processes /\ L(<<l, r>>) = l
        /\ ~Alive(copy)
        /\ Set(p, [proc[p] EXCEPT !.pc = "over", !.code = proc[copy].code])
    BY ProcessFacts, RoleFacts DEF Copied, Copy
  <1>1. p = First(l) \/ p = Child(l)
    <2>1. BornAt(l) BY <1>0 DEF Placed
    <2>2. QED BY <1>0, <2>1, RoleOf DEF BornAt
  <1>2. Fields(p, "over", proc[p].outcome) /\ proc'[p].code = proc[copy].code
    BY <1>0, OverLike
  <1>3. proc'[copy] = proc[copy] /\ proc'[p].pc = "over" BY <1>0, <1>1, <1>2 DEF Fields
  <1>4. p \notin history.ran
    <2>1. p \in history.ran => Role(p) \in Ran(l) /\ p = <<l, Role(p)>>
      BY RoleOf, ProcessFacts
    <2>2. QED BY <1>0, <2>1 DEF AnsweredAt, Inside
  <1>5. proc[copy].pc = "over"
    <2>1. proc[copy].pc \in {"over"} \cup Busy0 BY <1>0, <1>1, Awaited
    <2>2. QED BY <1>0, <2>1 DEF Alive, Busy0, Inside
  <1>6. Ran(l)' = Ran(l) BY <1>0 DEF Ran
  <1>7. ASSUME p = First(l) PROVE HasElevated(l)' = HasElevated(l) /\ Lingers(l)'
    <2>1. proc[Child(l)].pc = "none" /\ Ran(l) \subseteq {"copy"} /\ proc'[Child(l)] = proc[Child(l)]
      BY <1>0, <1>2, <1>7, Awaited DEF Fields
    <2>2. Lingers(l)' BY <1>2, <1>3, <1>5, <1>6, <1>7, <2>1 DEF Lingers
    <2>3. HasElevated(l)' = HasElevated(l) BY <2>1 DEF HasElevated, Child
    <2>4. QED BY <2>2, <2>3
  <1>8. ASSUME p = Child(l) PROVE HasElevated(l)' = HasElevated(l) /\ Waits(l)'
    <2>1. proc[First(l)].pc = "wait" /\ Ran(l) \subseteq {"copy"} /\ proc'[First(l)] = proc[First(l)]
      BY <1>0, <1>2, <1>8, Awaited DEF Fields
    <2>2. Waits(l)' BY <1>2, <1>3, <1>5, <1>6, <1>8, <2>1 DEF Waits, ChildAt
    <2>3. HasElevated(l)' = HasElevated(l) BY <1>0, <1>3, <1>8 DEF HasElevated, Child
    <2>4. QED BY <2>2, <2>3
  <1>9. HasElevated(l)' = HasElevated(l) /\ (Waits(l)' \/ Lingers(l)') BY <1>1, <1>7, <1>8
  <1>10. ASSUME NEW r \in Roles, <<l, r>> # p
         PROVE  /\ proc'[<<l, r>>] = proc[<<l, r>>]
                /\ <<l, r>> \in history.ran /\ proc[<<l, r>>].pc = "over" => ToldOf(<<l, r>>)'
    <2>1. proc'[<<l, r>>] = proc[<<l, r>>] BY <1>0, <1>2, <1>10 DEF Fields
    <2>2. <<l, r>> \in history.ran => ToldOf(<<l, r>>) BY DEF AnsweredAt, Ran
    <2>3. QED BY <1>0, <1>9, <2>1, <2>2 DEF ToldOf
  <1>11. "over" \notin Inside BY DEF Inside
  <1>12. QED BY <1>0, <1>1, <1>3, <1>4, <1>9, <1>10, <1>11, AnsweredWaiting

\* The step of a process that neither starts another nor waits for one.
LEMMA AnsweredWorking ==
  ASSUME TypeOK, Placed, Preceded, NEW p \in Processes, Step(p), ~Kill(p), AnsweredAt(L(p)),
         ~Relaunch(p), ~Stage(p), ~Collect(p), ~Copied(p), ~Uninstaller(p)
  PROVE  AnsweredAt(L(p))'
  <1> DEFINE l == L(p)
  <1>0. l \in Launches BY ProcessFacts
  <1>1. BornAt(l)' BY <1>0, PlacedByStep DEF Placed
  <1>2. p \in history.ran => proc[p].pc \in Inside \cup {"over"}
    <2>1. p \in history.ran => Role(p) \in Ran(l) /\ p = <<l, Role(p)>>
      BY RoleOf, ProcessFacts
    <2>2. QED BY <2>1 DEF AnsweredAt
  <1>3. proc[p].pc \in Inside => p \in history.ran
    <2>1. Role(p) \in Roles /\ p = <<l, Role(p)>> BY ProcessFacts
    <2>2. QED BY <2>1, RoleOf DEF AnsweredAt
  <1>4. /\ history'.ran \in {history.ran, history.ran \cup {p}}
        /\ Run(p) \/ history'.ran = history.ran
    BY HistoryType
  <1>5. CASE Inner(p)
    <2>1. /\ \A q \in Processes : q # p => proc'[q] = proc[q]
          /\ proc'[p].pc \in Inside
      BY <1>5, InnerCalm DEF Calm, Fields
    <2>2. proc[p].pc \in Inside /\ "over" \notin Inside BY <1>5, InnerFrom DEF Inside
    <2>3. p \in history'.ran BY <1>3, <1>4, <2>2
    <2>4. QED BY <1>1, <1>4, <2>1, <2>2, <2>3, AnsweredBusy DEF ToldOf
  <1>6. CASE Run(p)
    <2>1. /\ proc[p].pc = "engine" /\ proc[p].pc \in Early /\ "over" \notin Inside
          /\ "finish" \in Inside /\ "policy" \in Inside /\ "open" \in Inside
      BY <1>6 DEF Run, Early, Inside
    <2>2. Cmd(p) # None BY <2>1 DEF Placed, PlacedAt
    <2>3. /\ \A q \in Processes : q # p => proc'[q] = proc[q]
          /\ proc'[p].pc \in Inside
      BY <1>6, <2>1, <2>2, RunLeads DEF Ending, On, Fields
    <2>4. p \in history'.ran BY <1>6 DEF Run, TypeOK
    <2>5. QED BY <1>1, <1>4, <2>1, <2>3, <2>4, AnsweredBusy DEF ToldOf
  <1>7. CASE Finish(p)
    <2>1. /\ proc'[p].pc = "over" /\ ToldOf(p)' /\ proc[p].pc = "finish"
          /\ \A q \in Processes : q # p => proc'[q] = proc[q]
      BY <1>7, FinishTells
    <2>2. "finish" \in Inside /\ "over" \notin Inside BY DEF Inside
    <2>3. QED BY <1>1, <1>4, <2>1, <2>2, AnsweredBusy
  <1>8. ASSUME proc[p].pc \in Early, history' = history, proc'[p].pc \in {"over"} \cup Early,
               \A q \in Processes : q # p => proc'[q] = proc[q]
        PROVE  AnsweredAt(l)'
    <2>1. proc[p].pc \notin Inside \cup {"over"} /\ proc'[p].pc \notin Inside
      BY <1>8 DEF Early, Inside
    <2>2. p \notin history'.ran BY <1>2, <1>8, <2>1
    <2>3. QED BY <1>1, <1>4, <1>8, <2>1, <2>2, AnsweredBusy
  <1>9. CASE Resolve(p)
    <2>1. proc[p].pc = "resolve" /\ Cmd(p) # None /\ history' = history
      BY <1>9 DEF Resolve, Placed, PlacedAt
    <2>2. "resolve" \in Early /\ {"elevate", "stage", "engine"} \subseteq Early BY DEF Early
    <2>3. CASE \E scope \in Scopes :
                 Settled(p, scope) /\ Next0(p, scope) \in {"elevate", "stage", "engine"}
      BY <1>8, <2>1, <2>2, <2>3 DEF Settled
    <2>4. CASE \E outcome \in Outcomes : Over(p, outcome)
      <3>1. /\ proc'[p].pc = "over"
            /\ \A q \in Processes : q # p => proc'[q] = proc[q]
        BY <2>4, OverWith DEF Fields
      <3>2. QED BY <1>8, <2>1, <2>2, <3>1
    <2>5. QED BY <1>9, <2>1, <2>3, <2>4, ResolveLeads
  <1>10. CASE Refused(p) \/ StageFails(p)
    <2>1. "elevation" \in Outcomes /\ "relaunch_failed" \in Outcomes BY DEF Outcomes
    <2>2. \E outcome \in Outcomes : Over(p, outcome) BY <1>10, <2>1 DEF Refused, StageFails
    <2>3. /\ proc[p].pc \in Early /\ history' = history
      BY <1>10 DEF Refused, StageFails, Early
    <2>4. /\ proc'[p].pc = "over"
          /\ \A q \in Processes : q # p => proc'[q] = proc[q]
      BY <2>2, OverWith DEF Fields
    <2>5. QED BY <1>8, <2>3, <2>4
  <1>11. QED BY <1>5, <1>6, <1>7, <1>9, <1>10, StepCases

LEMMA AnsweredByStep ==
  ASSUME TypeOK, Placed, Preceded, Answered, NEW p \in Processes, Step(p)
  PROVE  Answered'
  <1>1. SUFFICES ASSUME NEW l \in Launches, l \notin history'.killed PROVE AnsweredAt(l)'
    BY DEF Answered
  <1>2. AnsweredAt(l) /\ L(p) \in Launches BY <1>1, HistoryType, ProcessFacts DEF Answered
  <1>3. CASE l # L(p) BY <1>2, <1>3, AnsweredApart
  <1>4. CASE l = L(p)
    <2>1. ~Kill(p)
      <3>1. Kill(p) => \E last : history' = [history EXCEPT !.kills = history.kills + 1,
                              !.killed = history.killed \cup {l}, !.last = last]
        BY <1>4 DEF Kill
      <3>2. DOMAIN history = {"kills", "killed", "ran", "last", "met"} BY DEF TypeOK
      <3>3. QED BY <1>1, <3>1, <3>2
    <2>2. CASE Relaunch(p) \/ Stage(p) BY <1>2, <1>4, <2>2, AnsweredStarting
    <2>3. CASE Collect(p) BY <1>2, <1>4, <2>3, AnsweredCollect
    <2>4. CASE Copied(p) BY <1>2, <1>4, <2>4, AnsweredCopied
    <2>5. CASE Uninstaller(p)
      <3>1. /\ Fields(p, proc[p].pc, proc[p].outcome) /\ proc'[p].code = proc[p].code
            /\ history' = history /\ chain' = chain /\ result' = result
        BY <2>5, UninstallerLeads DEF Uninstaller
      <3>2. \A q \in Processes : proc'[q].pc = proc[q].pc /\ proc'[q].code = proc[q].code
                                 /\ proc'[q].outcome = proc[q].outcome
        BY <3>1 DEF Fields
      <3>3. \A r \in Roles : <<l, r>> \in Processes BY RoleFacts
      <3>4. QED BY <1>2, <3>1, <3>2, <3>3, AnsweredElsewhere
    <2>6. QED BY <1>2, <1>4, <2>1, <2>2, <2>3, <2>4, <2>5, AnsweredWorking
  <1>5. QED BY <1>3, <1>4

LEMMA AnsweredByBegins ==
  ASSUME TypeOK, Placed, Preceded, Answered, NEW l \in Launches, Begins(l)
  PROVE  Answered'
  <1>1. /\ proc[First(l)].pc = "none" /\ chain[l].command = None
        /\ Fields(First(l), "resolve", proc[First(l)].outcome)
        /\ chain'[l].shown = chain[l].shown
        /\ \A k \in Launches : k # l => chain'[k] = chain[k]
        /\ UNCHANGED <<state, lock, temp, result, helper, legacy, history>>
    BY BeginsLeads
  <1>2. \A k \in Launches, r \in Roles :
           /\ <<k, r>> \in Processes /\ L(<<k, r>>) = k
           /\ <<k, r>> = First(l) <=> k = l /\ r = "first"
    BY RoleFacts DEF First
  <1>3. SUFFICES ASSUME NEW k \in Launches, k \notin history'.killed PROVE AnsweredAt(k)'
    BY DEF Answered
  <1>4. AnsweredAt(k) BY <1>1, <1>3 DEF Answered
  <1>5. CASE k # l
    <2>1. \A r \in Roles : proc'[<<k, r>>] = proc[<<k, r>>] BY <1>1, <1>2, <1>5 DEF Fields
    <2>2. QED BY <1>1, <1>4, <1>5, <2>1, AnsweredElsewhere
  <1>6. CASE k = l
    <2>1. \A r \in Roles : proc[<<l, r>>].pc = "none" /\ <<l, r>> \notin history.ran
      <3>1. ASSUME NEW r \in Roles PROVE proc[<<l, r>>].pc = "none"
        <4>1. <<l, r>> \in Processes /\ Cmd(<<l, r>>) = None BY <1>1, <1>2 DEF Cmd
        <4>2. QED BY <4>1 DEF Placed, PlacedAt
      <3>2. "none" \notin Inside \cup {"over"} BY DEF Inside
      <3>3. QED BY <1>4, <1>6, <3>1, <3>2 DEF AnsweredAt, Ran
    <2>2. /\ proc'[First(l)].pc = "resolve"
          /\ \A r \in Roles : r # "first" => proc'[<<l, r>>] = proc[<<l, r>>]
      BY <1>1, <1>2 DEF Fields
    <2>3. Ran(l)' = {} BY <1>1, <2>1 DEF Ran
    <2>4. Alone(l)' BY <2>1, <2>2, <2>3, RoleFacts DEF Alone, Early, First, Child, Copy
    <2>5. \A r \in Roles : proc'[<<l, r>>].pc \notin Inside
      BY <2>1, <2>2 DEF Inside, First, Roles
    <2>6. QED BY <1>6, <2>3, <2>4, <2>5 DEF AnsweredAt
  <1>7. QED BY <1>5, <1>6

LEMMA InitAnswered == Init => Answered
  <1> SUFFICES ASSUME Init PROVE Answered OBVIOUS
  <1>1. history.ran = {} BY DEF Init
  <1>2. \A l \in Launches, r \in Roles : <<l, r>> \in Processes /\ proc[<<l, r>>].pc = "none"
    BY RoleFacts, NoProcessFacts DEF Init
  <1>3. \A l \in Launches : Ran(l) = {} BY <1>1 DEF Ran
  <1>4. \A l \in Launches : Alone(l) BY <1>2, <1>3 DEF Alone, Roles, First, Child, Copy
  <1>5. QED BY <1>2, <1>3, <1>4 DEF Answered, AnsweredAt, Inside

LEMMA AnsweredAlways == Spec => [](PlacedInv /\ Answered)
  <1>1. Init => Answered BY InitAnswered
  <1>2. Answered /\ PlacedInv /\ [Next]_vars => Answered'
    <2> SUFFICES ASSUME Answered, PlacedInv, [Next]_vars PROVE Answered' OBVIOUS
    <2> USE DEF PlacedInv
    <2>1. CASE UNCHANGED vars
      BY <2>1 DEF vars, Answered, AnsweredAt, Alone, Waits, Collected, Lingers, ChildAt, Ran,
           ToldOf, HasElevated
    <2>2. ASSUME NEW l \in Launches, Begins(l) PROVE Answered' BY <2>2, AnsweredByBegins
    <2>3. ASSUME NEW l \in Launches, Helps(l) PROVE Answered'
      <3>1. proc' = proc /\ chain' = chain /\ history' = history /\ result' = result
        BY <2>3, HelpPuts
      <3>2. QED
        BY <3>1 DEF Answered, AnsweredAt, Alone, Waits, Collected, Lingers, ChildAt, Ran,
           ToldOf, HasElevated
    <2>4. ASSUME NEW p \in Processes, Step(p) PROVE Answered' BY <2>4, AnsweredByStep
    <2>5. QED BY <2>1, <2>2, <2>3, <2>4 DEF Next, Helps
  <1>3. QED BY <1>1, <1>2, PlacedAlways, PTL DEF Spec

\* Whichever process of a chain did the work, the caller is told of it.
THEOREM AnswersTheCaller == Spec => []AnswersForTheRun
  <1>1. PlacedInv /\ Answered => AnswersForTheRun
    <2> SUFFICES ASSUME PlacedInv, Answered, NEW l \in Launches,
                        proc[First(l)].pc = "over", l \notin history.killed
                 PROVE  /\ proc[First(l)].code = proc[LastOf(l)].code
                        /\ \A p \in history.ran : L(p) = l =>
                             /\ proc[First(l)].code = ExitCode(proc[p].outcome)
                             /\ chain[l].shown = IF HasElevated(l) /\ result[l] = "unwritten"
                                                 THEN "elevated_result_missing"
                                                 ELSE proc[p].outcome
      BY DEF AnswersForTheRun, First
    <2>1. AnsweredAt(l) BY DEF Answered
    <2>2. "over" \notin {"none", "wait", "linger"} OBVIOUS
    <2>3. ~Waits(l) BY DEF Waits
    <2>4. proc[First(l)].code = proc[LastOf(l)].code
      <3>1. CASE Alone(l) BY <3>1 DEF Alone, LastOf, HasElevated, First, Child, Copy
      <3>2. CASE Lingers(l) BY <2>2, <3>2 DEF Lingers, LastOf, First, Child, Copy
      <3>3. CASE Collected(l)
        BY <2>2, <3>3 DEF Collected, ChildAt, LastOf, HasElevated, First, Child, Copy
      <3>4. QED BY <2>1, <2>3, <3>1, <3>2, <3>3 DEF AnsweredAt
    <2>5. ASSUME NEW p \in history.ran, L(p) = l
          PROVE  /\ proc[First(l)].code = ExitCode(proc[p].outcome)
                 /\ chain[l].shown = IF HasElevated(l) /\ result[l] = "unwritten"
                                     THEN "elevated_result_missing" ELSE proc[p].outcome
      <3>1. p \in Processes BY DEF PlacedInv, TypeOK
      <3>2. /\ p = <<l, Role(p)>> /\ Role(p) \in Ran(l)
            /\ p \in {First(l), Child(l), Copy(l)}
            /\ p = First(l) <=> Role(p) = "first"
            /\ p = Child(l) <=> Role(p) = "elevated"
            /\ p = Copy(l) <=> Role(p) = "copy"
        BY <2>5, <3>1, RoleOf, ProcessFacts
      <3>3. ToldOf(p) BY <2>1, <3>2 DEF AnsweredAt
      <3>4. CASE Alone(l)
        <4>1. p = First(l) /\ ~HasElevated(l) BY <3>2, <3>4 DEF Alone, HasElevated, Child
        <4>2. QED BY <2>5, <3>3, <4>1 DEF ToldOf
      <3>5. CASE Lingers(l)
        <4>1. p = Copy(l) /\ ~HasElevated(l) /\ proc[p].pc = "over"
              /\ proc[First(l)].code = proc[p].code
          BY <3>2, <3>5 DEF Lingers, HasElevated, Child
        <4>2. QED BY <2>5, <3>3, <4>1 DEF ToldOf
      <3>6. CASE Collected(l)
        <4>1. /\ proc[Child(l)].pc = "over" /\ ChildAt(l) /\ HasElevated(l)
              /\ proc[First(l)].code = proc[Child(l)].code
              /\ chain[l].shown = IF result[l] \in {None, "unwritten"}
                                  THEN "elevated_result_missing" ELSE result[l]
          BY <3>6 DEF Collected, HasElevated, Child
        <4>2. p \in {Child(l), Copy(l)} /\ proc[p].pc = "over" /\ proc[p].code = proc[Child(l)].code
          BY <3>2, <4>1 DEF ChildAt
        <4>3. None \notin Outcomes BY ClientAssumption
        <4>4. QED BY <2>5, <3>2, <3>3, <4>1, <4>2, <4>3 DEF ToldOf
      <3>7. QED BY <2>1, <2>3, <3>4, <3>5, <3>6 DEF AnsweredAt
    <2>6. QED BY <2>4, <2>5
  <1>2. QED BY <1>1, AnsweredAlways, PTL

----------------------------------------------------------------------------
(* What is left, from step to step.                                        *)

\* A copy works until it finishes: what it was made of resolved its scope.
LEMMA CopyWorks ==
  ASSUME TypeOK, Placed, Preceded, NEW p \in Processes, Step(p), ~Kill(p), Role(p) = "copy"
  PROVE  \/ proc'[p].pc \in Busy0 \/ Finish(p)
         \/ proc'[p].pc = proc[p].pc
  <1> DEFINE l == L(p)
  <1>1. /\ l \in Launches /\ p = Copy(l) /\ p # First(l) /\ p # Child(l)
    BY ProcessFacts, RoleOf, RoleFacts
  <1>2. AimedAt(l) /\ BornAt(l) /\ BornAt(l)' BY <1>1, PlacedByStep DEF Placed
  <1>3. /\ proc[p].pc \notin {"elevate", "stage", "wait", "linger"}
        /\ proc'[p].pc \notin {"elevate", "stage", "wait", "linger"}
    BY <1>1, <1>2 DEF BornAt
  <1>4. CASE Inner(p) BY <1>4, InnerCalm DEF Busy0
  <1>5. CASE Run(p)
    <2>1. Cmd(p) # None BY <1>5 DEF Run, Placed, PlacedAt
    <2>2. {"finish", "policy", "open"} \subseteq Busy0 BY DEF Busy0, Inside
    <2>3. QED BY <1>5, <2>1, <2>2, RunLeads DEF Ending, On, Fields
  <1>6. CASE Uninstaller(p) BY <1>6, UninstallerLeads DEF Fields
  <1>7. CASE Resolve(p)
    <2>1. proc[p].pc = "resolve" /\ Cmd(p) # None BY <1>7 DEF Resolve, Placed, PlacedAt
    <2>2. /\ Cmd(p).operation = "uninstall" /\ Cmd(p).exe \in Scopes /\ Target(l) \in Scopes
      BY <1>1, <1>2, <2>1 DEF AimedAt, Cmd
    <2>3. decide(Start(p, Given(p)), Requested(Start(p, Given(p)))) \in Scopes
      BY <2>1, <2>2, ResolvesTarget
    <2>4. PICK scope \in Scopes :
             Settled(p, scope) /\ Next0(p, scope) \in {"elevate", "stage", "engine"}
      BY <1>7, <2>1, <2>3, ResolveLeads
    <2>5. proc'[p].pc = "engine" BY <1>3, <2>4 DEF Settled
    <2>6. QED BY <2>5 DEF Busy0
  <1>8. CASE Relaunch(p) BY <1>3, <1>8 DEF Relaunch
  <1>9. CASE Refused(p) \/ Collect(p) \/ Stage(p) \/ StageFails(p) \/ Copied(p)
    BY <1>3, <1>9 DEF Refused, Collect, Stage, StageFails, Copied
  <1>10. QED BY <1>4, <1>5, <1>6, <1>7, <1>8, <1>9, StepCases

\* The result file of a chain is there only while its first process waits,
\* which ends by collecting it.
LEMMA WaitEnds ==
  ASSUME TypeOK, Placed, Preceded, NEW p \in Processes, Step(p), ~Kill(p), proc[p].pc = "wait"
  PROVE  Collect(p) \/ proc'[p].pc = "wait"
  <1>1. "wait" \notin Inside BY DEF Inside
  <1>2. ~Inner(p) BY <1>1, InnerFrom
  <1>3. Collect(p) \/ Uninstaller(p)
    BY <1>2, StepCases
       DEF Resolve, Relaunch, Refused, Stage, StageFails, Copied, Run, Finish
  <1>4. QED BY <1>3, UninstallerLeads DEF Fields

\* The outcome of a copy that has ended stays.
LEMMA EndedCopy ==
  ASSUME TypeOK, Placed, Preceded, NEW p \in Processes, Step(p),
         NEW l \in Launches, proc[Copy(l)].pc \in {"over", "killed"}
  PROVE  proc'[Copy(l)].outcome = proc[Copy(l)].outcome
  <1>1. Copy(l) \in Processes BY RoleFacts
  <1>2. CASE p # Copy(l) BY <1>1, <1>2, Untouched, NoProcessFacts
  <1>3. CASE p = Copy(l)
    <2>1. ~Kill(p) BY <1>3 DEF Kill, Alive
    <2>2. proc[p].pc \in {"over", "killed"} BY <1>3
    <2>3. ~Inner(p) BY <2>2, InnerFrom DEF Inside
    <2>4. Uninstaller(p)
      BY <2>1, <2>2, <2>3, StepCases
         DEF Resolve, Relaunch, Refused, Stage, StageFails, Copied, Run, Collect, Finish
    <2>5. QED BY <1>3, <2>4, UninstallerLeads DEF Fields
  <1>4. QED BY <1>2, <1>3

LEMMA TidyChain ==
  ASSUME TypeOK, Placed, Preceded, NEW p \in Processes, Step(p), NEW l \in Launches,
         TidyAt(l), ~(Kill(p) /\ L(p) = l)
  PROVE  TidyAt(l)'
  <1>1. /\ First(l) \in Processes /\ Copy(l) \in Processes
        /\ L(First(l)) = l /\ L(Copy(l)) = l /\ Role(Copy(l)) = "copy"
        /\ L(p) \in Launches /\ First(l) # Copy(l)
    BY RoleFacts, ProcessFacts
  <1>2. ASSUME <<"result", l>> \in temp' PROVE proc'[First(l)].pc = "wait"
    <2>1. CASE Relaunch(p) /\ L(p) = l BY <2>1, RelaunchLeads DEF Launched
    <2>2. CASE ~(Relaunch(p) /\ L(p) = l)
      <3>1. <<"result", l>> \in temp /\ ~(Collect(p) /\ L(p) = l)
        <4>1. Collect(p) => temp' = temp \ {<<"result", L(p)>>} BY DEF Collect
        <4>2. temp' \subseteq temp \/ Relaunch(p) \/ \E x \in {"copy", "staging", "log", "aside"} :
                temp' = temp \cup {<<x, L(p)>>}
          BY TempLeads
        <4>3. Relaunch(p) => temp' = temp \cup {<<"result", L(p)>>} BY DEF Relaunch
        <4>4. QED BY <1>2, <2>2, <4>1, <4>2, <4>3
      <3>2. proc[First(l)].pc = "wait" BY <3>1 DEF TidyAt
      <3>3. CASE p = First(l) BY <1>1, <3>1, <3>2, <3>3, WaitEnds
      <3>4. CASE p # First(l) BY <1>1, <3>2, <3>4, Untouched, NoProcessFacts
      <3>5. QED BY <3>3, <3>4
    <2>3. QED BY <2>1, <2>2
  <1>3. ASSUME <<"copy", l>> \in temp' \/ <<"aside", l>> \in temp'
        PROVE  proc'[Copy(l)].pc \in Busy0 \/ HelperWorks(l)' \/ helper'[l] = "ended"
    <2>1. CASE Stage(p) /\ L(p) = l BY <2>1, StageLeads DEF Launched, Busy0
    <2>2. CASE MoveAside(p) /\ Role(p) = "copy" /\ L(p) = l
      <3>1. p = Copy(l) /\ Inner(p) BY <2>2, RoleOf DEF Inner
      <3>2. QED BY <3>1, InnerCalm DEF Busy0
    <2>3. CASE ~(Stage(p) /\ L(p) = l) /\ ~(MoveAside(p) /\ Role(p) = "copy" /\ L(p) = l)
      <3>1. <<"copy", l>> \in temp \/ <<"aside", l>> \in temp BY <1>3, <2>3, TempLeads
      <3>2. proc[Copy(l)].pc \in Busy0 \/ HelperWorks(l) \/ helper[l] = "ended"
        BY <3>1 DEF TidyAt
      <3>3. /\ HelperWorks(l) => HelperWorks(l)'
            /\ helper[l] = "ended" => HelperWorks(l)' \/ helper'[l] = "ended"
        BY HelperLeads DEF HelperWorks
      <3>4. CASE proc[Copy(l)].pc \in Busy0
        <4>1. CASE p # Copy(l) BY <1>1, <3>4, <4>1, Untouched, NoProcessFacts DEF Busy0
        <4>2. CASE p = Copy(l) /\ Finish(p)
          <5>1. helper'[l] \in {"waits", "uninstalled"} BY <1>1, <4>2 DEF Finish, TypeOK
          <5>2. QED BY <5>1 DEF HelperWorks
        <4>3. CASE p = Copy(l) /\ ~Finish(p) BY <1>1, <3>4, <4>3, CopyWorks
        <4>4. QED BY <4>1, <4>2, <4>3
      <3>5. QED BY <3>2, <3>3, <3>4
    <2>4. QED BY <2>1, <2>2, <2>3
  <1>4. ASSUME helper'[l] = "uninstalled" PROVE Gone(proc'[Copy(l)].outcome)
    <2>1. CASE helper'[l] = helper[l]
      <3>1. proc[Copy(l)].pc \in {"over", "killed"} /\ Gone(proc[Copy(l)].outcome)
        BY <1>4, <2>1 DEF Placed, BornAt, TidyAt
      <3>2. proc'[Copy(l)].outcome = proc[Copy(l)].outcome BY <1>1, <3>1, EndedCopy
      <3>3. QED BY <3>1, <3>2
    <2>2. CASE helper'[l] # helper[l]
      <3>1. Finish(p) /\ p = Copy(l) /\ Gone(proc[p].outcome) BY <1>4, <2>2, HelperLeads
      <3>2. proc[p].outcome \in Outcomes /\ Over(p, proc[p].outcome)
        BY <3>1 DEF Finish, Placed, PlacedAt
      <3>3. QED BY <3>1, <3>2, OverWith DEF Fields
    <2>3. QED BY <2>1, <2>2
  <1>5. QED BY <1>2, <1>3, <1>4 DEF TidyAt, Gone

\* What is left to a helper is left to it until it is deleted.
LEMMA LeftStays ==
  ASSUME TypeOK, Placed, Preceded, NEW p \in Processes, Step(p), ~Kill(p),
         NEW s \in Scopes, LeftToHelper(s)
  PROVE  LeftToHelper(s)'
  <1>1. PICK l \in Launches :
          /\ chain[l].command # None /\ chain[l].command.exe = s
          /\ \/ helper[l] = "uninstalled"
             \/ proc[Copy(l)].pc = "finish" /\ Gone(proc[Copy(l)].outcome)
    BY DEF LeftToHelper, Copy
  <1>2. chain'[l].command = chain[l].command BY ChainType DEF SameChains
  <1>3. Copy(l) \in Processes /\ Role(Copy(l)) = "copy" /\ L(Copy(l)) = l BY RoleFacts
  <1>4. CASE helper[l] = "uninstalled"
    <2>1. BornAt(l) BY DEF Placed
    <2>2. ~(Finish(p) /\ p = Copy(l)) BY <1>4, <2>1 DEF BornAt, Finish
    <2>3. helper'[l] = "uninstalled" BY <1>4, <2>2, HelperLeads
    <2>4. QED BY <1>1, <1>2, <2>3 DEF LeftToHelper
  <1>5. CASE proc[Copy(l)].pc = "finish" /\ Gone(proc[Copy(l)].outcome)
    <2>1. CASE p # Copy(l)
      <3>1. proc'[Copy(l)] = proc[Copy(l)] BY <1>3, <1>5, <2>1, Untouched, NoProcessFacts
      <3>2. QED BY <1>1, <1>2, <1>5, <3>1 DEF LeftToHelper, Copy, Gone
    <2>2. CASE p = Copy(l)
      <3>1. ~Inner(p) BY <1>5, <2>2, InnerFrom
      <3>2. Finish(p) \/ Uninstaller(p)
        BY <1>5, <2>2, <3>1, StepCases
           DEF Resolve, Relaunch, Refused, Stage, StageFails, Copied, Run, Collect
      <3>3. CASE Finish(p)
        <4>1. helper'[l] = "uninstalled" BY <1>3, <1>5, <2>2, <3>3 DEF Finish, TypeOK
        <4>2. QED BY <1>1, <1>2, <4>1 DEF LeftToHelper
      <3>4. CASE Uninstaller(p)
        <4>1. proc'[Copy(l)].pc = "finish" /\ Gone(proc'[Copy(l)].outcome)
          BY <1>5, <2>2, <3>4, UninstallerLeads DEF Fields
        <4>2. QED BY <1>1, <1>2, <4>1 DEF LeftToHelper, Copy, Gone
      <3>5. QED BY <3>2, <3>3, <3>4
    <2>3. QED BY <2>1, <2>2
  <1>6. QED BY <1>1, <1>4, <1>5

\* And what a helper left undone stays so.
LEMMA UnfinishedStays ==
  ASSUME TypeOK, Placed, Preceded, NEW p \in Processes, Step(p), ~Kill(p),
         NEW s \in Scopes, Unfinished(s)
  PROVE  Unfinished(s)'
  <1>1. PICK l \in Launches :
          /\ chain[l].command # None /\ chain[l].command.exe = s
          /\ helper[l] = "ended" /\ Gone(proc[Copy(l)].outcome)
    BY DEF Unfinished, Copy
  <1>2. chain'[l].command = chain[l].command BY ChainType DEF SameChains
  <1>3. Copy(l) \in Processes /\ L(Copy(l)) = l BY RoleFacts
  <1>4. proc[Copy(l)].pc \in {"over", "killed"} BY <1>1 DEF Placed, BornAt
  <1>5. helper'[l] = "ended"
    <2>1. ~(Finish(p) /\ p = Copy(l)) BY <1>4 DEF Finish
    <2>2. QED BY <1>1, <2>1, HelperLeads
  <1>6. proc'[Copy(l)].outcome = proc[Copy(l)].outcome BY <1>4, EndedCopy
  <1>7. QED BY <1>1, <1>2, <1>5, <1>6 DEF Unfinished, Copy, Gone

\* What a run wrote down of a scope.
LEMMA LastLeads ==
  ASSUME TypeOK, NEW p \in Processes, Step(p), ~Kill(p), NEW s \in Scopes
  PROVE  \/ history'.last[s] = history.last[s] /\ ~((Drop(p) \/ RemoveState(p)) /\ Scope(p) = s)
         \/ Drop(p) /\ Scope(p) = s /\ history'.last[s] = "kept"
         \/ RemoveState(p) /\ Scope(p) = s
  <1>1. history.last \in [Scopes -> {"none", "kept", "left", "removed"}]
        /\ "last" \in DOMAIN history
    BY DEF TypeOK
  <1>0. ASSUME NEW new, history' = [history EXCEPT !.last = new] PROVE history'.last = new
    BY <1>0, <1>1
  <1>2. CASE Drop(p)
    <2>1. history' = [history EXCEPT !.last = [history.last EXCEPT ![Scope(p)] = "kept"]]
      BY <1>2 DEF Drop
    <2>2. history'.last = [history.last EXCEPT ![Scope(p)] = "kept"] BY <1>0, <2>1
    <2>3. QED BY <1>1, <1>2, <2>2
  <1>3. CASE RemoveState(p)
    <2>1. PICK how : history' = [history EXCEPT !.last = [history.last EXCEPT ![Scope(p)] = how]]
      BY <1>3 DEF RemoveState
    <2>2. history'.last = [history.last EXCEPT ![Scope(p)] = how] BY <1>0, <2>1
    <2>3. ~Drop(p) BY <1>3 DEF Drop, RemoveState
    <2>4. QED BY <1>1, <1>3, <2>2, <2>3
  <1>4. CASE ~Drop(p) /\ ~RemoveState(p) BY <1>1, <1>4, HistoryLeads
  <1>5. QED BY <1>2, <1>3, <1>4

\* What was removed of a scope is gone, or is being opened again.
LEMMA RemovedByStep ==
  ASSUME TypeOK, Placed, Preceded, NEW p \in Processes, Step(p), ~Kill(p),
         NEW s \in Scopes, RemovedAt(s)
  PROVE  RemovedAt(s)'
  <1>1. SUFFICES ASSUME history'.last[s] = "removed"
                 PROVE  /\ state'[s].db = None \/ lock'[s] # None
                        /\ state'[s].uninstaller =>
                             lock'[s] # None \/ LeftToHelper(s)' \/ Unfinished(s)'
    BY DEF RemovedAt
  <1>2. CASE RemoveState(p) /\ Scope(p) = s
    <2> DEFINE l == L(p)  stays == Here(p).uninstaller /\ Running(s)
    <2>1. /\ proc[p].pc = "remove" /\ Goes(p, "finish") /\ chain' = chain /\ l \in Launches
      BY <1>2, ProcessFacts DEF RemoveState
    <2>2. /\ history.last \in [Scopes -> {"none", "kept", "left", "removed"}]
          /\ "last" \in DOMAIN history
      BY DEF TypeOK
    <2>3. \/ Puts(s, None, stays) /\ (stays /\ Role(p) # "copy" => history'.last[s] = "left")
          \/ history'.last[s] = "left"
      <3>1. \/ /\ Puts(s, None, stays)
               /\ history' = [history EXCEPT !.last = [history.last EXCEPT ![s] =
                                IF stays /\ Role(p) # "copy" THEN "left" ELSE "removed"]]
            \/ history' = [history EXCEPT !.last = [history.last EXCEPT ![s] = "left"]]
        BY <1>2, RemovePuts
      <3>2. \A how : history' = [history EXCEPT !.last = [history.last EXCEPT ![s] = how]] =>
                       history'.last[s] = how
        <4>1. ASSUME NEW how, NEW new, new = [history.last EXCEPT ![s] = how],
                     history' = [history EXCEPT !.last = new]
              PROVE  history'.last[s] = how
          <5>1. history'.last = new BY <2>2, <4>1
          <5>2. new[s] = how BY <2>2, <4>1
          <5>3. QED BY <5>1, <5>2
        <4>2. QED BY <4>1
      <3>3. QED
        <4> HIDE DEF stays
        <4> QED BY <3>1, <3>2
    <2>4. Puts(s, None, stays) /\ (stays => Role(p) = "copy") BY <1>1, <2>3
    <2>5. state'[s].db = None /\ (state'[s].uninstaller => Role(p) = "copy")
      BY <2>4 DEF Puts
    <2>6. ASSUME Role(p) = "copy" PROVE LeftToHelper(s)'
      <3>1. p = Copy(l) /\ p = <<l, "copy">> /\ "copy" \in Roles
        BY <2>6, RoleOf DEF Copy, Roles
      <3>2. Cmd(p) # None /\ Gone(proc[p].outcome) BY <2>1 DEF Placed, PlacedAt
      <3>3. chain[l].command.exe = s /\ chain[l].command # None
        <4>1. AimedAt(l) BY <2>1 DEF Placed
        <4>2. /\ chain[l].command # None
              /\ chain[l].command.operation = "uninstall" /\ chain[l].command.exe \in Scopes
              /\ Target(l) = chain[l].command.exe
          BY <2>1, <3>1, <3>2, <4>1 DEF AimedAt, Cmd
        <4>3. proc[p].scope \in {None, Target(l)} BY <3>1, <4>1, <4>2 DEF AimedAt
        <4>4. None \notin Scopes BY ClientAssumption
        <4>5. QED BY <1>2, <4>2, <4>3, <4>4 DEF Scope
      <3>4. proc'[Copy(l)].pc = "finish" /\ proc'[Copy(l)].outcome = proc[p].outcome
        BY <2>1, <3>1, AllPlaces, GoesTo DEF Fields
      <3>5. QED BY <2>1, <3>2, <3>3, <3>4 DEF LeftToHelper, Copy, Gone
    <2>7. QED BY <2>5, <2>6
  <1>3. CASE ~(RemoveState(p) /\ Scope(p) = s)
    <2>1. history.last[s] = "removed" /\ ~(Drop(p) /\ Scope(p) = s) BY <1>1, <1>3, LastLeads
    <2>2. /\ state[s].db = None \/ lock[s] # None
          /\ state[s].uninstaller => lock[s] # None \/ LeftToHelper(s) \/ Unfinished(s)
      BY <2>1 DEF RemovedAt
    <2>3. CASE lock[s] # None
      <3>1. ~(Drop(p) /\ lock[s] = p) BY <2>1, <2>3 DEF Placed, LockedAt
      <3>2. lock'[s] # None BY <2>3, <3>1, LockLeads
      <3>3. QED BY <3>2
    <2>4. CASE lock[s] = None
      <3>1. /\ state[s].db = None
            /\ state[s].uninstaller => LeftToHelper(s)' \/ Unfinished(s)'
        BY <2>2, <2>4, LeftStays, UnfinishedStays
      <3>2. None \notin Processes BY ClientAssumption
      <3>3. CASE Open(p) /\ Scope(p) = s BY <2>4, <3>2, <3>3, LockLeads
      <3>4. CASE ~(Open(p) /\ Scope(p) = s)
        <4>1. CASE MoveAside(p) /\ Scope(p) = s
          <5>1. Still \/ Puts(s, Here(p).db, FALSE) BY <4>1, AsidePuts DEF Still
          <5>2. state'[s].db = state[s].db /\ (state'[s].uninstaller => state[s].uninstaller)
            BY <4>1, <5>1 DEF Still, Puts, Here
          <5>3. QED BY <3>1, <5>2
        <4>2. CASE ~(MoveAside(p) /\ Scope(p) = s)
          <5>1. state'[s].db = state[s].db /\ state'[s].uninstaller = state[s].uninstaller
            BY <1>3, <2>4, <3>2, <3>4, <4>2, StateLeads DEF Still, Puts, Records
          <5>2. QED BY <3>1, <5>1
        <4>3. QED BY <4>1, <4>2
      <3>5. QED BY <3>3, <3>4
    <2>5. QED BY <2>3, <2>4
  <1>4. QED BY <1>2, <1>3

LEMMA TidyByStep ==
  ASSUME TypeOK, Placed, Preceded, Tidy, NEW p \in Processes, Step(p)
  PROVE  Tidy'
  <1>1. /\ history'.killed \in {history.killed, history.killed \cup {L(p)}}
        /\ Kill(p) => L(p) \in history'.killed
    <2>1. Kill(p) => history'.killed = history.killed \cup {L(p)}
      <3>1. Kill(p) => \E last : history' = [history EXCEPT !.kills = history.kills + 1,
                              !.killed = history.killed \cup {L(p)}, !.last = last]
        BY DEF Kill
      <3>2. DOMAIN history = {"kills", "killed", "ran", "last", "met"} BY DEF TypeOK
      <3>3. QED BY <3>1, <3>2
    <2>2. QED BY <2>1, HistoryType
  <1>2. ASSUME NEW l \in Launches, l \notin history'.killed PROVE TidyAt(l)'
    BY <1>1, <1>2, TidyChain DEF Tidy
  <1>3. ASSUME history'.killed = {}, NEW s \in Scopes PROVE RemovedAt(s)'
    <2>1. ~Kill(p) /\ history.killed = {} BY <1>1, <1>3
    <2>2. QED BY <2>1, RemovedByStep DEF Tidy
  <1>4. QED BY <1>2, <1>3 DEF Tidy

\* The helper is done when there is nothing left to delete, or ends.
LEMMA TidyByHelp ==
  ASSUME TypeOK, Placed, Preceded, Tidy, NEW l \in Launches, Helps(l)
  PROVE  Tidy'
  <1> DEFINE s == chain[l].command.exe
  <1>1. /\ proc' = proc /\ chain' = chain /\ lock' = lock /\ history' = history
        /\ temp' \subseteq temp
        /\ \A k \in Launches : k # l => helper'[k] = helper[k]
        /\ helper'[l] \in {helper[l], "done", "ended"} /\ s \in Scopes
        /\ Still \/ (Deletes(l) /\ Puts(s, state[s].db, FALSE))
    BY HelpPuts
  <1>2. helper[l] \in {"waits", "uninstalled"} BY DEF Helps, Help, GivesUp
  <1>3. helper'[l] \notin {helper[l], "ended"} =>
          /\ {<<"copy", l>>, <<"aside", l>>} \cap temp' = {}
          /\ Deletes(l) => ~state'[s].uninstaller
    BY DEF Helps, Help, GivesUp, TypeOK
  <1>4. ASSUME NEW k \in Launches, k \notin history'.killed PROVE TidyAt(k)'
    <2>1. TidyAt(k) BY <1>1, <1>4 DEF Tidy
    <2>2. CASE helper'[k] = helper[k] BY <1>1, <2>1, <2>2 DEF TidyAt, HelperWorks
    <2>3. CASE helper'[k] # helper[k] BY <1>1, <1>3, <2>1, <2>3 DEF TidyAt, HelperWorks
    <2>4. QED BY <2>2, <2>3
  <1>5. ASSUME history'.killed = {}, NEW t \in Scopes, history'.last[t] = "removed"
        PROVE  /\ state'[t].db = None \/ lock'[t] # None
               /\ state'[t].uninstaller => lock'[t] # None \/ LeftToHelper(t)' \/ Unfinished(t)'
    <2>1. /\ state[t].db = None \/ lock[t] # None
          /\ state[t].uninstaller => lock[t] # None \/ LeftToHelper(t) \/ Unfinished(t)
      BY <1>1, <1>5 DEF Tidy, RemovedAt
    <2>2. state'[t].db = state[t].db /\ (state'[t].uninstaller => state[t].uninstaller)
      BY <1>1 DEF Still, Puts
    <2>3. ASSUME LeftToHelper(t), state'[t].uninstaller
          PROVE  LeftToHelper(t)' \/ Unfinished(t)'
      <3>1. PICK k \in Launches :
              /\ chain[k].command # None /\ chain[k].command.exe = t
              /\ \/ helper[k] = "uninstalled"
                 \/ proc[<<k, "copy">>].pc = "finish" /\ Gone(proc[<<k, "copy">>].outcome)
        BY <2>3 DEF LeftToHelper
      <3>2. helper[k] = "uninstalled" => helper'[k] \in {"uninstalled", "ended"}
        BY <1>1, <1>3, <2>3, <3>1 DEF Deletes
      <3>3. helper[k] = "uninstalled" => Gone(proc[<<k, "copy">>].outcome)
        BY <1>1, <1>5, <3>1 DEF Tidy, TidyAt, Copy
      <3>4. QED BY <1>1, <3>1, <3>2, <3>3 DEF LeftToHelper, Unfinished, Gone
    <2>4. Unfinished(t) => Unfinished(t)' BY <1>1, <1>2 DEF Unfinished, Gone
    <2>5. QED BY <1>1, <2>1, <2>2, <2>3, <2>4
  <1>6. QED BY <1>4, <1>5 DEF Tidy, RemovedAt

LEMMA TidyByBegins ==
  ASSUME TypeOK, Placed, Preceded, Tidy, NEW l \in Launches, Begins(l)
  PROVE  Tidy'
  <1>1. /\ proc[First(l)].pc = "none" /\ chain[l].command = None
        /\ Fields(First(l), "resolve", proc[First(l)].outcome)
        /\ \A k \in Launches : k # l => chain'[k] = chain[k]
        /\ UNCHANGED <<state, lock, temp, result, helper, legacy, history>>
    BY BeginsLeads
  <1>2. \A k \in Launches :
           /\ Copy(k) \in Processes /\ First(k) \in Processes /\ Copy(k) # First(l)
           /\ First(k) = First(l) => k = l
    BY RoleFacts DEF Copy, First
  <1>3. ASSUME NEW k \in Launches, k \notin history'.killed PROVE TidyAt(k)'
    <2>1. TidyAt(k) BY <1>1, <1>3 DEF Tidy
    <2>2. proc'[Copy(k)] = proc[Copy(k)] BY <1>1, <1>2 DEF Fields
    <2>3. proc[First(k)].pc = "wait" => proc'[First(k)].pc = "wait" BY <1>1, <1>2 DEF Fields
    <2>4. QED BY <1>1, <2>1, <2>2, <2>3 DEF TidyAt, HelperWorks, Gone
  <1>4. ASSUME NEW s \in Scopes, LeftToHelper(s) PROVE LeftToHelper(s)'
    <2>1. PICK k \in Launches :
            /\ chain[k].command # None /\ chain[k].command.exe = s
            /\ \/ helper[k] = "uninstalled"
               \/ proc[Copy(k)].pc = "finish" /\ Gone(proc[Copy(k)].outcome)
      BY <1>4 DEF LeftToHelper, Copy
    <2>2. chain'[k] = chain[k] /\ proc'[Copy(k)] = proc[Copy(k)] /\ helper' = helper
      BY <1>1, <1>2, <2>1 DEF Fields
    <2>3. QED BY <2>1, <2>2 DEF LeftToHelper, Copy, Gone
  <1>5. ASSUME NEW s \in Scopes, Unfinished(s) PROVE Unfinished(s)'
    <2>1. PICK k \in Launches :
            /\ chain[k].command # None /\ chain[k].command.exe = s
            /\ helper[k] = "ended" /\ Gone(proc[Copy(k)].outcome)
      BY <1>5 DEF Unfinished, Copy
    <2>2. chain'[k] = chain[k] /\ proc'[Copy(k)] = proc[Copy(k)] /\ helper' = helper
      BY <1>1, <1>2, <2>1 DEF Fields
    <2>3. QED BY <2>1, <2>2 DEF Unfinished, Copy, Gone
  <1>6. ASSUME history'.killed = {}, NEW s \in Scopes PROVE RemovedAt(s)'
    <2>1. RemovedAt(s) BY <1>1, <1>6 DEF Tidy
    <2>2. QED BY <1>1, <1>4, <1>5, <2>1 DEF RemovedAt
  <1>7. QED BY <1>3, <1>6 DEF Tidy

LEMMA InitTidy == Init => Tidy
  <1> SUFFICES ASSUME Init PROVE Tidy OBVIOUS
  <1>1. /\ temp = {} /\ \A s \in Scopes : history.last[s] = "none"
        /\ \A l \in Launches : helper[l] = "none"
    BY DEF Init
  <1>2. QED BY <1>1 DEF Tidy, TidyAt, RemovedAt

LEMMA TidyAlways == Spec => [](PlacedInv /\ Tidy)
  <1>1. Init => Tidy BY InitTidy
  <1>2. Tidy /\ PlacedInv /\ [Next]_vars => Tidy'
    <2> SUFFICES ASSUME Tidy, PlacedInv, [Next]_vars PROVE Tidy' OBVIOUS
    <2> USE DEF PlacedInv
    <2>1. CASE UNCHANGED vars
      BY <2>1 DEF vars, Tidy, TidyAt, RemovedAt, HelperWorks, LeftToHelper, Unfinished, Gone
    <2>2. ASSUME NEW l \in Launches, Begins(l) PROVE Tidy' BY <2>2, TidyByBegins
    <2>3. ASSUME NEW l \in Launches, Helps(l) PROVE Tidy' BY <2>3, TidyByHelp
    <2>4. ASSUME NEW p \in Processes, Step(p) PROVE Tidy' BY <2>4, TidyByStep
    <2>5. QED BY <2>1, <2>2, <2>3, <2>4 DEF Next, Helps
  <1>3. QED BY <1>1, <1>2, PlacedAlways, PTL DEF Spec

\* When everything is over and nobody was killed, no result file is left,
\* copies only where a helper left them, and a scope that was removed is gone
\* but for an uninstaller its helper did not get at.
THEOREM NothingIsLeft == Spec => []LeavesNothing
  <1>1. PlacedInv /\ Tidy => LeavesNothing
    <2> SUFFICES ASSUME PlacedInv, Tidy, AllOver, history.killed = {} PROVE
          /\ \A x \in temp :
               x[1] \in {"log", "staging"} \/ (x[1] \in {"copy", "aside"} /\ helper[x[2]] = "ended")
          /\ \A s \in Scopes : history.last[s] = "removed" =>
               state[s].db = None /\ (state[s].uninstaller => Unfinished(s))
      BY DEF LeavesNothing
    <2> USE DEF PlacedInv
    <2>1. \A k \in Launches : /\ First(k) \in Processes /\ Copy(k) \in Processes
      BY RoleFacts
    <2>2. \A k \in Launches : ~HelperWorks(k) BY DEF AllOver, HelperWorks
    <2>3. ASSUME NEW p \in Processes PROVE proc[p].pc \notin Busy0 \cup {"wait"} \cup Locked
                                             \cup {"dependencies", "legacy", "verdict"}
      BY <2>3 DEF AllOver, Alive, Busy0, Inside, Locked
    <2>4. ASSUME NEW x \in temp
          PROVE  x[1] \in {"log", "staging"} \/ (x[1] \in {"copy", "aside"} /\ helper[x[2]] = "ended")
      <3>1. PICK what \in {"result", "copy", "staging", "log", "aside"}, l \in Launches :
              x = <<what, l>>
        BY DEF TypeOK
      <3>2. TidyAt(l) BY DEF Tidy
      <3>3. what # "result" /\ (what \in {"copy", "aside"} => helper[l] = "ended")
        BY <2>1, <2>2, <2>3, <3>1, <3>2 DEF TidyAt
      <3>4. QED BY <3>1, <3>3
    <2>5. ASSUME NEW s \in Scopes, history.last[s] = "removed"
          PROVE  state[s].db = None /\ (state[s].uninstaller => Unfinished(s))
      <3>1. lock[s] = None
        <4>1. lock[s] # None => lock[s] \in Processes /\ LockedAt(s) BY DEF TypeOK, Placed
        <4>2. QED BY <2>3, <4>1 DEF LockedAt
      <3>2. ~LeftToHelper(s)
        <4>1. \A k \in Launches : helper[k] # "uninstalled" /\ proc[<<k, "copy">>].pc # "finish"
          BY <2>1, <2>2, <2>3 DEF HelperWorks, Busy0, Inside, Copy
        <4>2. QED BY <4>1 DEF LeftToHelper
      <3>3. QED BY <2>5, <3>1, <3>2 DEF Tidy, RemovedAt
    <2>6. QED BY <2>4, <2>5
  <1>2. QED BY <1>1, TidyAlways, PTL
=============================================================================
