------------------------- MODULE Dependencies_proofs -------------------------
(***************************************************************************)
(* Theorems about Dependencies: type correctness; that the product's       *)
(* transaction opens only over its requirements; that a quiet run raises   *)
(* no prompt and a restart is told; that the recorded history is what      *)
(* happened; and, where an installer has the download directory to itself, *)
(* that only verified installers are run, whatever servers hand out, and   *)
(* that nothing downloaded is left.                                        *)
(*                                                                         *)
(* The first part has the least and the greatest member of a set of        *)
(* numbers, which stand in for induction: from them follow that detection  *)
(* finds what there is, that a verdict of Ok has no failed check, that a   *)
(* manifest's chosen entry is one of its entries, and that the candidates  *)
(* are entries of the list. Leads then says once where each step takes a   *)
(* run; the inductive invariants are proved over that, and open an action  *)
(* only where they have to.                                                *)
(***************************************************************************)
EXTENDS Dependencies, FiniteSetTheorems, SequenceTheorems, WellFoundedInduction, TLAPS

(* Numbers.                                                                *)

\* A family of finite sets has one that holds no other of them.
LEMMA MinimalSet ==
  ASSUME NEW U, NEW F \in SUBSET FiniteSubsetsOf(U), F # {}
  PROVE  \E A \in F : \A B \in F : B \subseteq A => B = A
  <1>1. IsWellFoundedOn(StrictSubsetOrdering(U), FiniteSubsetsOf(U))
    BY FS_StrictSubsetOrderingWellFounded
  <1>2. PICK A \in F : \A B \in F : ~(<<B, A>> \in StrictSubsetOrdering(U)) BY <1>1, WFMin
  <1>3. ASSUME NEW B \in F, B \subseteq A, B # A PROVE FALSE
    <2>1. <<B, A>> \in (SUBSET U) \X (SUBSET U) BY DEF FiniteSubsetsOf
    <2>2. <<B, A>> \in StrictSubsetOrdering(U) BY <2>1, <1>3 DEF StrictSubsetOrdering
    <2>3. QED BY <2>2, <1>2
  <1>4. QED BY <1>3

\* A set of natural numbers has a least one.
LEMMA LeastNumber ==
  ASSUME NEW S \in SUBSET Nat, S # {}
  PROVE  \E m \in S : \A k \in S : m <= k
  <1> DEFINE F == {0 .. n : n \in S}
  <1>1. F \in SUBSET FiniteSubsetsOf(Nat)
    <2>1. \A n \in S : IsFiniteSet(0 .. n) BY FS_Interval
    <2>2. QED BY <2>1 DEF FiniteSubsetsOf
  <1>2. F # {} OBVIOUS
  <1>3. \E A \in F : \A B \in F : B \subseteq A => B = A
    <2> HIDE DEF F
    <2> QED BY <1>1, <1>2, MinimalSet
  <1>4. PICK A \in F : \A B \in F : B \subseteq A => B = A BY <1>3
  <1>5. PICK m \in S : A = 0 .. m OBVIOUS
  <1>6. ASSUME NEW k \in S, ~(m <= k) PROVE FALSE
    <2>1. 0 .. k \subseteq 0 .. m BY <1>6
    <2>2. m \in 0 .. m /\ m \notin 0 .. k BY <1>6
    <2>3. 0 .. k \in F OBVIOUS
    <2>4. 0 .. k = 0 .. m BY <2>1, <2>3, <1>4, <1>5
    <2>5. QED BY <2>2, <2>4
  <1>7. QED BY <1>6

\* A finite set of numbers has a greatest one.
LEMMA GreatestNumber ==
  ASSUME NEW S \in SUBSET Nat, IsFiniteSet(S), S # {}
  PROVE  \E m \in S : \A k \in S : k <= m
  <1> DEFINE Above(v) == {w \in S : w > v}
             F == {Above(v) : v \in S}
  <1>1. F \in SUBSET FiniteSubsetsOf(S)
    <2>1. \A n \in S : Above(n) \in SUBSET S OBVIOUS
    <2>2. \A n \in S : IsFiniteSet(Above(n)) BY <2>1, FS_Subset
    <2>3. QED BY <2>1, <2>2 DEF FiniteSubsetsOf
  <1>2. F # {} OBVIOUS
  <1>3. \E A \in F : \A B \in F : B \subseteq A => B = A
    <2> HIDE DEF F
    <2> QED BY <1>1, <1>2, MinimalSet
  <1>4. PICK A \in F : \A B \in F : B \subseteq A => B = A BY <1>3
  <1>5. PICK m \in S : A = Above(m) OBVIOUS
  <1>6. ASSUME NEW k \in S, ~(k <= m) PROVE FALSE
    <2>1. \A w \in Nat : w > k => w > m BY <1>6
    <2>2. Above(k) \subseteq Above(m) BY <2>1
    <2>3. k \in Above(m) /\ k \notin Above(k) BY <1>6
    <2>4. Above(k) \in F OBVIOUS
    <2>5. Above(k) = Above(m)
      <3> HIDE DEF Above, F
      <3> QED BY <2>4, <2>2, <1>4, <1>5
    <2>6. QED BY <2>3, <2>5
  <1>7. QED BY <1>6

LEMMA MinBelongs ==
  ASSUME NEW S \in SUBSET Nat, S # {}
  PROVE  Min(S) \in S
  BY LeastNumber DEF Min

----------------------------------------------------------------------------
(* Detection, and the shape of the state.                                  *)

LEMMA FoundIffThere ==
  ASSUME NEW S \in SUBSET Versions
  PROVE  S # {} <=> (IF S = {} THEN None
                     ELSE CHOOSE v \in S : \A w \in S : w <= v) # None
  <1>1. ASSUME S # {} PROVE \E v \in S : \A w \in S : w <= v
    <2>1. IsFiniteSet(S) /\ S \in SUBSET Nat BY DependenciesAssumption, FS_Subset
    <2>2. QED BY <2>1, <1>1, GreatestNumber
  <1>2. ASSUME S # {} PROVE (CHOOSE v \in S : \A w \in S : w <= v) \in S BY <1>1, <1>2
  <1>3. QED BY <1>2, DependenciesAssumption

\* Detection finds a version where there is one that satisfies.
LEMMA DetectFinds ==
  ASSUME machine \in [Deps -> SUBSET Versions], NEW d \in Deps
  PROVE  detect(d) # None <=> Satisfying(d) # {}
  <1>1. Satisfying(d) \in SUBSET Versions BY DEF Satisfying
  <1>2. QED BY <1>1, FoundIffThere DEF detect

\* run maps every process to a record with the fields of an idle one.
Shape == DOMAIN run = Processes /\ \A p \in Processes : DOMAIN run[p] = DOMAIN Idle

LEMMA IdleFields ==
  DOMAIN Idle = {"stage", "number", "dep", "required", "install", "elevated", "quiet", "cancel",
                 "opened", "via", "wanted", "list", "left", "accepted", "code", "events",
                 "records", "reboot", "failure", "swept", "exit"}
  BY DEF Idle

\* Inside the loop there is a dependency to be about.
InLoop(p) == run[p].stage \notin {"idle", "product", "ended"} => run[p].dep \in Deps

TInv == Shape /\ TypeOK /\ \A p \in Processes : InLoop(p)

LEMMA TInit == Init => TInv
  <1> SUFFICES ASSUME Init PROVE TInv OBVIOUS
  <1>1. Shape BY DEF Init, Shape
  <1>2. \A p \in Processes : run[p] = Idle BY DEF Init
  <1>3. machine \in [Deps -> SUBSET Versions] BY DEF Init
  <1>4. \A p \in Processes : /\ run[p].stage = "idle" /\ run[p].dep = 1 /\ run[p].number = 0
                             /\ run[p].required = {} /\ run[p].exit = None
    BY <1>2 DEF Idle
  <1>5. 0 \in 0 .. MaxRuns BY DependenciesAssumption
  <1>6. QED BY <1>1, <1>3, <1>4, <1>5 DEF Init, TInv, TypeOK, Stages, InLoop

\* A step of a run is about its own record.
Own(p) ==
  /\ Shape'
  /\ \A q \in Processes \ {p} : run'[q] = run[q]
  /\ run'[p].number = run[p].number /\ run'[p].required = run[p].required
  /\ run'[p].quiet = run[p].quiet /\ run'[p].elevated = run[p].elevated
  /\ run'[p].opened = run[p].opened
  /\ run[p].reboot => run'[p].reboot

\* Where a step leads: on within the dependency; to the end, failed; on to
\* the next dependency, or past the last, with this one found or not
\* required; to the product's transaction; to the end of the run.
Within(p) ==
  /\ run'[p].dep = run[p].dep
  /\ run'[p].stage \in Stages \ {"idle", "next", "clean", "product", "ended"}
  /\ run'[p].exit = run[p].exit /\ run'[p].failure = run[p].failure
  /\ run'[p].events = run[p].events
  /\ run'[p].stage = "ready" => /\ run'[p].accepted = run[p].wanted
                                /\ run[p].wanted.installer \in Installers
  /\ run'[p].stage = "judge" => Launch(p) /\ run'[p].accepted = run[p].accepted
  /\ run'[p].stage = "verify" => Judge(p) /\ run'[p].accepted = run[p].accepted
Failing(p) ==
  /\ run'[p].dep = run[p].dep /\ run'[p].stage = "clean"
  /\ run'[p].failure \in Failures /\ run'[p].exit = run[p].exit
  /\ run'[p].events = run[p].events
\* The events of a run that found what it installed.
AfterInstall(p) ==
  LET v == detect(run[p].dep) IN
  run[p].events
  \o <<Event(p, "acquired", Gives[run[p].accepted.installer]), Event(p, "installed", v)>>
  \o (IF run[p].code \in run[p].accepted.reboot THEN <<Event(p, "reboot_required", v)>>
      ELSE <<>>)
Passes(p) ==
  /\ run[p].stage \in {"next", "verify"}
  /\ run[p].dep \notin run[p].required \/ detect(run[p].dep) # None
  /\ machine' = machine /\ run'[p].exit = run[p].exit /\ run'[p].failure = run[p].failure
  /\ \/ run[p].dep \notin run[p].required /\ run'[p].events = run[p].events
     \/ run'[p].events = Append(run[p].events, Event(p, "detected", detect(run[p].dep)))
        /\ detect(run[p].dep) # None
     \/ /\ run[p].stage = "verify" /\ detect(run[p].dep) # None
        /\ run'[p].events = AfterInstall(p)
  /\ \/ run[p].dep = NumDeps /\ run'[p].stage = "clean" /\ run'[p].dep = run[p].dep
     \/ run[p].dep # NumDeps /\ run'[p].stage = "next" /\ run'[p].dep = run[p].dep + 1
Proceeds(p) ==
  /\ run[p].stage = "clean" /\ run[p].failure = None /\ run'[p].stage = "product"
  /\ run'[p].dep = run[p].dep /\ machine' = machine /\ run'[p].exit = None
Ending(p) ==
  /\ run'[p].dep = run[p].dep /\ run'[p].stage = "ended"
  /\ run'[p].exit \in {"installed", "reboot", "failed"}

LeadsOn(p) == Within(p) \/ Failing(p) \/ Passes(p)
Leads(p) == LeadsOn(p) \/ Proceeds(p) \/ Ending(p)

Fails(p) == \E code \in Failures : Fail(p, code)

LEMMA FailsLeads ==
  ASSUME Shape, NEW p \in Processes, Fails(p)
  PROVE  Own(p) /\ Failing(p)
  <1>1. PICK code \in Failures : Fail(p, code) BY DEF Fails
  <1>2. QED BY <1>1, IdleFields DEF Shape, Fail, Set, Own, Failing

\* Each step's effect on the run, with what fails kept apart. Only the end of
\* the phase and the product's transaction leave the loop.
LEMMA StepLeadsOn ==
  ASSUME TInv, NEW p \in Processes, Step(p), ~Clean(p), ~Product(p), ~ProductError(p)
  PROVE  Own(p) /\ LeadsOn(p)
  <1> USE IdleFields DEF Shape, TInv, TypeOK, Set, Is, Own, LeadsOn, Within, Passes
  <1>0. ASSUME Fails(p) PROVE Own(p) /\ LeadsOn(p) BY <1>0, FailsLeads
  <1>1. CASE NotRequired(p) BY <1>1 DEF NotRequired, Advance
  <1>2. CASE PayloadUnreadable(p) \/ DetectionFails(p)
    <2>1. Fails(p) BY <1>2 DEF PayloadUnreadable, DetectionFails, Fails, Failures
    <2>2. QED BY <2>1, <1>0
  <1>3. CASE Detected(p) BY <1>3 DEF Detected, Advance
  <1>4. CASE Missing(p)
    <2>1. Fails(p) \/ Set(p, [run[p] EXCEPT !.stage = "missing"])
      BY <1>4 DEF Missing, Fails, Failures
    <2>2. CASE Set(p, [run[p] EXCEPT !.stage = "missing"]) BY <2>2 DEF Stages
    <2>3. QED BY <2>1, <2>2, <1>0
  <1>5. CASE Acquire(p)
    <2>1. \/ Fails(p) \/ Set(p, [run[p] EXCEPT !.stage = "index"])
          \/ \E via, wanted : Fetch(p, via, wanted)
      <3> HIDE DEF Set
      <3> QED BY <1>5 DEF Acquire, Fails, Failures
    <2>2. CASE Set(p, [run[p] EXCEPT !.stage = "index"]) BY <2>2 DEF Stages
    <2>3. CASE \E via, wanted : Fetch(p, via, wanted) BY <2>3 DEF Fetch, Stages
    <2>4. QED BY <2>1, <2>2, <2>3, <1>0
  <1>6. CASE CreateFile(p) BY <1>6 DEF CreateFile, Stages
  <1>7. CASE Downloaded(p) BY <1>7 DEF Downloaded, Accept, Verified, Stages
  <1>8. CASE DownloadFails(p)
    <2>1. Fails(p) \/ Set(p, [run[p] EXCEPT !.stage = "index", !.accepted = None])
      <3> HIDE DEF Set
      <3> QED BY <1>8 DEF DownloadFails, Fails, Failures
    <2>2. CASE Set(p, [run[p] EXCEPT !.stage = "index", !.accepted = None])
      BY <2>2 DEF Stages
    <2>3. QED BY <2>1, <2>2, <1>0
  <1>9. CASE Extract(p)
    <2>1. Fails(p) \/ (Accept(p) /\ run[p].wanted.installer \in Installers)
      BY <1>9 DEF Extract, Fails, Failures, Verified
    <2>2. CASE Accept(p) /\ run[p].wanted.installer \in Installers
      BY <2>2 DEF Accept, Stages
    <2>3. QED BY <2>1, <2>2, <1>0
  <1>a. ASSUME Unacquirable(p) PROVE Fails(p) BY <1>a DEF Unacquirable, Fails, Failures
  <1>10. CASE FetchIndex(p)
    <2>1. Fails(p) \/ \E list : Set(p, [run[p] EXCEPT !.stage = "versions", !.list = list])
      <3> HIDE DEF Set
      <3> QED BY <1>10, <1>a DEF FetchIndex
    <2>2. CASE \E list : Set(p, [run[p] EXCEPT !.stage = "versions", !.list = list])
      BY <2>2 DEF Stages
    <2>3. QED BY <2>1, <2>2, <1>0
  <1>11. CASE FetchVersions(p)
    <2>1. Fails(p) \/ \E left : Set(p, [run[p] EXCEPT !.stage = "manifest", !.list = None,
                                                     !.left = left])
      <3> HIDE DEF Set
      <3> QED BY <1>11, <1>a DEF FetchVersions
    <2>2. CASE \E left : Set(p, [run[p] EXCEPT !.stage = "manifest", !.list = None,
                                             !.left = left])
      BY <2>2 DEF Stages
    <2>3. QED BY <2>1, <2>2, <1>0
  <1>12. CASE FetchManifest(p)
    <2>1. \/ Fails(p) \/ Set(p, [run[p] EXCEPT !.left = Tail(@)])
          \/ \E wanted : Set(p, [run[p] EXCEPT !.stage = "download", !.via = "catalog",
                                               !.left = <<>>, !.wanted = wanted])
      <3> HIDE DEF Set
      <3> QED BY <1>12, <1>a DEF FetchManifest
    <2>2. CASE Set(p, [run[p] EXCEPT !.left = Tail(@)])
      BY <1>12, <2>2 DEF FetchManifest, Stages
    <2>3. CASE \E wanted : Set(p, [run[p] EXCEPT !.stage = "download", !.via = "catalog",
                                               !.left = <<>>, !.wanted = wanted])
      BY <2>3 DEF Stages
    <2>4. QED BY <2>1, <2>2, <2>3, <1>0
  <1>13. CASE Refuse(p)
    <2>1. Fails(p) BY <1>13 DEF Refuse, Fails, Failures
    <2>2. QED BY <2>1, <1>0
  <1>14. CASE Launch(p)
    <2>1. \E code : Set(p, [run[p] EXCEPT !.stage = "judge", !.code = code])
      <3> HIDE DEF Set
      <3> QED BY <1>14 DEF Launch
    <2>2. QED BY <1>14, <2>1 DEF Stages
  <1>15. CASE Judge(p)
    <2>1. Fails(p) \/ Set(p, [run[p] EXCEPT !.stage = "verify"])
      BY <1>15 DEF Judge, Fails, Failures
    <2>2. CASE Set(p, [run[p] EXCEPT !.stage = "verify"]) BY <1>15, <2>2 DEF Stages
    <2>3. QED BY <2>1, <2>2, <1>0
  <1>16. CASE Installed(p)
    <2> DEFINE now == [run[p] EXCEPT !.events = AfterInstall(p),
                         !.records = @ \cup {<<run[p].dep,
                            IF run[p].code \in run[p].accepted.reboot THEN "reboot_required"
                            ELSE "installed">>},
                         !.reboot = @ \/ run[p].code \in run[p].accepted.reboot,
                         !.accepted = None, !.wanted = None]
    <2>1. Advance(p, now) BY <1>16 DEF Installed, AfterInstall
    <2>2. /\ run[p].stage = "verify" /\ detect(run[p].dep) # None /\ machine' = machine
      BY <1>16 DEF Installed, FoundAgain
    <2>3. QED BY <2>1, <2>2 DEF Advance
  <1>17. CASE NotVerified(p)
    <2>1. Fails(p) BY <1>17 DEF NotVerified, Fails, Failures
    <2>2. QED BY <2>1, <1>0
  <1>18. QED
    BY <1>1, <1>2, <1>3, <1>4, <1>5, <1>6, <1>7, <1>8, <1>9, <1>10, <1>11, <1>12, <1>13,
       <1>14, <1>15, <1>16, <1>17 DEF Step

LEMMA StepLeads ==
  ASSUME TInv, NEW p \in Processes, Step(p)
  PROVE  Own(p) /\ Leads(p)
  <1> USE IdleFields DEF Shape, TInv, TypeOK, Set, Is, Own, Leads, Proceeds, Ending
  <1>1. CASE Clean(p) BY <1>1 DEF Clean
  <1>2. CASE Product(p) BY <1>2 DEF Product
  <1>3. CASE ProductError(p) BY <1>3 DEF ProductError
  <1>4. CASE ~Clean(p) /\ ~Product(p) /\ ~ProductError(p) BY <1>4, StepLeadsOn
  <1>5. QED BY <1>1, <1>2, <1>3, <1>4

\* A step adds to the machine and leaves the numbers of the others alone.
LEMMA StepAround ==
  ASSUME TInv, NEW p \in Processes, Step(p)
  PROVE  /\ runs' = runs /\ meddled' = meddled
         /\ machine' \in [Deps -> SUBSET Versions]
         /\ \A d \in Deps : machine[d] \subseteq machine'[d]
  <1> USE DEF TInv, TypeOK
  <1>1. CASE Launch(p)
    <2>1. Gives \in [Installers -> Versions] BY DependenciesAssumption
    <2>2. QED BY <1>1, <2>1 DEF Launch
  <1>2. CASE ~Launch(p)
    BY <1>2 DEF Step, NotRequired, PayloadUnreadable, DetectionFails, Detected, Missing,
         Acquire, CreateFile,
         Downloaded, DownloadFails, Extract, FetchIndex, FetchVersions, FetchManifest, Refuse,
         Judge, Installed, NotVerified, Clean, Product, ProductError
  <1>3. QED BY <1>1, <1>2

\* The four kinds of step, and what each does to the runs.
LEMMA StartLeads ==
  ASSUME TInv, NEW p \in Processes, Start(p)
  PROVE  /\ Shape' /\ \A q \in Processes \ {p} : run'[q] = run[q]
         /\ run'[p].number = runs + 1 /\ run'[p].required \in OptionSets
         /\ run'[p].dep = 1 /\ run'[p].exit = None
         /\ run'[p].failure = None /\ run'[p].reboot = FALSE
         /\ run'[p].events = <<>> /\ run'[p].opened = (database # None)
         /\ run'[p].stage = (IF NumDeps = 0 THEN "product" ELSE "next")
  BY IdleFields DEF Start, TInv, Shape, Idle

LEMMA CancelLeads ==
  ASSUME TInv, NEW p \in Processes, Cancel(p)
  PROVE  Own(p) /\ run' = [run EXCEPT ![p].cancel = TRUE]
  BY IdleFields DEF Cancel, TInv, Shape, Own, Set

LEMMA CrashLeads ==
  ASSUME TInv, NEW p \in Processes, Crash(p)
  PROVE  /\ Shape' /\ \A q \in Processes \ {p} : run'[q] = run[q]
         /\ run'[p] = Idle
  BY IdleFields DEF Crash, TInv, Shape

RunTypes(p) ==
  /\ run[p].stage \in Stages
  /\ run[p].dep \in Deps \cup {1} /\ run[p].number \in 0 .. MaxRuns
  /\ run[p].required \subseteq Deps
  /\ run[p].exit \in {None, "installed", "reboot", "failed"}
  /\ InLoop(p)

\* A step is of a run that goes on, and ends it where the product is due.
LEMMA StepInside ==
  ASSUME TInv, NEW p \in Processes, Step(p)
  PROVE  /\ run[p].stage \notin {"idle", "ended"}
         /\ run[p].stage = "product" => Ending(p)
  <1>1. run[p].stage \notin {"idle", "ended"}
    BY DEF Step, NotRequired, PayloadUnreadable, DetectionFails, Detected, Missing, Acquire,
         CreateFile,
         Downloaded, DownloadFails, Extract, FetchIndex, FetchVersions, FetchManifest, Refuse,
         Launch, Judge, Installed, NotVerified, Clean, Product, ProductError, Is
  <1>2. ASSUME run[p].stage = "product" PROVE Product(p) \/ ProductError(p)
    BY <1>2 DEF Step, NotRequired, PayloadUnreadable, DetectionFails, Detected, Missing,
         Acquire, CreateFile,
         Downloaded, DownloadFails, Extract, FetchIndex, FetchVersions, FetchManifest, Refuse,
         Launch, Judge, Installed, NotVerified, Clean, Is
  <1>3. ASSUME Product(p) \/ ProductError(p) PROVE Ending(p)
    <2>1. CASE Product(p)
      <3>1. PICK result \in {"installed", "failed"} :
                 Set(p, [run[p] EXCEPT !.stage = "ended",
                           !.exit = IF result = "installed" /\ run[p].reboot THEN "reboot"
                                    ELSE result])
        BY <2>1 DEF Product
      <3>2. QED BY <3>1, IdleFields DEF TInv, Shape, Set, Ending
    <2>2. CASE ProductError(p)
      BY <2>2, IdleFields DEF ProductError, TInv, Shape, Set, Ending
    <2>3. QED BY <1>3, <2>1, <2>2
  <1>4. QED BY <1>1, <1>2, <1>3

LEMMA StepTypes ==
  ASSUME TInv, NEW p \in Processes, Step(p), Own(p), Leads(p)
  PROVE  RunTypes(p)'
  <1> USE DEF TInv, TypeOK, Own, RunTypes, Deps
  <1>1. run'[p].stage \in Stages /\ run'[p].exit \in {None, "installed", "reboot", "failed"}
    BY DEF Leads, LeadsOn, Within, Failing, Passes, Proceeds, Ending, Stages
  <1>2. run'[p].dep \in Deps \cup {1} /\ InLoop(p)'
    <2>0. run[p].stage = "product" => Ending(p) BY StepInside
    <2>1. CASE Passes(p)
      <3>1. run[p].dep \in 1 .. NumDeps BY <2>1 DEF Passes, InLoop
      <3>2. run'[p].dep \in 1 .. NumDeps BY <2>1, <3>1, DependenciesAssumption DEF Passes
      <3>3. QED BY <3>2 DEF InLoop
    <2>2. CASE Within(p) \/ Failing(p)
      <3>1. run[p].stage # "product" BY <2>2, <2>0 DEF Within, Failing, Ending
      <3>2. run[p].dep \in Deps BY <3>1, StepInside DEF InLoop
      <3>3. QED BY <2>2, <3>2 DEF Within, Failing, InLoop
    <2>3. CASE Proceeds(p) \/ Ending(p) BY <2>3 DEF Proceeds, Ending, InLoop
    <2>4. QED BY <2>1, <2>2, <2>3 DEF Leads, LeadsOn
  <1>3. QED BY <1>1, <1>2

\* The rest of the machine, whatever the step.
LEMMA FilesTypes ==
  ASSUME TInv, Next
  PROVE  /\ files' \in [Names -> Installers \cup {None, Partial}]
         /\ directory' \in BOOLEAN /\ holder' \in Processes \cup {None}
  <1> USE DEF TInv, TypeOK
  <1>1. ASSUME NEW p \in Processes, Start(p) \/ Cancel(p) \/ Crash(p)
        PROVE  /\ files' = files /\ directory' = directory
               /\ holder' \in Processes \cup {None}
    BY <1>1 DEF Start, Cancel, Crash
  <1>2. ASSUME NEW d \in Deps, Meddle(d)
        PROVE  UNCHANGED <<files, directory, holder>>
    BY <1>2 DEF Meddle
  <1>3. ASSUME NEW p \in Processes, Step(p)
        PROVE  /\ files' \in [Names -> Installers \cup {None, Partial}]
               /\ directory' \in BOOLEAN /\ holder' \in Processes \cup {None}
    <2>1. CASE CreateFile(p) BY <2>1 DEF CreateFile
    <2>2. CASE Downloaded(p)
      <3>1. PICK now \in Installers \cup {Partial} :
                 files' = [files EXCEPT ![Target(p)] = IF @ = None THEN None ELSE now]
        BY <2>2 DEF Downloaded
      <3>2. QED BY <2>2, <3>1 DEF Downloaded
    <2>3. CASE DownloadFails(p)
      <3>1. files' = files \/ \E rest \in {None, Partial} :
                                files' = [files EXCEPT ![Target(p)] = rest]
        BY <2>3 DEF DownloadFails
      <3>2. QED BY <2>3, <3>1 DEF DownloadFails
    <2>4. CASE Extract(p)
      <3>1. files' = files \/ \E bytes \in Installers :
                                files' = [files EXCEPT ![Target(p)] = bytes]
        BY <2>4 DEF Extract
      <3>2. QED BY <2>4, <3>1 DEF Extract
    <2>5. CASE Clean(p) BY <2>5 DEF Clean
    <2>6. CASE Missing(p) BY <2>6 DEF Missing
    <2>7. CASE Product(p) \/ ProductError(p) BY <2>7 DEF Product, ProductError
    <2>8. CASE /\ ~CreateFile(p) /\ ~Downloaded(p) /\ ~DownloadFails(p) /\ ~Extract(p)
               /\ ~Clean(p) /\ ~Missing(p) /\ ~Product(p) /\ ~ProductError(p)
      BY <1>3, <2>8 DEF Step, NotRequired, PayloadUnreadable, DetectionFails, Detected,
           Acquire, FetchIndex,
           FetchVersions, FetchManifest, Refuse, Launch, Judge, Installed, NotVerified
    <2>9. QED BY <2>1, <2>2, <2>3, <2>4, <2>5, <2>6, <2>7, <2>8
  <1>4. QED BY <1>1, <1>2, <1>3 DEF Next

LEMMA TNext ==
  ASSUME TInv, [Next]_vars
  PROVE  TInv'
  <1> USE DEF TInv
  <1>1. CASE UNCHANGED vars BY <1>1 DEF vars, Shape, TypeOK, InLoop
  <1>2. ASSUME Next PROVE TInv'
    <2>1. ASSUME Shape', \A p \in Processes : RunTypes(p)', runs' \in 0 .. MaxRuns,
                 machine' \in [Deps -> SUBSET Versions]
          PROVE  TInv'
      BY <2>1, <1>2, FilesTypes DEF TypeOK, RunTypes
    <2>2. \A q \in Processes : run'[q] = run[q] => RunTypes(q)'
      BY DEF TypeOK, RunTypes, InLoop
    <2>3. ASSUME NEW p \in Processes, Start(p) PROVE TInv'
      <3>1. RunTypes(p)'
        <4>0. runs + 1 \in 0 .. MaxRuns BY <2>3, DependenciesAssumption DEF Start, TypeOK
        <4>1. run'[p].number \in 0 .. MaxRuns BY <2>3, <4>0, StartLeads
        <4>2. run'[p].required \subseteq Deps
          BY <2>3, StartLeads, DependenciesAssumption DEF Deps
        <4>3. InLoop(p)'
          <5>1. NumDeps # 0 => 1 \in Deps BY DependenciesAssumption DEF Deps
          <5>2. QED BY <2>3, <5>1, StartLeads DEF InLoop
        <4>4. QED BY <4>1, <4>2, <4>3, <2>3, StartLeads DEF RunTypes, Stages
      <3>2. runs' \in 0 .. MaxRuns BY <2>3, DependenciesAssumption DEF Start, TypeOK
      <3>3. machine' = machine BY <2>3 DEF Start
      <3>4. QED BY <2>1, <2>2, <2>3, <3>1, <3>2, <3>3, StartLeads DEF TypeOK
    <2>4. ASSUME NEW p \in Processes, Cancel(p) PROVE TInv'
      <3>1. RunTypes(p)'
        BY <2>4, CancelLeads, IdleFields DEF RunTypes, TypeOK, Shape, InLoop
      <3>2. runs' = runs /\ machine' = machine BY <2>4 DEF Cancel
      <3>3. QED BY <2>1, <2>2, <2>4, <3>1, <3>2, CancelLeads DEF TypeOK, Own
    <2>5. ASSUME NEW p \in Processes, Crash(p) PROVE TInv'
      <3>1. RunTypes(p)'
        <4>1. 0 \in 0 .. MaxRuns BY DependenciesAssumption
        <4>2. QED BY <4>1, <2>5, CrashLeads DEF RunTypes, Idle, Stages, InLoop
      <3>2. runs' = runs /\ machine' = machine BY <2>5 DEF Crash
      <3>3. QED BY <2>1, <2>2, <2>5, <3>1, <3>2, CrashLeads DEF TypeOK
    <2>6. ASSUME NEW p \in Processes, Step(p) PROVE TInv'
      <3>1. Own(p) /\ Leads(p) BY <2>6, StepLeads
      <3>2. RunTypes(p)' BY <2>6, <3>1, StepTypes
      <3>3. QED BY <2>1, <2>2, <2>6, <3>1, <3>2, StepAround DEF TypeOK, Own
    <2>7. ASSUME NEW d \in Deps, Meddle(d) PROVE TInv'
      <3>1. run' = run /\ runs' = runs /\ machine' \in [Deps -> SUBSET Versions]
        BY <2>7 DEF Meddle, TypeOK
      <3>2. QED BY <2>1, <2>2, <3>1 DEF TypeOK, Shape, InLoop
    <2>8. QED BY <1>2, <2>3, <2>4, <2>5, <2>6, <2>7 DEF Next
  <1>3. QED BY <1>1, <1>2

\* Every variable keeps its type.
THEOREM TypeCorrect == Spec => []TypeOK
  <1>1. TInv => TypeOK BY DEF TInv
  <1>2. QED BY <1>1, TInit, TNext, PTL DEF Spec

----------------------------------------------------------------------------
(* The product's transaction opens over its requirements.                  *)

\* A required dependency is detected, or somebody removed it meanwhile.
Holds(p, d) == d \in run[p].required => detect(d) # None \/ <<p, d>> \in meddled

\* The dependencies behind the current one hold; past the last, all do.
Behind(p) ==
  run[p].stage \notin {"idle", "ended"} =>
    /\ \A d \in Deps : d < run[p].dep => Holds(p, d)
    /\ \/ run[p].stage = "product"
       \/ run[p].stage = "clean" /\ run[p].failure = None
       => \A d \in Deps : Holds(p, d)

RInv == TInv /\ \A p \in Processes : Behind(p)

LEMMA DetectGrows ==
  ASSUME TInv, TInv', NEW d \in Deps, machine[d] \subseteq machine'[d], detect(d) # None
  PROVE  detect(d)' # None
  <1>1. Satisfying(d) # {} BY DetectFinds DEF TInv, TypeOK
  <1>2. Satisfying(d)' # {} BY <1>1 DEF Satisfying
  <1>3. Satisfying(d)' \in SUBSET Versions BY DEF Satisfying, TInv, TypeOK
  <1>4. QED BY <1>2, <1>3, FoundIffThere DEF detect

\* What held goes on to hold where the machine has only grown.
LEMMA HoldsOn ==
  ASSUME TInv, TInv', NEW p \in Processes, NEW d \in Deps, Holds(p, d),
         run'[p].required = run[p].required, machine[d] \subseteq machine'[d],
         <<p, d>> \in meddled => <<p, d>> \in meddled'
  PROVE  Holds(p, d)'
  BY DetectGrows DEF Holds

LEMMA BehindOther ==
  ASSUME TInv, TInv', NEW p \in Processes, Behind(p), run'[p] = run[p],
         \A d \in Deps : machine[d] \subseteq machine'[d],
         \A d \in Deps : <<p, d>> \in meddled => <<p, d>> \in meddled'
  PROVE  Behind(p)'
  <1>1. \A d \in Deps : Holds(p, d) => Holds(p, d)' BY HoldsOn
  <1>2. QED BY <1>1 DEF Behind

LEMMA BehindStep ==
  ASSUME TInv, TInv', NEW p \in Processes, Behind(p), Step(p)
  PROVE  Behind(p)'
  <1>1. Own(p) /\ Leads(p) BY StepLeads
  <1>2. run[p].stage \notin {"idle", "ended"} /\ (run[p].stage = "product" => Ending(p))
    BY StepInside
  <1>3. \A d \in Deps : Holds(p, d) => Holds(p, d)'
    <2>1. run'[p].required = run[p].required BY <1>1 DEF Own
    <2>2. QED BY <2>1, StepAround, HoldsOn
  <1>4. \A d \in Deps : d < run[p].dep => Holds(p, d)' BY <1>2, <1>3 DEF Behind
  <1>5. CASE Within(p) BY <1>4, <1>5 DEF Within, Behind
  <1>6. CASE Failing(p) BY <1>4, <1>6, DependenciesAssumption DEF Failing, Behind
  <1>7. CASE Passes(p)
    <2>1. run[p].dep \in Deps BY <1>7 DEF Passes, TInv, InLoop
    <2>2. Holds(p, run[p].dep) BY <1>7 DEF Passes, Holds
    <2>3. \A d \in Deps : d <= run[p].dep => Holds(p, d)'
      <3>1. \A d \in Deps : d <= run[p].dep => d < run[p].dep \/ d = run[p].dep
        BY <2>1 DEF Deps
      <3>2. QED BY <3>1, <1>3, <1>4, <2>1, <2>2
    <2>4. CASE run[p].dep = NumDeps /\ run'[p].stage = "clean" /\ run'[p].dep = run[p].dep
      <3>1. \A d \in Deps : d <= run[p].dep BY <2>4, DependenciesAssumption DEF Deps
      <3>2. QED BY <3>1, <2>3 DEF Behind
    <2>5. CASE run[p].dep # NumDeps /\ run'[p].stage = "next" /\ run'[p].dep = run[p].dep + 1
      <3> DEFINE k == run[p].dep
      <3>1. \A d \in Deps : d < k + 1 => d <= k BY <2>1 DEF Deps
      <3>2. QED BY <3>1, <2>3, <2>5 DEF Behind
    <2>6. QED BY <1>7, <2>4, <2>5 DEF Passes
  <1>8. CASE Proceeds(p) BY <1>2, <1>3, <1>4, <1>8 DEF Proceeds, Behind
  <1>9. CASE Ending(p) BY <1>9 DEF Ending, Behind
  <1>10. QED BY <1>1, <1>5, <1>6, <1>7, <1>8, <1>9 DEF Leads, LeadsOn

LEMMA RInit == Init => RInv
  <1>1. Init => \A p \in Processes : run[p].stage = "idle" BY DEF Init, Idle
  <1>2. QED BY <1>1, TInit DEF RInv, Behind

LEMMA RNext ==
  ASSUME RInv, [Next]_vars
  PROVE  RInv'
  <1> USE DEF RInv
  <1>0. TInv' BY TNext
  <1>1. CASE UNCHANGED vars
    <2>1. ASSUME NEW p \in Processes PROVE Behind(p)' BY <1>0, <1>1, BehindOther DEF vars
    <2>2. QED BY <1>0, <2>1
  <1>2. ASSUME NEW p \in Processes, Start(p) PROVE \A q \in Processes : Behind(q)'
    <2>1. Behind(p)'
      <3>1. \A d \in Deps : ~(d < 1) BY DEF Deps
      <3>2. CASE NumDeps = 0
        <4>1. Deps = {} BY <3>2 DEF Deps
        <4>2. QED BY <4>1 DEF Behind
      <3>3. CASE NumDeps # 0 BY <1>2, <3>1, <3>3, StartLeads DEF Behind
      <3>4. QED BY <3>2, <3>3
    <2>2. ASSUME NEW q \in Processes \ {p} PROVE Behind(q)'
      <3>1. run'[q] = run[q] /\ machine' = machine BY <1>2, StartLeads DEF Start
      <3>2. \A d \in Deps : <<q, d>> \in meddled => <<q, d>> \in meddled' BY <1>2 DEF Start
      <3>3. QED BY <1>0, <3>1, <3>2, BehindOther
    <2>3. QED BY <2>1, <2>2
  <1>3. ASSUME NEW p \in Processes, Cancel(p) PROVE \A q \in Processes : Behind(q)'
    <2>1. machine' = machine /\ meddled' = meddled BY <1>3 DEF Cancel
    <2>2. Behind(p)'
      <3>1. /\ run'[p].stage = run[p].stage /\ run'[p].dep = run[p].dep
            /\ run'[p].failure = run[p].failure /\ run'[p].required = run[p].required
        BY <1>3, CancelLeads, IdleFields DEF TInv, Shape
      <3>2. \A d \in Deps : Holds(p, d) => Holds(p, d)' BY <1>0, <2>1, <3>1, HoldsOn
      <3>3. QED BY <3>1, <3>2 DEF Behind
    <2>3. ASSUME NEW q \in Processes \ {p} PROVE Behind(q)'
      BY <1>0, <1>3, <2>1, CancelLeads, BehindOther DEF Own
    <2>4. QED BY <2>2, <2>3
  <1>4. ASSUME NEW p \in Processes, Crash(p) PROVE \A q \in Processes : Behind(q)'
    <2>1. Behind(p)' BY <1>4, CrashLeads DEF Behind, Idle
    <2>2. ASSUME NEW q \in Processes \ {p} PROVE Behind(q)'
      <3>1. run'[q] = run[q] /\ machine' = machine BY <1>4, CrashLeads DEF Crash
      <3>2. \A d \in Deps : <<q, d>> \in meddled => <<q, d>> \in meddled' BY <1>4 DEF Crash
      <3>3. QED BY <1>0, <3>1, <3>2, BehindOther
    <2>3. QED BY <2>1, <2>2
  <1>5. ASSUME NEW p \in Processes, Step(p) PROVE \A q \in Processes : Behind(q)'
    <2>1. ASSUME NEW q \in Processes \ {p} PROVE Behind(q)'
      BY <1>0, <1>5, StepLeads, StepAround, BehindOther DEF Own
    <2>2. QED BY <1>0, <1>5, <2>1, BehindStep
  <1>6. ASSUME NEW d \in Deps, Meddle(d) PROVE \A q \in Processes : Behind(q)'
    <2>1. run' = run /\ meddled \subseteq meddled' BY <1>6 DEF Meddle
    <2>2. ASSUME NEW q \in Processes PROVE Behind(q)'
      <3>1. CASE run[q].stage \in {"idle", "ended"} BY <2>1, <3>1 DEF Behind
      <3>2. CASE run[q].stage \notin {"idle", "ended"}
        <4>1. \A e \in Deps : machine[e] \subseteq machine'[e] \/ <<q, e>> \in meddled'
          BY <1>6, <3>2 DEF Meddle, TInv, TypeOK
        <4>2. \A e \in Deps : Holds(q, e) => Holds(q, e)'
          <5>1. ASSUME NEW e \in Deps, Holds(q, e) PROVE Holds(q, e)'
            <6>1. CASE <<q, e>> \in meddled' BY <6>1 DEF Holds
            <6>2. CASE machine[e] \subseteq machine'[e] BY <1>0, <2>1, <5>1, <6>2, HoldsOn
            <6>3. QED BY <4>1, <6>1, <6>2
          <5>2. QED BY <5>1
        <4>3. QED BY <2>1, <4>2 DEF Behind
      <3>3. QED BY <3>1, <3>2
    <2>3. QED BY <2>2
  <1>7. QED BY <1>0, <1>1, <1>2, <1>3, <1>4, <1>5, <1>6 DEF Next

\* The product's transaction opens with every required dependency detected,
\* unless somebody removed it during the run.
THEOREM RequirementsComeFirst == Spec => []RequirementsHold
  <1>1. RInv => RequirementsHold
    <2>1. ASSUME RInv, NEW p \in Processes, Is(p, "product"), NEW d \in run[p].required
          PROVE  detect(d) # None \/ <<p, d>> \in meddled
      BY <2>1 DEF RInv, Behind, Is, Holds, TInv, TypeOK
    <2>2. QED BY <2>1 DEF RequirementsHold
  <1>2. QED BY <1>1, RInit, RNext, PTL DEF Spec

----------------------------------------------------------------------------
(* No prompt in a quiet run, and a restart is told.                        *)

\* The runs are numbered apart, and an installer is run by one of them.
Numbered(p) ==
  /\ run[p].number <= runs
  /\ run[p].stage = "idle" <=> run[p].number = 0
Apart(p, q) == p # q /\ run[p].number = run[q].number => run[p].number = 0

\* A restart is not forgotten: it is about to be noted, or is noted, or the
\* run has failed.
Pending(p) ==
  /\ run[p].exit # "installed"
  /\ \/ run[p].reboot
     \/ run[p].stage \in {"judge", "verify"} /\ run[p].code \in run[p].accepted.reboot
     \/ run[p].stage = "clean" /\ run[p].failure \in Failures
     \/ run[p].stage = "ended"

Told(p) == \A r \in ran : r.run = run[p].number /\ r.reboot => Pending(p)

AInv ==
  /\ TInv
  /\ \A p \in Processes : Numbered(p) /\ \A q \in Processes : Apart(p, q)
  /\ \A p \in Processes : run[p].exit = "installed" => run[p].stage = "ended"
  /\ \A r \in ran : r.run \in 1 .. runs /\ (r.prompt => ~r.quiet)
  /\ \A p \in Processes : Told(p)

\* What a run does next follows from where it is.
LEMMA StepByStage ==
  ASSUME NEW p \in Processes, Step(p)
  PROVE  /\ run[p].stage = "judge" => Judge(p)
         /\ run[p].stage = "verify" => Installed(p) \/ NotVerified(p)
         /\ run[p].stage = "clean" => Clean(p)
         /\ run[p].stage = "product" => Product(p) \/ ProductError(p)
  BY DEF Step, NotRequired, PayloadUnreadable, DetectionFails, Detected, Missing, Acquire,
       CreateFile,
       Downloaded, DownloadFails, Extract, FetchIndex, FetchVersions, FetchManifest, Refuse,
       Launch, Judge, Installed, NotVerified, Clean, Product, ProductError, Is

\* Only the launch of an installer is remembered, with its run's number.
LEMMA RanGrows ==
  ASSUME NEW p \in Processes, Step(p)
  PROVE  ran' = ran \/ Launch(p)
  BY DEF Step, NotRequired, PayloadUnreadable, DetectionFails, Detected, Missing, Acquire,
       CreateFile,
       Downloaded, DownloadFails, Extract, FetchIndex, FetchVersions, FetchManifest, Refuse,
       Judge, Installed, NotVerified, Clean, Product, ProductError

LEMMA StepExits ==
  ASSUME TInv, NEW p \in Processes, Step(p),
         run[p].exit = "installed" => run[p].stage = "ended"
  PROVE  run'[p].stage # "ended" => run'[p].exit # "installed"
  <1>1. run[p].exit # "installed" BY StepInside
  <1>2. QED
    BY <1>1, StepLeads, DependenciesAssumption
       DEF Leads, LeadsOn, Within, Failing, Passes, Proceeds, Ending

\* A step keeps a restart pending.
LEMMA StepTells ==
  ASSUME TInv, NEW p \in Processes, Step(p), Pending(p)
  PROVE  Pending(p)'
  <1> USE IdleFields DEF TInv, Shape
  <1>1. run[p].exit # "installed" /\ run[p].stage # "ended" BY StepInside DEF Pending
  <1>2. CASE run[p].reboot
    <2>1. run'[p].reboot BY <1>2, StepLeads DEF Own
    <2>2. run'[p].exit # "installed"
      <3>1. CASE Product(p) BY <1>2, <3>1 DEF Product, Set
      <3>2. CASE ProductError(p) BY <3>2 DEF ProductError, Set
      <3>3. CASE Clean(p) BY <3>3, DependenciesAssumption DEF Clean, Set
      <3>4. CASE ~Product(p) /\ ~ProductError(p) /\ ~Clean(p)
        <4>1. run[p].stage \notin {"clean", "product"} BY <3>4, StepByStage
        <4>2. LeadsOn(p) BY <3>4, StepLeadsOn
        <4>3. QED BY <1>1, <4>2 DEF LeadsOn, Within, Failing, Passes
      <3>5. QED BY <3>1, <3>2, <3>3, <3>4
    <2>3. QED BY <2>1, <2>2 DEF Pending
  <1>3. CASE run[p].stage = "judge" /\ run[p].code \in run[p].accepted.reboot
    <2>1. Judge(p) BY <1>3, StepByStage
    <2>2. Fails(p) \/ Set(p, [run[p] EXCEPT !.stage = "verify"])
      BY <2>1 DEF Judge, Fails, Failures
    <2>3. CASE Fails(p) BY <1>1, <2>3, FailsLeads DEF Failing, Pending
    <2>4. CASE Set(p, [run[p] EXCEPT !.stage = "verify"])
      BY <1>1, <1>3, <2>4 DEF Set, Pending
    <2>5. QED BY <2>2, <2>3, <2>4
  <1>4. CASE run[p].stage = "verify" /\ run[p].code \in run[p].accepted.reboot
    <2>1. CASE Installed(p) BY <1>1, <1>4, <2>1 DEF Installed, Advance, Set, Pending
    <2>2. CASE NotVerified(p)
      <3>1. Fails(p) BY <2>2 DEF NotVerified, Fails, Failures
      <3>2. QED BY <1>1, <3>1, FailsLeads DEF Failing, Pending
    <2>3. QED BY <1>4, <2>1, <2>2, StepByStage
  <1>5. CASE run[p].stage = "clean" /\ run[p].failure \in Failures
    <2>1. Clean(p) BY <1>5, StepByStage
    <2>2. QED BY <1>5, <2>1, DependenciesAssumption DEF Clean, Set, Pending
  <1>6. QED BY <1>1, <1>2, <1>3, <1>4, <1>5 DEF Pending

LEMMA AInit == Init => AInv
  <1> SUFFICES ASSUME Init PROVE AInv OBVIOUS
  <1>1. \A p \in Processes : /\ run[p].stage = "idle" /\ run[p].number = 0
                             /\ run[p].exit = None
    BY DEF Init, Idle
  <1>2. ran = {} /\ runs = 0 BY DEF Init
  <1>3. QED BY <1>1, <1>2, TInit, DependenciesAssumption DEF AInv, Numbered, Apart, Told

\* Numbers stay apart where one run keeps its number and others are unchanged.
LEMMA NumbersStay ==
  ASSUME AInv, NEW p \in Processes, runs' = runs, run'[p].number \in {0, run[p].number},
         run'[p].stage = "idle" <=> run'[p].number = 0,
         \A q \in Processes \ {p} : run'[q] = run[q]
  PROVE  \A q \in Processes : Numbered(q)' /\ \A s \in Processes : Apart(q, s)'
  <1>1. \A q \in Processes : run'[q].number \in {0, run[q].number} OBVIOUS
  <1>2. \A q \in Processes : run'[q].stage = "idle" <=> run'[q].number = 0
    BY DEF AInv, Numbered
  <1>3. \A q \in Processes : run'[q].number <= runs'
    BY <1>1 DEF AInv, Numbered, TInv, TypeOK
  <1>4. QED BY <1>1, <1>2, <1>3 DEF AInv, Numbered, Apart

LEMMA ANext ==
  ASSUME AInv, [Next]_vars
  PROVE  AInv'
  <1>0. TInv /\ TInv' BY TNext DEF AInv
  <1>1. CASE UNCHANGED vars BY <1>0, <1>1 DEF AInv, vars, Numbered, Apart, Told, Pending
  <1>2. ASSUME NEW p \in Processes, Start(p) PROVE AInv'
    <2>1. runs' = runs + 1 /\ runs \in Nat /\ ran' = ran
      BY <1>0, <1>2 DEF Start, TInv, TypeOK
    <2>2. \A q \in Processes : q # p => run'[q] = run[q] BY <1>0, <1>2, StartLeads
    <2>3. \A q \in Processes : run[q].number \in 0 .. runs
      BY <1>0 DEF AInv, Numbered, TInv, TypeOK
    <2>4. run'[p].number = runs + 1 /\ run'[p].stage # "idle" /\ run'[p].exit = None
      BY <1>0, <1>2, StartLeads
    <2>5. \A q \in Processes : Numbered(q)' BY <2>1, <2>2, <2>3, <2>4 DEF AInv, Numbered
    <2>6. \A q, s \in Processes : Apart(q, s)'
      <3>1. \A q \in Processes : q # p => run'[q].number # runs + 1 BY <2>1, <2>2, <2>3
      <3>2. QED BY <2>2, <2>4, <3>1 DEF AInv, Apart
    <2>7. \A r \in ran : r.run \in 1 .. runs' /\ r.run # runs + 1 BY <2>1 DEF AInv
    <2>8. \A q \in Processes : Told(q)' BY <2>1, <2>2, <2>4, <2>7 DEF AInv, Told, Pending
    <2>9. QED
      BY <1>0, <2>1, <2>2, <2>4, <2>5, <2>6, <2>7, <2>8, DependenciesAssumption DEF AInv
  <1>3. ASSUME NEW p \in Processes, Cancel(p) PROVE AInv'
    <2>1. runs' = runs /\ ran' = ran /\ \A q \in Processes \ {p} : run'[q] = run[q]
      BY <1>0, <1>3, CancelLeads DEF Cancel, Own
    <2>2. /\ run'[p].number = run[p].number /\ run'[p].stage = run[p].stage
          /\ run'[p].exit = run[p].exit /\ run'[p].reboot = run[p].reboot
          /\ run'[p].code = run[p].code /\ run'[p].accepted = run[p].accepted
          /\ run'[p].failure = run[p].failure
      BY <1>0, <1>3, CancelLeads, IdleFields DEF TInv, Shape
    <2>3. \A q \in Processes : Numbered(q)' /\ \A s \in Processes : Apart(q, s)'
      BY <2>1, <2>2, NumbersStay DEF AInv, Numbered
    <2>4. \A q \in Processes : Told(q)' BY <2>1, <2>2 DEF AInv, Told, Pending
    <2>5. QED BY <1>0, <2>1, <2>2, <2>3, <2>4 DEF AInv
  <1>4. ASSUME NEW p \in Processes, Crash(p) PROVE AInv'
    <2>1. runs' = runs /\ ran' = ran /\ \A q \in Processes \ {p} : run'[q] = run[q]
      BY <1>0, <1>4, CrashLeads DEF Crash
    <2>2. run'[p].number = 0 /\ run'[p].stage = "idle" /\ run'[p].exit = None
      BY <1>0, <1>4, CrashLeads DEF Idle
    <2>3. \A q \in Processes : Numbered(q)' /\ \A s \in Processes : Apart(q, s)'
      BY <2>1, <2>2, NumbersStay
    <2>4. \A q \in Processes : Told(q)'
      <3>1. \A r \in ran : r.run # 0 BY DEF AInv
      <3>2. QED BY <2>1, <2>2, <3>1 DEF AInv, Told, Pending
    <2>5. QED BY <1>0, <2>1, <2>2, <2>3, <2>4, DependenciesAssumption DEF AInv
  <1>5. ASSUME NEW p \in Processes, Step(p) PROVE AInv'
    <2>0. Own(p) /\ Leads(p) /\ runs' = runs BY <1>0, <1>5, StepLeads, StepAround
    <2>1. \A q \in Processes \ {p} : run'[q] = run[q] BY <2>0 DEF Own
    <2>2. run'[p].number = run[p].number /\ run[p].number # 0
      BY <1>0, <1>5, <2>0, StepInside DEF AInv, Numbered, Own
    <2>3. run'[p].stage # "idle"
      BY <2>0 DEF Leads, LeadsOn, Within, Failing, Passes, Proceeds, Ending
    <2>4. \A q \in Processes : Numbered(q)' /\ \A s \in Processes : Apart(q, s)'
      BY <2>0, <2>1, <2>2, <2>3, NumbersStay
    <2>5. \A q \in Processes : run'[q].exit = "installed" => run'[q].stage = "ended"
      BY <1>0, <1>5, <2>1, StepExits DEF AInv
    <2>6. CASE ran' = ran
      <3>1. \A q \in Processes : Told(q)'
        <4>1. Told(p)' BY <1>0, <1>5, <2>2, <2>6, StepTells DEF AInv, Told
        <4>2. \A q \in Processes \ {p} : Told(q)' BY <2>1, <2>6 DEF AInv, Told, Pending
        <4>3. QED BY <4>1, <4>2
      <3>2. QED BY <1>0, <2>0, <2>4, <2>5, <2>6, <3>1 DEF AInv
    <2>7. CASE Launch(p)
      <3> DEFINE file == files[Target(p)]
      <3>1. PICK code \in ExitCodes :
                 /\ Set(p, [run[p] EXCEPT !.stage = "judge", !.code = code])
                 /\ ran' = ran \cup {[run |-> run[p].number, dep |-> run[p].dep, bytes |-> file,
                                      prompt |-> run[p].accepted.elevated /\ ~run[p].elevated,
                                      quiet |-> run[p].quiet,
                                      reboot |-> code \in run[p].accepted.reboot]}
        BY <2>7, Zenon DEF Launch
      <3> HIDE DEF file
      <3> DEFINE latest == [run |-> run[p].number, dep |-> run[p].dep, bytes |-> file,
                         prompt |-> run[p].accepted.elevated /\ ~run[p].elevated,
                         quiet |-> run[p].quiet, reboot |-> code \in run[p].accepted.reboot]
      <3>2. latest.run = run[p].number /\ (latest.prompt => ~latest.quiet)
        BY <2>7 DEF Launch, MayLaunch, elevation_blocked
      <3>3. run[p].number \in 1 .. runs BY <1>0, <2>2 DEF AInv, Numbered, TInv, TypeOK
      <3>4. /\ run'[p].stage = "judge" /\ run'[p].code = code
            /\ run'[p].accepted = run[p].accepted /\ run'[p].exit = run[p].exit
        BY <1>0, <3>1, IdleFields DEF Set, TInv, Shape
      <3>5. run[p].exit # "installed" BY <1>0, <1>5, StepInside DEF AInv
      <3>6. latest.reboot => Pending(p)' BY <3>4, <3>5 DEF Pending
      <3> HIDE DEF latest
      <3>7. ran' = ran \cup {latest} BY <3>1 DEF latest
      <3>8. Told(p)' BY <1>0, <1>5, <2>2, <3>6, <3>7, StepTells DEF AInv, Told
      <3>9. \A q \in Processes : q # p => Told(q)'
        <4>1. \A q \in Processes : q # p => run[q].number # run[p].number
          BY <2>2 DEF AInv, Apart
        <4>2. QED BY <2>1, <3>2, <3>7, <4>1 DEF AInv, Told, Pending
      <3>10. \A r \in ran' : r.run \in 1 .. runs' /\ (r.prompt => ~r.quiet)
        BY <2>0, <3>2, <3>3, <3>7 DEF AInv
      <3>11. QED BY <1>0, <2>4, <2>5, <3>8, <3>9, <3>10 DEF AInv
    <2>8. QED BY <1>5, <2>6, <2>7, RanGrows
  <1>6. ASSUME NEW d \in Deps, Meddle(d) PROVE AInv'
    BY <1>0, <1>6 DEF Meddle, AInv, Numbered, Apart, Told, Pending
  <1>7. QED BY <1>1, <1>2, <1>3, <1>4, <1>5, <1>6 DEF Next

\* A quiet run raises no elevation prompt, and a run that succeeded tells of
\* the restart its installers asked for.
THEOREM QuietAndTold == Spec => []AsksAndTells
  <1>1. AInv => AsksAndTells BY DEF AInv, AsksAndTells, Told, Pending
  <1>2. QED BY <1>1, AInit, ANext, PTL DEF Spec

----------------------------------------------------------------------------
(* The catalog: what its checks let through is what was published.         *)

\* A verdict is Ok only where every check is.
LEMMA VerdictOk ==
  ASSUME NEW checks, DOMAIN checks \in SUBSET Nat, Verdict(checks) = Ok
  PROVE  \A i \in DOMAIN checks : checks[i] = Ok
  <1> DEFINE failed == {i \in DOMAIN checks : checks[i] # Ok}
  <1>1. failed # {} => Min(failed) \in failed
    <2>1. failed \in SUBSET Nat OBVIOUS
    <2>2. QED BY <2>1, MinBelongs
  <1>2. failed # {} => checks[Min(failed)] # Ok BY <1>1
  <1>3. failed = {} BY <1>2 DEF Verdict
  <1>4. QED BY <1>3

\* An index that passes is signed, lists no part twice, has the parts its map
\* lists, is the source's, and is fresh.
LEMMA IndexPasses ==
  ASSUME NEW msix, NEW notBefore, IndexVerdict(msix, notBefore) = Ok
  PROVE  /\ msix.signer = "microsoft" /\ IsInjective(PartNames(msix))
         /\ msix.method = "sha256"
         /\ parse_identity(msix.parts[Manifest]) = Ok
         /\ check_fresh(msix.at, notBefore) = Ok
         /\ entry(msix, IndexDb) = Ok
  <1> DEFINE c  == <<verify_signature(msix), extract_index(msix, notBefore)>>
             s  == <<Check(msix.signer # "nobody", "catalog_signature_invalid"),
                     Check(msix.signer = "microsoft", "catalog_signature_invalid")>>
             o  == <<Check(IsInjective(PartNames(msix)), "catalog_integrity_failure"),
                     Check(msix.method = "sha256", "catalog_integrity_failure")>>
             e  == <<SourceContent_open(msix),
                     entry(msix, Manifest), parse_identity(msix.parts[Manifest]),
                     check_fresh(msix.at, notBefore), entry(msix, IndexDb)>>
  <1>1. c[1] = Ok /\ c[2] = Ok
    <2>1. DOMAIN c = 1 .. 2 /\ Verdict(c) = Ok BY DEF IndexVerdict
    <2> HIDE DEF c
    <2>2. QED BY <2>1, VerdictOk
  <1>2. s[2] = Ok
    <2>1. DOMAIN s = 1 .. 2 /\ Verdict(s) = Ok BY <1>1 DEF verify_signature
    <2> HIDE DEF s
    <2>2. QED BY <2>1, VerdictOk
  <1>3. e[1] = Ok /\ e[3] = Ok /\ e[4] = Ok /\ e[5] = Ok
    <2>1. DOMAIN e = 1 .. 5 /\ Verdict(e) = Ok BY <1>1 DEF extract_index
    <2> HIDE DEF e
    <2>2. QED BY <2>1, VerdictOk
  <1>4. o[1] = Ok /\ o[2] = Ok
    <2>1. DOMAIN o = 1 .. 2 /\ Verdict(o) = Ok BY <1>3 DEF SourceContent_open
    <2> HIDE DEF o
    <2>2. QED BY <2>1, VerdictOk
  <1>5. msix.signer = "microsoft" /\ IsInjective(PartNames(msix)) /\ msix.method = "sha256"
    BY <1>2, <1>4 DEF Check, Ok
  <1>6. QED BY <1>3, <1>5

\* Whatever a server hands out, an index that passes has the rows of one the
\* publisher signed, at the time it is judged by.
LEMMA GenuineRows ==
  ASSUME NEW msix \in Servable, NEW notBefore, IndexVerdict(msix, notBefore) = Ok
  PROVE  \E p \in Publications : /\ check_fresh(PublishedAt[p], notBefore) = Ok
                                 /\ msix.parts[IndexDb][1] = Rows[p]
  <1>1. PICK p \in Publications : msix \in {Genuine(p)} \cup Altered(p) BY DEF Servable
  <1>2. /\ msix.signer = "microsoft" /\ IsInjective(PartNames(msix))
        /\ msix.method = "sha256"
        /\ parse_identity(msix.parts[Manifest]) = Ok
        /\ check_fresh(msix.at, notBefore) = Ok
        /\ entry(msix, IndexDb) = Ok
    BY IndexPasses
  <1> DEFINE g == Genuine(p)
             bad == [g EXCEPT !.parts[IndexDb] = <<Forged>>]
  <1>3. /\ DOMAIN g = {"signer", "names", "method", "parts", "map", "at"}
        /\ DOMAIN g.parts = {Manifest, IndexDb}
        /\ g.signer = "microsoft" /\ g.method = "sha256" /\ g.at = PublishedAt[p]
        /\ g.names = <<"AppxBlockMap.xml", Manifest, IndexDb>>
        /\ g.parts[IndexDb] = <<Rows[p]>>
        /\ g.map = <<Listing(Manifest, <<"Microsoft.Winget.Source">>),
                     Listing(IndexDb, <<Rows[p]>>)>>
    BY DEF Genuine, Manifest, IndexDb
  <1>4. /\ DOMAIN bad = DOMAIN g /\ DOMAIN bad.parts = DOMAIN g.parts
        /\ bad.signer = g.signer /\ bad.method = g.method /\ bad.at = g.at
        /\ bad.names = g.names /\ bad.map = g.map /\ bad.parts[IndexDb] = <<Forged>>
    <2> HIDE DEF g
    <2>1. QED BY <1>3
  <1> HIDE DEF g, bad
  <1>5. \/ msix = g
        \/ msix = [bad EXCEPT !.signer = "nobody"]
        \/ msix = [bad EXCEPT !.signer = "other root"]
        \/ msix = [bad EXCEPT !.names = Append(@, "public/index.db")]
        \/ msix = [bad EXCEPT !.method = "sha1"]
        \/ msix = bad
        \/ msix = [g EXCEPT !.parts[IndexDb] = @ \o @]
        \/ msix = [bad EXCEPT !.map = Append(@, Listing(IndexDb, <<Forged>>))]
        \/ msix = [g EXCEPT !.parts[Manifest] = <<"Another.Package">>]
        \/ msix = [bad EXCEPT !.parts[Manifest] = <<"Another.Package">>,
                              !.map = <<Listing(Manifest, <<"Another.Package">>),
                                        Listing(IndexDb, <<Forged>>)>>]
    BY <1>1 DEF Altered, g, bad
  <1>6. ASSUME msix.at = g.at, msix.parts[IndexDb] = <<Rows[p]>>
        PROVE  check_fresh(PublishedAt[p], notBefore) = Ok /\ msix.parts[IndexDb][1] = Rows[p]
    BY <1>2, <1>3, <1>6
  \* A package whose map is the genuine one has the genuine rows.
  <1>7. ASSUME msix.map = g.map PROVE msix.parts[IndexDb] = <<Rows[p]>>
    <2> DEFINE map == msix.map
               listed == {i \in DOMAIN map : map[i].name = IndexDb}
    <2>1. \E i \in listed : listed = {i} /\ map[i].hashes = msix.parts[IndexDb]
      BY <1>2 DEF entry, verify_block_map, Check, Ok
    <2>0. map = <<Listing(Manifest, <<"Microsoft.Winget.Source">>), Listing(IndexDb, <<Rows[p]>>)>>
      BY <1>3, <1>7
    <2>2. DOMAIN map = 1 .. 2 /\ map[1].name = Manifest /\ map[2].name = IndexDb
          /\ map[2].hashes = <<Rows[p]>>
      <3> HIDE DEF map
      <3>1. DOMAIN map = 1 .. 2 /\ map[1] = Listing(Manifest, <<"Microsoft.Winget.Source">>)
            /\ map[2] = Listing(IndexDb, <<Rows[p]>>)
        BY <2>0
      <3>2. QED BY <3>1 DEF Listing
    <2>3. listed = {2} BY <2>2 DEF Manifest, IndexDb
    <2>4. QED BY <2>1, <2>2, <2>3
  <1>8. CASE msix = g BY <1>3, <1>6, <1>8
  <1>9. CASE msix = bad BY <1>4, <1>6, <1>7, <1>9
  <1>10. msix # [bad EXCEPT !.signer = "nobody"] /\ msix # [bad EXCEPT !.signer = "other root"]
    BY <1>2, <1>3, <1>4
  <1>11. msix # [bad EXCEPT !.names = Append(@, "public/index.db")]
    <2> SUFFICES ASSUME msix = [bad EXCEPT !.names = Append(@, "public/index.db")] PROVE FALSE
      OBVIOUS
    <2>1. msix.names = Append(<<"AppxBlockMap.xml", Manifest, IndexDb>>, "public/index.db")
      BY <1>3, <1>4
    <2>2. DOMAIN msix.names = 1 .. 4 /\ msix.names[3] = IndexDb
          /\ msix.names[4] = "public/index.db"
      BY <2>1
    <2>3. 3 \in DOMAIN PartNames(msix) /\ 4 \in DOMAIN PartNames(msix)
          /\ PartNames(msix)[3] = PartNames(msix)[4]
      <3> DEFINE names == msix.names
      <3>1. DOMAIN names = 1 .. 4 /\ names[3] = IndexDb /\ names[4] = "public/index.db"
        BY <2>2
      <3>2. PartNames(msix) = [i \in DOMAIN names |-> Folded(names[i])] BY DEF PartNames
      <3> HIDE DEF names
      <3>3. PartNames(msix)[3] = Folded(IndexDb)
            /\ PartNames(msix)[4] = Folded("public/index.db")
            /\ 3 \in DOMAIN PartNames(msix) /\ 4 \in DOMAIN PartNames(msix)
        BY <3>1, <3>2
      <3>4. Folded(IndexDb) = Folded("public/index.db") BY DEF Folded, IndexDb
      <3>5. QED BY <3>3, <3>4
    <2>4. \A a, b \in DOMAIN PartNames(msix) : PartNames(msix)[a] = PartNames(msix)[b] => a = b
      BY <1>2 DEF IsInjective
    <2>5. 3 = 4 BY <2>3, <2>4
    <2>6. QED BY <2>5
  <1>12. msix # [bad EXCEPT !.method = "sha1"] BY <1>2, <1>3, <1>4
  <1>13. CASE msix = [g EXCEPT !.parts[IndexDb] = @ \o @] BY <1>3, <1>6, <1>7, <1>13
  <1>14. msix # [bad EXCEPT !.map = Append(@, Listing(IndexDb, <<Forged>>))]
    <2> SUFFICES ASSUME msix = [bad EXCEPT !.map = Append(@, Listing(IndexDb, <<Forged>>))]
                 PROVE  FALSE
      OBVIOUS
    <2> DEFINE map == msix.map
               listed == {i \in DOMAIN map : map[i].name = IndexDb}
    <2>1. map = Append(<<Listing(Manifest, <<"Microsoft.Winget.Source">>),
                         Listing(IndexDb, <<Rows[p]>>)>>, Listing(IndexDb, <<Forged>>))
      BY <1>3, <1>4
    <2>2. DOMAIN map = 1 .. 3 /\ map[2] = Listing(IndexDb, <<Rows[p]>>)
          /\ map[3] = Listing(IndexDb, <<Forged>>)
      BY <2>1
    <2>3. 2 \in listed /\ 3 \in listed BY <2>2 DEF Listing
    <2>4. \E i \in listed : listed = {i} BY <1>2 DEF entry, verify_block_map, Check, Ok
    <2>5. QED BY <2>3, <2>4
  <1>15. CASE msix = [g EXCEPT !.parts[Manifest] = <<"Another.Package">>]
    BY <1>3, <1>6, <1>15 DEF Manifest, IndexDb
  <1>16. msix # [bad EXCEPT !.parts[Manifest] = <<"Another.Package">>,
                            !.map = <<Listing(Manifest, <<"Another.Package">>),
                                      Listing(IndexDb, <<Forged>>)>>]
    <2> SUFFICES ASSUME msix = [bad EXCEPT !.parts[Manifest] = <<"Another.Package">>,
                                           !.map = <<Listing(Manifest, <<"Another.Package">>),
                                                     Listing(IndexDb, <<Forged>>)>>]
                 PROVE  FALSE
      OBVIOUS
    <2>1. msix.parts[Manifest] = <<"Another.Package">> BY <1>3, <1>4
    <2>2. msix.parts[Manifest] = <<"Microsoft.Winget.Source">>
      BY <1>2 DEF parse_identity, Check, Ok
    <2>3. "Another.Package" = "Microsoft.Winget.Source" BY <2>1, <2>2
    <2>4. QED BY <2>3
  <1>17. QED BY <1>5, <1>8, <1>9, <1>10, <1>11, <1>12, <1>13, <1>14, <1>15, <1>16

\* The rank of a satisfying version among the others: below their number,
\* and no two have one.
LEMMA RanksApart ==
  ASSUME NEW list \in Lists, NEW minimum, NEW i \in Satisfied(list, minimum)
  PROVE  /\ IsFiniteSet(Satisfied(list, minimum))
         /\ Cardinality(Before(list, minimum, i)) + 1
              \in 1 .. Cardinality(Satisfied(list, minimum))
         /\ \A j \in Satisfied(list, minimum) :
              Cardinality(Before(list, minimum, i)) = Cardinality(Before(list, minimum, j))
                => i = j
  <1> DEFINE S == Satisfied(list, minimum)
             B(k) == Before(list, minimum, k)
  <1>1. list \in Seq([version : Nat, manifest : Manifests]) BY CatalogAssumption
  <1>2. IsFiniteSet(S) /\ S \in SUBSET (1 .. Len(list)) /\ Len(list) \in Nat
    <2>1. S \in SUBSET (1 .. Len(list)) /\ Len(list) \in Nat BY <1>1 DEF Satisfied
    <2>2. IsFiniteSet(1 .. Len(list)) BY <2>1, FS_Interval
    <2>3. QED BY <2>1, <2>2, FS_Subset
  <1>3. \A k \in S : k \in Nat /\ list[k].version \in Nat
    <2> HIDE DEF S
    <2>1. \A k \in S : k \in 1 .. Len(list) BY <1>2
    <2>2. \A k \in 1 .. Len(list) : list[k] \in [version : Nat, manifest : Manifests]
      BY <1>1, ElementOfSeq
    <2>3. \A k \in S : list[k].version \in Nat BY <2>1, <2>2
    <2>4. QED BY <1>2, <2>1, <2>3
  <1>4. \A k \in S : B(k) \in SUBSET S /\ k \notin B(k) BY <1>3 DEF Before
  <1>5. \A k \in S : IsFiniteSet(B(k)) /\ Cardinality(B(k)) \in Nat
    BY <1>2, <1>4, FS_Subset, FS_CardinalityType
  <1>6. \A j, k \in S : j \in B(k) => Cardinality(B(j)) # Cardinality(B(k))
    <2>1. ASSUME NEW j \in S, NEW k \in S, j \in B(k) PROVE Cardinality(B(j)) # Cardinality(B(k))
      <3>1. B(j) \in SUBSET B(k) BY <1>3, <2>1 DEF Before
      <3>2. B(j) # B(k) BY <1>4, <2>1
      <3> HIDE DEF B
      <3>3. QED BY <1>5, <3>1, <3>2, FS_Subset
    <2>2. QED BY <2>1
  <1>7. \A j, k \in S : j = k \/ j \in B(k) \/ k \in B(j) BY <1>3 DEF Before
  <1>8. Cardinality(B(i)) + 1 \in 1 .. Cardinality(S)
    <2>1. Cardinality(S) \in Nat /\ Cardinality(B(i)) <= Cardinality(S)
      BY <1>2, <1>4, FS_Subset, FS_CardinalityType
    <2>2. Cardinality(B(i)) # Cardinality(S)
      <3>1. B(i) # S BY <1>4
      <3>2. QED BY <1>2, <1>4, <3>1, FS_Subset
    <2>3. Cardinality(B(i)) \in Nat BY <1>5
    <2> HIDE DEF B, S
    <2>4. QED BY <2>1, <2>2, <2>3
  <1>9. QED BY <1>2, <1>6, <1>7, <1>8

\* Every candidate is an entry of the list whose version satisfies.
LEMMA CandidatesListed ==
  ASSUME NEW list \in Lists, NEW minimum
  PROVE  /\ candidates(list, minimum) \in Seq(Range(list))
         /\ \A k \in DOMAIN candidates(list, minimum) :
              \E i \in Satisfied(list, minimum) : candidates(list, minimum)[k] = list[i]
  <1> DEFINE S == Satisfied(list, minimum)
             B(k) == Before(list, minimum, k)
             n == Cardinality(S)
             f == [i \in S |-> Cardinality(B(i)) + 1]
  <1>0. S \in SUBSET DOMAIN list /\ IsFiniteSet(S) /\ n \in Nat
    <2>1. list \in Seq([version : Nat, manifest : Manifests]) BY CatalogAssumption
    <2>2. S \in SUBSET (1 .. Len(list)) /\ Len(list) \in Nat BY <2>1 DEF Satisfied
    <2>3. IsFiniteSet(S)
      <3>1. IsFiniteSet(1 .. Len(list)) BY <2>2, FS_Interval
      <3>2. QED BY <2>2, <3>1, FS_Subset
    <2>4. S \in SUBSET DOMAIN list BY DEF Satisfied
    <2>5. QED BY <2>3, <2>4, FS_CardinalityType
  <1>1. f \in Injection(S, 1 .. n)
    <2>1. \A i \in S : /\ Cardinality(B(i)) + 1 \in 1 .. n
                       /\ \A j \in S : Cardinality(B(i)) = Cardinality(B(j)) => i = j
      BY RanksApart
    <2>2. \A i \in S : Cardinality(B(i)) \in Nat
      <3>1. \A i \in S : B(i) \in SUBSET S BY DEF Before
      <3>2. QED BY <1>0, <3>1, FS_Subset, FS_CardinalityType
    <2>3. f \in [S -> 1 .. n] BY <2>1
    <2>4. \A i, j \in S : f[i] = f[j] => i = j
      <3> HIDE DEF B, S
      <3> QED BY <2>1, <2>2
    <2> HIDE DEF f, S, n
    <2>5. IsInjective(f) BY <2>3, <2>4 DEF IsInjective
    <2>6. QED BY <2>3, <2>5 DEF Injection
  <1>2. f \in Surjection(S, 1 .. n)
    <2>1. IsFiniteSet(1 .. n) /\ Cardinality(1 .. n) = n BY <1>0, FS_Interval
    <2> HIDE DEF f
    <2>2. QED BY <1>1, <2>1, FS_Injection
  <1>3. \A k \in 1 .. n : \E i \in S : Cardinality(B(i)) = k - 1
    <2>1. ASSUME NEW k \in 1 .. n PROVE \E i \in S : Cardinality(B(i)) = k - 1
      <3>1. PICK i \in S : f[i] = k
        <4> HIDE DEF f
        <4> QED BY <1>2 DEF Surjection
      <3>2. Cardinality(B(i)) \in Nat
        <4>1. B(i) \in SUBSET S BY DEF Before
        <4>2. QED BY <1>0, <4>1, FS_Subset, FS_CardinalityType
      <3>3. Cardinality(B(i)) + 1 = k BY <3>1
      <3>4. QED BY <3>2, <3>3
    <2>2. QED BY <2>1
  <1> DEFINE c == candidates(list, minimum)
             at(k) == CHOOSE i \in S : Cardinality(B(i)) = k - 1
  <1>4. c = [k \in 1 .. n |-> list[at(k)]] BY DEF candidates
  <1>5. \A k \in 1 .. n : at(k) \in S BY <1>3
  <1>6. \A k \in 1 .. n : c[k] \in Range(list) /\ \E i \in S : c[k] = list[i]
    <2> HIDE DEF c, at, S, n
    <2> QED BY <1>0, <1>4, <1>5 DEF Range
  <1>7. DOMAIN c = 1 .. n BY <1>4
  <1>8. c \in Seq(Range(list))
    <2>1. c = [k \in 1 .. n |-> c[k]] BY <1>4
    <2> HIDE DEF c, S, n
    <2>2. QED BY <1>0, <1>6, <2>1
  <1>9. QED BY <1>6, <1>7, <1>8

\* The installer chosen is that of an entry of the manifest.
LEMMA SelectsListed ==
  ASSUME NEW manifest \in Manifests, NEW architecture, NEW scope,
         select(manifest, architecture, scope) # None
  PROVE  \E i \in DOMAIN manifest.installers :
           effective(manifest, manifest.installers[i]).installer
             = select(manifest, architecture, scope).installer
  <1> DEFINE fields == [i \in DOMAIN manifest.installers |->
                          effective(manifest, manifest.installers[i])]
             usable == {i \in DOMAIN fields : fields[i].architecture = architecture
                                              /\ fields[i].installer # None}
             scoped == {i \in usable : fields[i].scope = scope}
             free   == {i \in usable : fields[i].scope = None}
             among  == IF scoped # {} THEN scoped ELSE IF free # {} THEN free ELSE usable
             chosen == fields[Min(among)]
  <1>1. usable # {} BY DEF select
  <1>2. among \in SUBSET Nat /\ among # {} /\ among \in SUBSET DOMAIN manifest.installers
    <2>1. DOMAIN manifest.installers \in SUBSET Nat BY CatalogAssumption
    <2>2. usable \in SUBSET DOMAIN manifest.installers OBVIOUS
    <2>3. scoped \in SUBSET usable /\ free \in SUBSET usable OBVIOUS
    <2> HIDE DEF usable, scoped, free
    <2>4. QED BY <1>1, <2>1, <2>2, <2>3
  <1>3. Min(among) \in DOMAIN manifest.installers
    <2> HIDE DEF among
    <2> QED BY <1>2, MinBelongs
  <1>4. select(manifest, architecture, scope).installer = chosen.installer
    BY <1>1 DEF select
  <1>5. QED
    <2> HIDE DEF among
    <2> QED BY <1>3, <1>4

----------------------------------------------------------------------------
(* What is run is verified, where an installer has its download directory  *)
(* to itself.                                                              *)

\* One installer at a time: two that share the directory may run what the
\* other left there, and the code has no lock that prevents it.
Alone == \A p, q \in Processes : p = q

Trusted(d, installer) ==
  \/ installer = Dep[d].hint
  \/ Dep[d].source = "winget" /\ Listed(installer, d, Dep[d].minimum, NotBefore(Dep[d]))

\* The index p may be believed for d.
Believed(p, d) ==
  p \in Publications /\ check_fresh(PublishedAt[p], NotBefore(Dep[d])) = Ok /\ Rows[p][d] # None

\* The entries whose manifests may be tried for d.
Good(d) ==
  {item \in [version : Nat, manifest : Manifests] :
     /\ version_satisfies(item.version, Dep[d].minimum)
     /\ \E p \in Publications : Believed(p, d) /\ item \in Range(Rows[p][d])}

\* What a run knows by where it is: what it asks the catalog for is what the
\* catalog lists, and a file made ready is the one wanted, or is gone.
Sought(p) ==
  /\ run[p].stage \in {"index", "versions", "manifest"} => Dep[run[p].dep].source = "winget"
  /\ run[p].stage = "download" /\ run[p].via = "hint" => Dep[run[p].dep].source = "winget"
  /\ run[p].stage = "versions" =>
       \E i \in Publications : Believed(i, run[p].dep) /\ run[p].list = Rows[i][run[p].dep]
  /\ run[p].stage = "manifest" => run[p].left \in Seq(Good(run[p].dep))
  /\ run[p].stage \in {"download", "ready"} => Trusted(run[p].dep, run[p].wanted.installer)
  /\ run[p].stage = "ready" => /\ run[p].wanted.installer \in Installers
                               /\ files[Target(p)] \in {None, run[p].wanted.installer}

VInv ==
  /\ TInv
  /\ \A p \in Processes : Sought(p)
  /\ \A r \in ran : r.bytes # None /\ Trusted(r.dep, r.bytes)

LEMMA TriedGood ==
  ASSUME NEW list \in Lists, NEW d \in Deps, NEW p \in Publications,
         Believed(p, d), list = Rows[p][d]
  PROVE  Tried(list, Dep[d].minimum) \in Seq(Good(d))
  <1> DEFINE c == candidates(list, Dep[d].minimum)
             n == IF Len(c) < Attempts THEN Len(c) ELSE Attempts
  <1>1. /\ c \in Seq(Range(list))
        /\ \A k \in DOMAIN c : \E i \in Satisfied(list, Dep[d].minimum) : c[k] = list[i]
    BY CandidatesListed
  <1> HIDE DEF c
  <1>2. list \in Seq([version : Nat, manifest : Manifests]) BY CatalogAssumption
  <1>3. \A i \in DOMAIN list : list[i] \in [version : Nat, manifest : Manifests]
    <2>1. DOMAIN list = 1 .. Len(list) BY <1>2
    <2>2. QED BY <1>2, <2>1, ElementOfSeq
  <1>4. \A i \in Satisfied(list, Dep[d].minimum) : list[i] \in Good(d)
    <2>1. ASSUME NEW i \in Satisfied(list, Dep[d].minimum) PROVE list[i] \in Good(d)
      <3>1. i \in DOMAIN list /\ version_satisfies(list[i].version, Dep[d].minimum)
        BY DEF Satisfied
      <3>2. list[i] \in Range(Rows[p][d]) BY <3>1 DEF Range
      <3>3. QED BY <1>3, <3>1, <3>2 DEF Good
    <2>2. QED BY <2>1
  <1>5. \A k \in DOMAIN c : c[k] \in Good(d) BY <1>1, <1>4
  <1>6. Len(c) \in Nat /\ DOMAIN c = 1 .. Len(c) BY <1>1
  <1>7. n \in Int /\ \A k \in 1 .. n : k \in DOMAIN c BY <1>6, CatalogAssumption
  <1> HIDE DEF n
  <1>8. SubSeq(c, 1, n) \in Seq(Good(d)) BY <1>5, <1>7, SubSeqProperties
  <1>9. QED BY <1>8 DEF Tried, c, n

\* The entry tried and the manifest with its hash make the installer a
\* listed one.
LEMMA ChosenListed ==
  ASSUME NEW d \in Deps, NEW item \in Good(d), NEW manifest \in Manifests,
         manifest = item.manifest, NEW chosen, chosen = select(manifest, "x64", Scope),
         chosen # None
  PROVE  Listed(chosen.installer, d, Dep[d].minimum, NotBefore(Dep[d]))
  <1>1. \E i \in DOMAIN item.manifest.installers :
          effective(item.manifest, item.manifest.installers[i]).installer = chosen.installer
    BY SelectsListed
  <1>2. PICK p \in Publications : Believed(p, d) /\ item \in Range(Rows[p][d]) BY DEF Good
  <1>3. version_satisfies(item.version, Dep[d].minimum) BY DEF Good
  <1>4. QED BY <1>1, <1>2, <1>3 DEF Listed, Believed

\* Outside of these stages there is nothing to know.
Seeking == {"index", "versions", "manifest", "download", "ready"}

LEMMA SoughtElsewhere ==
  ASSUME NEW p, run'[p].stage \notin Seeking
  PROVE  Sought(p)'
  BY DEF Sought, Seeking

LEMMA SoughtStep ==
  ASSUME Alone, VInv, NEW p \in Processes, Step(p)
  PROVE  Sought(p)'
  <1> USE IdleFields DEF VInv, TInv, Shape, Is
  <1>0. ASSUME Fails(p) PROVE Sought(p)'
    <2>1. run'[p].stage = "clean" BY <1>0, FailsLeads DEF Failing
    <2>2. QED BY <2>1, SoughtElsewhere DEF Seeking
  <1>a. run[p].stage # "product" => run[p].dep \in Deps BY StepInside DEF InLoop
  <1>b. ASSUME Unacquirable(p) PROVE Fails(p) BY <1>b DEF Unacquirable, Fails, Failures
  <1>1. CASE Acquire(p)
    <2> DEFINE dep == Dep[run[p].dep]
    <2>1. \/ Fails(p)
          \/ dep.source = "winget" /\ Set(p, [run[p] EXCEPT !.stage = "index"])
          \/ \E via : /\ via = "hint" => dep.source = "winget"
                      /\ Fetch(p, via, Declared(p, dep.hint))
      <3> HIDE DEF dep
      <3>1. Current(p) = dep BY DEF Current, dep
      <3>2. QED BY <1>1, <3>1 DEF Acquire, Fails, Failures
    <2>2. CASE dep.source = "winget" /\ Set(p, [run[p] EXCEPT !.stage = "index"])
      BY <2>2 DEF Set, Sought
    <2>3. CASE \E via : /\ via = "hint" => dep.source = "winget"
                        /\ Fetch(p, via, Declared(p, dep.hint))
      <3>1. PICK via : /\ via = "hint" => dep.source = "winget"
                       /\ Fetch(p, via, Declared(p, dep.hint))
        BY <2>3
      <3>2. /\ run'[p].stage = "download" /\ run'[p].via = via /\ run'[p].dep = run[p].dep
            /\ run'[p].wanted = Declared(p, dep.hint)
        BY <3>1 DEF Fetch, Set
      <3>3. run'[p].wanted.installer = dep.hint BY <3>2 DEF Declared
      <3>4. QED BY <3>1, <3>2, <3>3 DEF Sought, Trusted
    <2>4. QED BY <1>0, <2>1, <2>2, <2>3
  <1>2. CASE CreateFile(p)
    <2>1. /\ run'[p].stage = "download" /\ run'[p].via = run[p].via /\ run'[p].dep = run[p].dep
          /\ run'[p].wanted = run[p].wanted /\ run[p].stage = "download"
      BY <1>2 DEF CreateFile, Set
    <2>2. QED BY <2>1 DEF Sought
  <1>3. CASE Downloaded(p)
    <2>1. /\ run'[p].stage = "ready" /\ run'[p].dep = run[p].dep
          /\ run'[p].wanted = run[p].wanted /\ run[p].stage = "download"
      BY <1>3 DEF Downloaded, Accept, Set
    <2>2. run[p].wanted.installer \in Installers BY <1>3 DEF Downloaded, Verified
    <2>3. Writers(Target(p)) = {p} BY <1>3 DEF Alone, Writers, Downloaded
    <2>4. files' = [files EXCEPT ![Target(p)] = IF @ = None THEN None
                                               ELSE run[p].wanted.installer]
      BY <1>3, <2>3 DEF Downloaded, Verified
    <2>5. files'[Target(p)] \in {None, run[p].wanted.installer}
      <3>1. Target(p) \in DOMAIN files
        BY <2>2, DependenciesAssumption DEF Target, TypeOK, Names
      <3>2. QED BY <2>4, <3>1
    <2>6. Target(p)' = Target(p) BY <2>1 DEF Target
    <2>7. QED BY <2>1, <2>2, <2>5, <2>6 DEF Sought
  <1>4. CASE DownloadFails(p)
    <2>1. \/ Fails(p)
          \/ run[p].via = "hint" /\ run[p].stage = "download"
             /\ Set(p, [run[p] EXCEPT !.stage = "index", !.accepted = None])
      BY <1>4 DEF DownloadFails, Fails, Failures
    <2>2. ASSUME run[p].via = "hint", run[p].stage = "download",
                 Set(p, [run[p] EXCEPT !.stage = "index", !.accepted = None])
          PROVE  Sought(p)'
      <3>1. run'[p].stage = "index" /\ run'[p].dep = run[p].dep BY <2>2 DEF Set
      <3>2. QED BY <2>2, <3>1 DEF Sought
    <2>3. QED BY <1>0, <2>1, <2>2
  <1>5. CASE Extract(p)
    <2>1. \/ Fails(p)
          \/ run[p].stage = "download" /\ Accept(p) /\ run[p].wanted.installer \in Installers
             /\ files' = [files EXCEPT ![Target(p)] = run[p].wanted.installer]
      BY <1>5 DEF Extract, Fails, Failures, Verified
    <2>2. ASSUME run[p].stage = "download", Accept(p), run[p].wanted.installer \in Installers,
                 files' = [files EXCEPT ![Target(p)] = run[p].wanted.installer]
          PROVE  Sought(p)'
      <3>1. /\ run'[p].stage = "ready" /\ run'[p].dep = run[p].dep
            /\ run'[p].wanted = run[p].wanted
        BY <2>2 DEF Accept, Set
      <3>2. Target(p) \in DOMAIN files /\ Target(p)' = Target(p)
        BY <2>2, <3>1, DependenciesAssumption DEF Target, TypeOK, Names
      <3>3. files'[Target(p)] = run[p].wanted.installer BY <2>2, <3>2
      <3>4. QED BY <2>2, <3>1, <3>2, <3>3 DEF Sought
    <2>3. QED BY <1>0, <2>1, <2>2
  <1>6. CASE FetchIndex(p)
    <2> DEFINE d == run[p].dep
    <2>1. CASE Unacquirable(p) BY <1>0, <1>b, <2>1
    <2>2. CASE \E msix \in Servable :
                 /\ IndexVerdict(msix, NotBefore(Dep[d])) = Ok
                 /\ lookup(msix, d) # None
                 /\ Set(p, [run[p] EXCEPT !.stage = "versions", !.list = lookup(msix, d)])
      <3>1. PICK msix \in Servable :
                 /\ IndexVerdict(msix, NotBefore(Dep[d])) = Ok
                 /\ lookup(msix, d) # None
                 /\ Set(p, [run[p] EXCEPT !.stage = "versions", !.list = lookup(msix, d)])
        BY <2>2
      <3>2. PICK i \in Publications : /\ check_fresh(PublishedAt[i], NotBefore(Dep[d])) = Ok
                                      /\ msix.parts[IndexDb][1] = Rows[i]
        BY <3>1, GenuineRows
      <3>3. lookup(msix, d) = Rows[i][d] BY <3>2 DEF lookup
      <3>4. Believed(i, d) BY <3>1, <3>2, <3>3 DEF Believed
      <3>5. /\ run'[p].stage = "versions" /\ run'[p].dep = d /\ run'[p].list = Rows[i][d]
        BY <3>1, <3>3 DEF Set
      <3>6. Dep[d].source = "winget" BY <1>6 DEF FetchIndex, Sought
      <3>7. QED BY <3>4, <3>5, <3>6 DEF Sought
    <2>3. QED BY <1>6, <2>1, <2>2 DEF FetchIndex, Current
  <1>7. CASE FetchVersions(p)
    <2> DEFINE d == run[p].dep
    <2>1. CASE Unacquirable(p) BY <1>0, <1>b, <2>1
    <2>2. CASE \E list \in Lists :
                 /\ verify_version_data(list, run[p].list) = Ok
                 /\ Set(p, [run[p] EXCEPT !.stage = "manifest", !.list = None,
                                          !.left = Tried(list, Dep[d].minimum)])
      <3>1. PICK list \in Lists :
                 /\ verify_version_data(list, run[p].list) = Ok
                 /\ Set(p, [run[p] EXCEPT !.stage = "manifest", !.list = None,
                                          !.left = Tried(list, Dep[d].minimum)])
        BY <2>2
      <3>2. list = run[p].list BY <3>1 DEF verify_version_data, Check, Ok
      <3>3. run[p].stage = "versions" /\ Dep[d].source = "winget" /\ d \in Deps
        BY <1>7, <1>a DEF FetchVersions, Sought
      <3>4. PICK i \in Publications : Believed(i, d) /\ list = Rows[i][d]
        BY <3>2, <3>3 DEF Sought
      <3>5. Tried(list, Dep[d].minimum) \in Seq(Good(d)) BY <3>3, <3>4, TriedGood
      <3>6. /\ run'[p].stage = "manifest" /\ run'[p].dep = d
            /\ run'[p].left = Tried(list, Dep[d].minimum)
        BY <3>1 DEF Set
      <3>7. QED BY <3>3, <3>5, <3>6 DEF Sought
    <2>3. QED BY <1>7, <2>1, <2>2 DEF FetchVersions, Current
  <1>8. CASE FetchManifest(p)
    <2> DEFINE d == run[p].dep
    <2>1. CASE Unacquirable(p) BY <1>0, <1>b, <2>1
    <2>2. ASSUME ~Unacquirable(p) PROVE Sought(p)'
      <3>1. /\ run[p].stage = "manifest" /\ Dep[d].source = "winget" /\ d \in Deps
            /\ run[p].left \in Seq(Good(d)) /\ run[p].left # <<>>
        BY <1>8, <2>2, <1>a DEF FetchManifest, Sought
      <3> DEFINE item == Head(run[p].left)
      <3>2. item \in Good(d) /\ Tail(run[p].left) \in Seq(Good(d))
        BY <3>1, HeadTailProperties
      <3>3. PICK manifest \in Manifests :
               \/ /\ manifest_for(manifest, item) = Ok /\ select(manifest, "x64", Scope) # None
                  /\ Set(p, [run[p] EXCEPT !.stage = "download", !.via = "catalog",
                               !.left = <<>>,
                               !.wanted = Refreshed(p, select(manifest, "x64", Scope))])
               \/ Set(p, [run[p] EXCEPT !.left = Tail(@)])
        BY <1>8, <2>2 DEF FetchManifest
      <3>4. CASE Set(p, [run[p] EXCEPT !.left = Tail(@)])
        <4>1. /\ run'[p].stage = "manifest" /\ run'[p].dep = d
              /\ run'[p].left = Tail(run[p].left)
          BY <3>1, <3>4 DEF Set
        <4>2. QED BY <3>1, <3>2, <4>1 DEF Sought
      <3>5. CASE /\ manifest_for(manifest, item) = Ok /\ select(manifest, "x64", Scope) # None
                 /\ Set(p, [run[p] EXCEPT !.stage = "download", !.via = "catalog",
                              !.left = <<>>,
                              !.wanted = Refreshed(p, select(manifest, "x64", Scope))])
        <4>1. manifest = item.manifest BY <3>5 DEF manifest_for, Check, Ok
        <4>2. Listed(select(manifest, "x64", Scope).installer, d, Dep[d].minimum,
                     NotBefore(Dep[d]))
          <5> HIDE DEF item
          <5> QED BY <3>1, <3>2, <3>5, <4>1, ChosenListed
        <4>3. /\ run'[p].stage = "download" /\ run'[p].dep = d /\ run'[p].via = "catalog"
              /\ run'[p].wanted = Refreshed(p, select(manifest, "x64", Scope))
          BY <3>5 DEF Set
        <4>4. run'[p].wanted.installer = select(manifest, "x64", Scope).installer
          BY <4>3 DEF Refreshed
        <4>5. QED BY <3>1, <4>2, <4>3, <4>4 DEF Sought, Trusted
      <3>6. QED BY <3>3, <3>4, <3>5
    <2>3. QED BY <2>1, <2>2
  <1>9. CASE NotRequired(p) \/ Detected(p) \/ Installed(p)
    <2>1. run'[p].stage \in {"next", "clean"}
      <3>1. CASE NotRequired(p) BY <3>1 DEF NotRequired, Advance, Set
      <3>2. CASE Detected(p) BY <3>2 DEF Detected, Advance, Set
      <3>3. CASE Installed(p) BY <3>3 DEF Installed, Advance, Set
      <3>4. QED BY <1>9, <3>1, <3>2, <3>3
    <2>2. QED BY <2>1, SoughtElsewhere DEF Seeking
  <1>10. CASE PayloadUnreadable(p) \/ DetectionFails(p) \/ Refuse(p) \/ NotVerified(p)
    <2>1. Fails(p)
      BY <1>10 DEF PayloadUnreadable, DetectionFails, Refuse, NotVerified, Fails, Failures
    <2>2. QED BY <2>1, <1>0
  <1>11. CASE Missing(p) \/ Judge(p)
    <2>1. \/ Fails(p) \/ Set(p, [run[p] EXCEPT !.stage = "missing"])
          \/ Set(p, [run[p] EXCEPT !.stage = "verify"])
      BY <1>11 DEF Missing, Judge, Fails, Failures
    <2>2. ASSUME ~Fails(p) PROVE run'[p].stage \in {"missing", "verify"}
      BY <2>1, <2>2 DEF Set
    <2>3. QED BY <1>0, <2>2, SoughtElsewhere DEF Seeking
  <1>12. CASE Launch(p)
    <2>1. run'[p].stage = "judge" BY <1>12 DEF Launch, Set
    <2>2. QED BY <2>1, SoughtElsewhere DEF Seeking
  <1>13. CASE Clean(p) \/ Product(p) \/ ProductError(p)
    <2>1. run'[p].stage \in {"product", "ended"}
      <3>1. CASE Clean(p) BY <3>1 DEF Clean, Set
      <3>2. CASE Product(p) BY <3>2 DEF Product, Set
      <3>3. CASE ProductError(p) BY <3>3 DEF ProductError, Set
      <3>4. QED BY <1>13, <3>1, <3>2, <3>3
    <2>2. QED BY <2>1, SoughtElsewhere DEF Seeking
  <1>14. QED
    BY <1>1, <1>2, <1>3, <1>4, <1>5, <1>6, <1>7, <1>8, <1>9, <1>10, <1>11, <1>12, <1>13
       DEF Step

LEMMA VInit == Init => VInv
  <1> SUFFICES ASSUME Init PROVE VInv OBVIOUS
  <1>1. \A p \in Processes : run[p].stage = "idle" BY DEF Init, Idle
  <1>2. \A p \in Processes : Sought(p) BY <1>1 DEF Sought
  <1>3. QED BY <1>2, TInit DEF VInv, Init

LEMMA VNext ==
  ASSUME Alone, VInv, [Next]_vars
  PROVE  VInv'
  <1>0. TInv /\ TInv' BY TNext DEF VInv
  <1> DEFINE Verifieds == \A r \in ran : r.bytes # None /\ Trusted(r.dep, r.bytes)
  <1>1. CASE UNCHANGED vars BY <1>0, <1>1 DEF VInv, vars, Sought, Target
  <1>2. ASSUME NEW p \in Processes, Start(p) PROVE VInv'
    <2>1. run'[p].stage \in {"next", "product"} BY <1>0, <1>2, StartLeads
    <2>2. Sought(p)' BY <2>1, SoughtElsewhere DEF Seeking
    <2>3. ran' = ran BY <1>2 DEF Start
    <2>4. QED BY <1>0, <2>2, <2>3 DEF Alone, VInv
  <1>3. ASSUME NEW p \in Processes, Cancel(p) PROVE VInv'
    <2>1. /\ run'[p].stage = run[p].stage /\ run'[p].dep = run[p].dep
          /\ run'[p].via = run[p].via /\ run'[p].list = run[p].list
          /\ run'[p].left = run[p].left /\ run'[p].wanted = run[p].wanted
      BY <1>0, <1>3, CancelLeads, IdleFields DEF TInv, Shape
    <2>2. ran' = ran /\ files' = files BY <1>3 DEF Cancel
    <2>3. Sought(p)' BY <2>1, <2>2 DEF VInv, Sought, Target
    <2>4. QED BY <1>0, <2>2, <2>3 DEF Alone, VInv
  <1>4. ASSUME NEW p \in Processes, Crash(p) PROVE VInv'
    <2>1. run'[p].stage = "idle" BY <1>0, <1>4, CrashLeads DEF Idle
    <2>2. Sought(p)' BY <2>1, SoughtElsewhere DEF Seeking
    <2>3. ran' = ran BY <1>4 DEF Crash
    <2>4. QED BY <1>0, <2>2, <2>3 DEF Alone, VInv
  <1>5. ASSUME NEW p \in Processes, Step(p) PROVE VInv'
    <2>1. Sought(p)' BY <1>5, SoughtStep
    <2>2. Verifieds'
      <3>1. CASE ran' = ran BY <3>1 DEF VInv
      <3>2. CASE Launch(p)
        <4> DEFINE file == files[Target(p)]
        <4>1. file # None /\ run[p].stage = "ready" BY <3>2 DEF Launch, Is
        <4>2. file = run[p].wanted.installer /\ Trusted(run[p].dep, file)
          BY <4>1 DEF VInv, Sought
        <4>3. \E new : new.dep = run[p].dep /\ new.bytes = file /\ ran' = ran \cup {new}
          BY <3>2, Zenon DEF Launch
        <4> HIDE DEF file
        <4>4. QED BY <4>1, <4>2, <4>3 DEF VInv
      <3>3. QED BY <1>5, <3>1, <3>2, RanGrows
    <2>3. QED BY <1>0, <2>1, <2>2 DEF Alone, VInv
  <1>6. ASSUME NEW d \in Deps, Meddle(d) PROVE VInv'
    BY <1>0, <1>6 DEF Meddle, VInv, Sought, Target
  <1>7. QED BY <1>1, <1>2, <1>3, <1>4, <1>5, <1>6 DEF Next

\* What is run for a dependency is its declared installer, or one that a
\* fresh published index lists, in a version that satisfies: whatever servers
\* hand out, and whatever an earlier run that crashed left in the directory.
THEOREM OnlyTheVerifiedRuns ==
  ASSUME Alone
  PROVE  Spec => []RunsOnlyVerified
  <1>1. VInv => RunsOnlyVerified BY DEF VInv, RunsOnlyVerified, Trusted
  <1>2. VInv /\ [Next]_vars => VInv' BY VNext
  <1>3. QED BY <1>1, <1>2, VInit, PTL DEF Spec

----------------------------------------------------------------------------
(* The history of the dependency phase.                                    *)

Reasons == {"detected", "installed"}   \* why a dependency is satisfied

\* Two rows of which a run writes only one.
Clash(e, f) ==
  /\ e.run = f.run /\ e.dep = f.dep
  /\ e.action = f.action \/ (e.action \in Reasons /\ f.action \in Reasons)

Once(s) == \A i, j \in DOMAIN s : Clash(s[i], s[j]) => i = j
RanBy(rs, n, d) == \E r \in rs : r.run = n /\ r.dep = d
BorneBy(rs, s) == \A i \in DOMAIN s : s[i].action = "installed" => RanBy(rs, s[i].run, s[i].dep)
Covers(s, n, d) == \E i \in DOMAIN s : s[i].run = n /\ s[i].dep = d /\ s[i].action \in Reasons

Finished(p) == run[p].stage \in {"clean", "product"} /\ run[p].failure = None
Passed(p, d) == d < run[p].dep \/ Finished(p)

\* What a run remembers until it is over: events of the dependencies passed,
\* each once, and for each of them that it requires one with the reason.
Noted(p) ==
  run[p].stage \notin {"idle", "ended"} =>
    /\ run[p].events \in Seq(Events) /\ Once(run[p].events) /\ BorneBy(ran, run[p].events)
    /\ \A i \in DOMAIN run[p].events :
         run[p].events[i].run = run[p].number /\ Passed(p, run[p].events[i].dep)
    /\ \A d \in run[p].required : Passed(p, d) => Covers(run[p].events, run[p].number, d)
    /\ run[p].stage # "clean" => run[p].failure = None
    /\ run[p].stage \in {"judge", "verify"} => RanBy(ran, run[p].number, run[p].dep)
    /\ run[p].stage \in {"ready", "judge", "verify"} => run[p].accepted.installer \in Installers

Table == IF database = None THEN <<>> ELSE database

\* A run writes its rows at one point: it has written none before, and for
\* every dependency it requires after.
Written(p) == run[p].stage = "product" /\ run[p].opened
Stored(p) ==
  /\ run[p].opened => database # None
  /\ run[p].stage \notin {"idle", "ended"} /\ ~Written(p) =>
       \A i \in DOMAIN Table : Table[i].run # run[p].number
  /\ run[p].exit \in {"installed", "reboot"} => run[p].stage = "ended"
  /\ Written(p) \/ run[p].exit \in {"installed", "reboot"} =>
       \A d \in run[p].required : Covers(Table, run[p].number, d)

TableInv ==
  /\ Table \in Seq(Events) /\ Once(Table) /\ BorneBy(ran, Table)
  /\ \A i \in DOMAIN Table : Table[i].run \in 1 .. runs

HInv == AInv /\ TableInv /\ \A p \in Processes : Noted(p) /\ Stored(p)

\* Sequences of rows put one after the other.
LEMMA JoinRows ==
  ASSUME NEW s \in Seq(Events), NEW t \in Seq(Events)
  PROVE  /\ s \o t \in Seq(Events)
         /\ \A i \in DOMAIN s : i \in DOMAIN (s \o t) /\ (s \o t)[i] = s[i]
         /\ \A i \in DOMAIN t : i + Len(s) \in DOMAIN (s \o t) /\ (s \o t)[i + Len(s)] = t[i]
         /\ \A i \in DOMAIN (s \o t) : \/ i \in DOMAIN s /\ (s \o t)[i] = s[i]
                                       \/ /\ i \notin DOMAIN s /\ i - Len(s) \in DOMAIN t
                                          /\ (s \o t)[i] = t[i - Len(s)]
  <1> DEFINE u == s \o t
  <1>1. /\ u \in Seq(Events) /\ Len(u) = Len(s) + Len(t)
        /\ \A i \in 1 .. Len(s) + Len(t) : u[i] = IF i <= Len(s) THEN s[i] ELSE t[i - Len(s)]
    BY ConcatProperties
  <1>2. /\ DOMAIN s = 1 .. Len(s) /\ DOMAIN t = 1 .. Len(t) /\ DOMAIN u = 1 .. Len(u)
        /\ Len(s) \in Nat /\ Len(t) \in Nat
    BY <1>1
  <1> HIDE DEF u
  <1>3. \A i \in DOMAIN s : i \in DOMAIN u /\ u[i] = s[i] BY <1>1, <1>2
  <1>4. \A i \in DOMAIN t : i + Len(s) \in DOMAIN u /\ u[i + Len(s)] = t[i]
    <2>1. ASSUME NEW i \in DOMAIN t PROVE i + Len(s) \in DOMAIN u /\ u[i + Len(s)] = t[i]
      <3>1. i \in Nat /\ 1 <= i /\ i <= Len(t) BY <1>2
      <3>2. i + Len(s) \in 1 .. Len(s) + Len(t) /\ ~(i + Len(s) <= Len(s))
            /\ (i + Len(s)) - Len(s) = i
        BY <1>2, <3>1
      <3>3. QED BY <1>1, <1>2, <3>2
    <2>2. QED BY <2>1
  <1>5. ASSUME NEW i \in DOMAIN u
        PROVE  \/ i \in DOMAIN s /\ u[i] = s[i]
               \/ i \notin DOMAIN s /\ i - Len(s) \in DOMAIN t /\ u[i] = t[i - Len(s)]
    BY <1>1, <1>2
  <1>6. QED BY <1>1, <1>3, <1>4, <1>5 DEF u

LEMMA JoinKeeps ==
  ASSUME NEW s \in Seq(Events), NEW t \in Seq(Events)
  PROVE  /\ BorneBy(ran, s) /\ BorneBy(ran, t) => BorneBy(ran, s \o t)
         /\ \A n, d : Covers(s, n, d) \/ Covers(t, n, d) => Covers(s \o t, n, d)
         /\ /\ Once(s) /\ Once(t)
            /\ \A i \in DOMAIN s, j \in DOMAIN t : ~Clash(s[i], t[j])
            => Once(s \o t)
  <1> DEFINE u == s \o t
  <1>1. /\ \A i \in DOMAIN s : i \in DOMAIN u /\ u[i] = s[i]
        /\ \A i \in DOMAIN t : i + Len(s) \in DOMAIN u /\ u[i + Len(s)] = t[i]
        /\ \A i \in DOMAIN u : \/ i \in DOMAIN s /\ u[i] = s[i]
                               \/ /\ i \notin DOMAIN s /\ i - Len(s) \in DOMAIN t
                                  /\ u[i] = t[i - Len(s)]
    BY JoinRows
  <1>2. DOMAIN u \in SUBSET Nat /\ Len(s) \in Nat
    <2>1. u \in Seq(Events) BY JoinRows
    <2> HIDE DEF u
    <2>2. QED BY <2>1
  <1> HIDE DEF u
  <1>3. BorneBy(ran, s) /\ BorneBy(ran, t) => BorneBy(ran, u) BY <1>1 DEF BorneBy
  <1>4. \A n, d : Covers(s, n, d) \/ Covers(t, n, d) => Covers(u, n, d) BY <1>1 DEF Covers
  <1>5. ASSUME Once(s), Once(t), \A i \in DOMAIN s, j \in DOMAIN t : ~Clash(s[i], t[j]),
               NEW i \in DOMAIN u, NEW j \in DOMAIN u, Clash(u[i], u[j])
        PROVE  i = j
    <2>1. Clash(u[j], u[i]) BY <1>5 DEF Clash
    <2>2. CASE i \in DOMAIN s /\ u[i] = s[i] /\ j \in DOMAIN s /\ u[j] = s[j]
      BY <1>5, <2>2 DEF Once
    <2>3. CASE /\ i - Len(s) \in DOMAIN t /\ u[i] = t[i - Len(s)]
               /\ j - Len(s) \in DOMAIN t /\ u[j] = t[j - Len(s)]
      <3>1. i - Len(s) = j - Len(s) BY <1>5, <2>3 DEF Once
      <3>2. i \in Nat /\ j \in Nat BY <1>2
      <3>3. QED BY <1>2, <3>1, <3>2
    <2>4. QED BY <1>1, <1>5, <2>1, <2>2, <2>3
  <1>6. QED BY <1>3, <1>4, <1>5 DEF u, Once

LEMMA HInit == Init => HInv
  <1> SUFFICES ASSUME Init PROVE HInv OBVIOUS
  <1>1. \A p \in Processes : /\ run[p].stage = "idle" /\ run[p].opened = FALSE
                             /\ run[p].exit = None
    BY DEF Init, Idle
  <1>2. Table = <<>> BY DEF Init, Table
  <1>3. TableInv BY <1>2 DEF TableInv, Once, BorneBy
  <1>4. \A p \in Processes : Noted(p) /\ Stored(p)
    BY <1>1, DependenciesAssumption DEF Noted, Stored, Written
  <1>5. QED BY <1>3, <1>4, AInit DEF HInv

\* What detection finds is a version.
LEMMA DetectedVersion ==
  ASSUME TInv, NEW d \in Deps, detect(d) # None
  PROVE  detect(d) \in Versions
  <1>1. Satisfying(d) # {} /\ Satisfying(d) \in SUBSET Versions
    BY DEF detect, Satisfying, TInv, TypeOK
  <1>2. IsFiniteSet(Satisfying(d)) /\ Satisfying(d) \in SUBSET Nat
    BY <1>1, DependenciesAssumption, FS_Subset
  <1>3. \E v \in Satisfying(d) : \A w \in Satisfying(d) : w <= v
    BY <1>1, <1>2, GreatestNumber
  <1>4. detect(d) \in Satisfying(d) BY <1>1, <1>3 DEF detect
  <1>5. QED BY <1>1, <1>4

LEMMA RanStays ==
  ASSUME ran \subseteq ran'
  PROVE  /\ \A n, d : RanBy(ran, n, d) => RanBy(ran', n, d)
         /\ \A s : BorneBy(ran, s) => BorneBy(ran', s)
  BY DEF RanBy, BorneBy

\* The events of a dependency that is passed, after those of the earlier ones.
LEMMA PassingEvents ==
  ASSUME TInv, NEW p \in Processes, Noted(p), Passes(p),
         run[p].stage \notin {"idle", "ended"}
  PROVE  \E t \in Seq(Events) :
           /\ run'[p].events = run[p].events \o t
           /\ Once(t) /\ BorneBy(ran, t)
           /\ \A i \in DOMAIN t : t[i].run = run[p].number /\ t[i].dep = run[p].dep
           /\ run[p].dep \in run[p].required => Covers(t, run[p].number, run[p].dep)
  <1> DEFINE n == run[p].number
             d == run[p].dep
             v == detect(d)
             ev == run[p].events
  <1>1. /\ ev \in Seq(Events) /\ n \in Nat /\ d \in 1 .. NumDeps
        /\ run[p].stage \in {"next", "verify"}
    BY DependenciesAssumption DEF Noted, Passes, TInv, InLoop, TypeOK, Deps
  <1>2. ASSUME NEW action \in {"detected", "acquired", "installed", "reboot_required"},
               NEW version \in Versions
        PROVE  Event(p, action, version) \in Events
    BY <1>1, <1>2 DEF Event, Events
  <1>3. CASE d \notin run[p].required /\ run'[p].events = ev
    <2>1. ev = ev \o <<>> BY <1>1, ConcatEmptySeq
    <2> DEFINE t == <<>>
    <2>2. Once(t) /\ BorneBy(ran, t) /\ t \in Seq(Events) /\ DOMAIN t = {}
      BY DEF Once, BorneBy
    <2>3. run'[p].events = ev \o t BY <1>3, <2>1
    <2> HIDE DEF t
    <2>4. QED BY <1>3, <2>2, <2>3
  <1>4. CASE run'[p].events = Append(ev, Event(p, "detected", v)) /\ v # None
    <2> DEFINE e == Event(p, "detected", v)
               t == <<e>>
    <2>1. e \in Events BY <1>1, <1>2, <1>4, DetectedVersion DEF Deps
    <2>2. run'[p].events = ev \o t
      <3> HIDE DEF e, ev
      <3> QED BY <1>1, <1>4, <2>1, AppendIsConcat DEF e, ev
    <2>3. e.run = n /\ e.dep = d /\ e.action = "detected" BY DEF Event
    <2> HIDE DEF e
    <2>4. t \in Seq(Events) /\ DOMAIN t = {1} /\ t[1] = e BY <2>1
    <2> HIDE DEF t
    <2>5. Once(t) /\ BorneBy(ran, t) /\ Covers(t, n, d)
      BY <2>3, <2>4 DEF Once, BorneBy, Covers, Reasons
    <2>6. QED BY <2>2, <2>3, <2>4, <2>5
  <1>5. CASE run[p].stage = "verify" /\ v # None /\ run'[p].events = AfterInstall(p)
    <2> DEFINE a == Event(p, "acquired", Gives[run[p].accepted.installer])
               b == Event(p, "installed", v)
               c == Event(p, "reboot_required", v)
               told == run[p].code \in run[p].accepted.reboot
               r == IF told THEN <<c>> ELSE <<>>
               t == <<a, b>> \o r
    <2>1. v \in Versions BY <1>1, <1>5, DetectedVersion DEF Deps
    <2> SUFFICES ASSUME v \in Versions PROVE \E s \in Seq(Events) :
           /\ run'[p].events = run[p].events \o s
           /\ Once(s) /\ BorneBy(ran, s)
           /\ \A i \in DOMAIN s : s[i].run = run[p].number /\ s[i].dep = run[p].dep
           /\ run[p].dep \in run[p].required => Covers(s, run[p].number, run[p].dep)
      BY <2>1
    <2>2. Gives[run[p].accepted.installer] \in Versions
      BY <1>5, DependenciesAssumption DEF Noted
    <2>3. a \in Events /\ b \in Events /\ c \in Events BY <1>2, <2>1, <2>2
    <2>4. /\ a.run = n /\ a.dep = d /\ a.action = "acquired"
          /\ b.run = n /\ b.dep = d /\ b.action = "installed"
          /\ c.run = n /\ c.dep = d /\ c.action = "reboot_required"
      BY DEF Event
    <2>5. run'[p].events = (ev \o <<a, b>>) \o r BY <1>5 DEF AfterInstall
    <2>6. RanBy(ran, n, d) BY <1>5 DEF Noted
    <2> HIDE DEF a, b, c, ev, n, d, v, told
    <2>7. <<a, b>> \in Seq(Events) /\ r \in Seq(Events) BY <2>3
    <2>8. run'[p].events = ev \o t
      <3> HIDE DEF r
      <3> QED BY <1>1, <2>5, <2>7, ConcatAssociative
    <2>a. /\ t \in Seq(Events) /\ DOMAIN t \in {1 .. 2, 1 .. 3}
          /\ t[1] = a /\ t[2] = b /\ (3 \in DOMAIN t => t[3] = c)
      <3>1. Len(<<a, b>>) = 2 /\ Len(r) \in {0, 1} /\ (Len(r) = 1 => r[1] = c) OBVIOUS
      <3>2. <<a, b>>[1] = a /\ <<a, b>>[2] = b OBVIOUS
      <3> HIDE DEF r
      <3>3. /\ t \in Seq(Events) /\ Len(t) = 2 + Len(r)
            /\ \A i \in 1 .. 2 + Len(r) : t[i] = IF i <= 2 THEN <<a, b>>[i] ELSE r[i - 2]
        BY <2>7, <3>1, ConcatProperties
      <3> HIDE DEF t
      <3>4. QED BY <3>1, <3>2, <3>3
    <2> HIDE DEF t
    <2>9. DOMAIN t \in SUBSET {1, 2, 3} /\ 2 \in DOMAIN t BY <2>a
    <2>10. Once(t) BY <2>4, <2>a, <2>9 DEF Once, Clash, Reasons
    <2>11. BorneBy(ran, t) BY <2>4, <2>6, <2>a, <2>9 DEF BorneBy
    <2>12. Covers(t, n, d) BY <2>4, <2>a, <2>9 DEF Covers, Reasons
    <2>13. \A i \in DOMAIN t : t[i].run = n /\ t[i].dep = d BY <2>4, <2>a, <2>9
    <2>14. QED BY <2>8, <2>a, <2>10, <2>11, <2>12, <2>13 DEF ev, n, d
  <1>6. QED BY <1>3, <1>4, <1>5 DEF Passes

\* The end of the phase is the only step from there.
LEMMA CleanLeads ==
  ASSUME TInv, NEW p \in Processes, Clean(p)
  PROVE  /\ run[p].stage = "clean" /\ run'[p].failure = run[p].failure
         /\ run'[p].events = run[p].events /\ run'[p].dep = run[p].dep
         /\ run'[p].stage = (IF run[p].failure = None THEN "product" ELSE "ended")
         /\ run'[p].exit = (IF run[p].failure = None THEN None ELSE "failed")
  BY IdleFields DEF Clean, Set, Is, TInv, Shape

LEMMA NotedStep ==
  ASSUME HInv, NEW p \in Processes, Step(p)
  PROVE  Noted(p)'
  <1> DEFINE n == run[p].number
             d == run[p].dep
             ev == run[p].events
  <1>0. TInv /\ TInv' /\ Noted(p) BY TNext DEF HInv, AInv, Next
  <1>1. run[p].stage \notin {"idle", "ended"} /\ (run[p].stage = "product" => Ending(p))
    BY <1>0, StepInside
  <1>2. Own(p) /\ Leads(p) BY <1>0, StepLeads
  <1>3. /\ ev \in Seq(Events) /\ Once(ev) /\ BorneBy(ran, ev)
        /\ \A i \in DOMAIN ev : ev[i].run = n /\ Passed(p, ev[i].dep)
        /\ \A e \in run[p].required : Passed(p, e) => Covers(ev, n, e)
        /\ run[p].stage # "clean" => run[p].failure = None
    BY <1>0, <1>1 DEF Noted
  <1>4. run[p].stage = "clean" => Clean(p) BY StepByStage
  <1>5. ran \subseteq ran' BY RanGrows DEF Launch
  <1>7. run'[p].number = n /\ run'[p].required = run[p].required BY <1>2 DEF Own
  <1>8. CASE Within(p) \/ Failing(p)
    <2>1. run[p].stage \notin {"clean", "product"}
      BY <1>0, <1>1, <1>4, <1>8, CleanLeads DEF Within, Failing, Ending
    <2>2. \A e : Passed(p, e) <=> e < d BY <2>1 DEF Passed, Finished
    <2>3. run'[p].dep = d /\ run'[p].events = ev BY <1>8 DEF Within, Failing
    <2>4. ~Finished(p)' BY <1>8, DependenciesAssumption DEF Within, Failing, Finished
    <2>5. \A e : Passed(p, e)' <=> e < d BY <2>3, <2>4 DEF Passed
    <2>6. run'[p].stage # "clean" => run'[p].failure = None
      BY <1>3, <1>8, <2>1 DEF Within, Failing
    <2>7. run'[p].stage \in {"judge", "verify"} => RanBy(ran', n, d)
      <3>1. CASE run'[p].stage = "judge"
        <4>1. Launch(p) BY <1>8, <3>1 DEF Within, Failing
        <4>2. \E new : new.run = n /\ new.dep = d /\ ran' = ran \cup {new}
          BY <4>1, Zenon DEF Launch
        <4>3. QED BY <4>2 DEF RanBy
      <3>2. CASE run'[p].stage = "verify"
        <4>1. run[p].stage = "judge" BY <1>8, <3>2 DEF Within, Failing, Judge, Is
        <4>2. QED BY <1>0, <1>5, <4>1, RanStays DEF Noted
      <3>3. QED BY <3>1, <3>2
    <2>8. run'[p].stage \in {"ready", "judge", "verify"} => run'[p].accepted.installer \in Installers
      <3>1. CASE run'[p].stage = "ready" BY <1>8, <3>1 DEF Within, Failing
      <3>2. CASE run'[p].stage = "judge"
        BY <1>0, <1>8, <3>2 DEF Within, Failing, Launch, Is, Noted
      <3>3. CASE run'[p].stage = "verify"
        BY <1>0, <1>8, <3>3 DEF Within, Failing, Judge, Is, Noted
      <3>4. QED BY <3>1, <3>2, <3>3
    <2>9. BorneBy(ran', ev) BY <1>3, <1>5, RanStays
    <2> HIDE DEF ev, n, d
    <2>10. QED
      BY <1>3, <1>7, <2>2, <2>3, <2>5, <2>6, <2>7, <2>8, <2>9 DEF Noted, Once, Covers, n, d, ev
  <1>9. CASE Passes(p)
    <2>1. PICK t \in Seq(Events) :
            /\ run'[p].events = ev \o t
            /\ Once(t) /\ BorneBy(ran, t)
            /\ \A i \in DOMAIN t : t[i].run = n /\ t[i].dep = d
            /\ d \in run[p].required => Covers(t, n, d)
      BY <1>0, <1>1, <1>9, PassingEvents
    <2>2. run[p].stage \in {"next", "verify"} /\ d \in 1 .. NumDeps /\ NumDeps \in Nat
      BY <1>0, <1>9, DependenciesAssumption DEF Passes, TInv, InLoop, Deps
    <2>3. \A e : Passed(p, e) <=> e < d BY <2>2 DEF Passed, Finished
    <2>4. run'[p].failure = None BY <1>3, <1>9, <2>2 DEF Passes
    <2>5. \A e \in 1 .. NumDeps : (Passed(p, e)' <=> e <= d)
      <3>1. CASE run'[p].stage = "clean" /\ d = NumDeps
        BY <2>2, <2>4, <3>1 DEF Passed, Finished
      <3>2. CASE run'[p].stage = "next" /\ run'[p].dep = d + 1
        BY <2>2, <3>2 DEF Passed, Finished
      <3>3. QED BY <1>9, <3>1, <3>2 DEF Passes
    <2>6. \A i \in DOMAIN ev : ev[i].dep \in 1 .. NumDeps /\ ev[i].dep < d
      <3>1. \A i \in DOMAIN ev : ev[i] \in Events BY <1>3
      <3>2. \A i \in DOMAIN ev : ev[i].dep \in 1 .. NumDeps BY <3>1 DEF Events
      <3>3. QED BY <1>3, <2>3, <3>2
    <2>7. \A i \in DOMAIN ev, j \in DOMAIN t : ~Clash(ev[i], t[j])
      BY <2>1, <2>2, <2>6 DEF Clash
    <2> DEFINE u == ev \o t
    <2>8. u \in Seq(Events) /\ Once(u) /\ BorneBy(ran, u)
          /\ \A m, e : Covers(ev, m, e) \/ Covers(t, m, e) => Covers(u, m, e)
      BY <1>3, <2>1, <2>7, JoinRows, JoinKeeps
    <2>9. \A i \in DOMAIN u : u[i].run = n /\ u[i].dep \in 1 .. NumDeps /\ u[i].dep <= d
      <3>1. \A i \in DOMAIN u : \/ i \in DOMAIN ev /\ u[i] = ev[i]
                                \/ i - Len(ev) \in DOMAIN t /\ u[i] = t[i - Len(ev)]
        BY <1>3, <2>1, JoinRows
      <3> HIDE DEF u, ev, n, d
      <3>2. QED BY <1>3, <2>1, <2>2, <2>6, <3>1
    <2>10. \A e \in run[p].required : Passed(p, e)' => Covers(u, n, e)
      <3>1. \A e \in run[p].required : e \in 1 .. NumDeps BY <1>0 DEF TInv, TypeOK, Deps
      <3>2. \A e \in 1 .. NumDeps : e <= d => e < d \/ e = d BY <2>2
      <3> HIDE DEF u, ev, n, d
      <3>3. QED BY <1>3, <2>1, <2>3, <2>5, <2>8, <3>1, <3>2
    <2>11. run'[p].stage \in {"next", "clean"} BY <1>9 DEF Passes
    <2>12. BorneBy(ran', u) BY <1>5, <2>8, RanStays
    <2>13. run'[p].events = u BY <2>1
    <2> HIDE DEF u, ev, n, d
    <2>14. QED
      BY <1>7, <2>4, <2>5, <2>8, <2>9, <2>10, <2>11, <2>12, <2>13
         DEF Noted, Once, Covers, n
  <1>10. CASE Proceeds(p)
    <2>1. Clean(p) /\ run[p].stage = "clean" /\ run[p].failure = None
      BY <1>4, <1>10 DEF Proceeds
    <2>2. /\ run'[p].stage = "product" /\ run'[p].failure = None /\ run'[p].events = ev
          /\ run'[p].dep = d
      BY <1>0, <2>1, CleanLeads
    <2>3. \A e : Passed(p, e) /\ Passed(p, e)' BY <2>1, <2>2 DEF Passed, Finished
    <2>4. BorneBy(ran', ev) BY <1>3, <1>5, RanStays
    <2> HIDE DEF ev, n, d
    <2>5. QED BY <1>3, <1>7, <2>2, <2>3, <2>4 DEF Noted, Once, Covers, n, ev
  <1>11. CASE Ending(p) BY <1>11 DEF Ending, Noted
  <1>12. QED BY <1>2, <1>8, <1>9, <1>10, <1>11 DEF Leads, LeadsOn

\* A step leaves the table alone, or adds the run's events to it, once: at
\* the end of the phase, or with the product's transaction.
LEMMA TableStep ==
  ASSUME HInv, NEW p \in Processes, Step(p)
  PROVE  \/ database' = database /\ (Clean(p) => ~run[p].opened)
                                 /\ (Product(p) => run[p].opened)
         \/ /\ (Clean(p) /\ run[p].opened) \/ (Product(p) /\ ~run[p].opened)
            /\ Table' = Table \o run[p].events /\ database' # None
  <1>0. /\ Table \in Seq(Events) /\ TInv /\ Noted(p) /\ (run[p].opened => database # None)
    BY DEF HInv, AInv, TableInv, Stored
  <1>1. Clean(p) \/ Product(p) => run[p].events \in Seq(Events)
    BY <1>0 DEF Noted, Clean, Product, Is
  <1>2. Clean(p) \/ Product(p) => Table \o run[p].events \in Seq(Events)
    BY <1>0, <1>1, ConcatProperties
  <1>3. \A t \in Seq(Events) : t # None BY DependenciesAssumption
  <1>4. CASE Clean(p)
    <2>1. database' = Recorded(p) BY <1>4 DEF Clean
    <2>2. CASE ~run[p].opened
      <3>1. ~Product(p) BY <1>4 DEF Clean, Product, Is
      <3>2. QED BY <2>1, <2>2, <3>1 DEF Recorded
    <2>3. CASE run[p].opened
      <3>1. database' = Table \o run[p].events BY <1>0, <2>1, <2>3 DEF Recorded, Table
      <3>2. database' # None BY <1>2, <1>3, <1>4, <3>1
      <3>3. Table' = database' BY <3>2 DEF Table
      <3>4. Table' = Table \o run[p].events BY <3>1, <3>3
      <3>5. Clean(p) /\ run[p].opened BY <1>4, <2>3
      <3>6. QED BY <3>2, <3>4, <3>5
    <2>4. QED BY <2>2, <2>3
  <1>5. CASE Product(p)
    <2>1. database' = RecordedLate(p) BY <1>5 DEF Product
    <2>2. CASE run[p].opened
      <3>1. ~Clean(p) BY <1>5 DEF Clean, Product, Is
      <3>2. QED BY <2>1, <2>2, <3>1 DEF RecordedLate
    <2>3. CASE ~run[p].opened
      <3>1. database' = Table \o run[p].events BY <2>1, <2>3 DEF RecordedLate, Table
      <3>2. database' # None BY <1>2, <1>3, <1>5, <3>1
      <3>3. Table' = database' BY <3>2 DEF Table
      <3>4. QED BY <1>5, <2>3, <3>1, <3>2, <3>3
    <2>4. QED BY <2>2, <2>3
  <1>6. CASE ~Clean(p) /\ ~Product(p)
    BY <1>6 DEF Step, NotRequired, PayloadUnreadable, DetectionFails, Detected, Missing,
         Acquire, CreateFile,
         Downloaded, DownloadFails, Extract, FetchIndex, FetchVersions, FetchManifest, Refuse,
         Launch, Judge, Installed, NotVerified, ProductError
  <1>7. QED BY <1>4, <1>5, <1>6

\* The run that steps is in order with the table afterwards.
LEMMA StoredStep ==
  ASSUME HInv, NEW p \in Processes, Step(p)
  PROVE  Stored(p)'
  <1>0. /\ TInv /\ TInv' /\ Noted(p) /\ Stored(p) /\ Noted(p)' /\ Table \in Seq(Events)
    BY TNext, NotedStep DEF HInv, AInv, TableInv, Next
  <1>1. /\ run[p].stage \notin {"idle", "ended"} /\ (run[p].stage = "product" => Ending(p))
        /\ run[p].exit \notin {"installed", "reboot"}
    BY <1>0, StepInside DEF Stored
  <1>2. Own(p) /\ Leads(p) BY <1>0, StepLeads
  <1>3. /\ run'[p].number = run[p].number /\ run'[p].required = run[p].required
        /\ run'[p].opened = run[p].opened
    BY <1>2 DEF Own
  <1>4. \A d \in run[p].required : Finished(p) => Covers(run[p].events, run[p].number, d)
    BY <1>0, <1>1 DEF Noted, Passed
  <1>5. run'[p].stage \in {"product", "ended"} \/ LeadsOn(p)
    BY <1>2 DEF Leads, Proceeds, Ending
  <1>6. LeadsOn(p) => /\ run'[p].stage \notin {"product", "ended"}
                      /\ run'[p].exit \notin {"installed", "reboot"}
    BY <1>1 DEF LeadsOn, Within, Failing, Passes
  <1>7. CASE LeadsOn(p)
    <2>1. ~Clean(p) /\ ~Product(p)
      <3>1. ASSUME Clean(p) PROVE FALSE BY <1>0, <1>6, <1>7, <3>1, CleanLeads
      <3>2. ASSUME Product(p) PROVE FALSE BY <1>1, <1>6, <1>7, <3>2 DEF Product, Is, Ending
      <3>3. QED BY <3>1, <3>2
    <2>2. database' = database BY <2>1, TableStep
    <2>3. ~Written(p) /\ ~Written(p)' BY <1>1, <1>6, <1>7 DEF Written, Ending
    <2>4. Table' = Table BY <2>2 DEF Table
    <2>5. QED BY <1>0, <1>1, <1>3, <1>6, <1>7, <2>2, <2>3, <2>4 DEF Stored
  <1>8. CASE Clean(p)
    <2>1. /\ run[p].stage = "clean"
          /\ run'[p].stage = (IF run[p].failure = None THEN "product" ELSE "ended")
          /\ run'[p].exit \notin {"installed", "reboot"}
      BY <1>0, <1>8, CleanLeads, DependenciesAssumption
    <2>2. ~Product(p) BY <2>1 DEF Product, Is
    <2>3. CASE run[p].opened
      <3>1. Table' = Table \o run[p].events /\ database' # None
        BY <1>8, <2>2, <2>3, TableStep
      <3>2. Written(p)' => \A d \in run[p].required : Covers(Table', run[p].number, d)
        <4>1. Written(p)' => Finished(p) BY <2>1 DEF Written, Finished
        <4>2. run[p].events \in Seq(Events) BY <1>0, <1>1 DEF Noted
        <4>3. QED BY <1>0, <1>4, <3>1, <4>1, <4>2, JoinKeeps
      <3>3. run'[p].stage # "ended" => Written(p)' BY <1>3, <2>1, <2>3 DEF Written
      <3>4. QED BY <1>3, <2>1, <3>1, <3>2, <3>3 DEF Stored
    <2>4. CASE ~run[p].opened
      <3>1. database' = database BY <2>2, <2>4, TableStep
      <3>2. Table' = Table /\ ~Written(p)' /\ ~Written(p)
        BY <1>3, <2>4, <3>1 DEF Table, Written
      <3>3. QED BY <1>0, <1>1, <1>3, <2>1, <2>4, <3>2 DEF Stored
    <2>5. QED BY <2>3, <2>4
  <1>9. CASE Product(p)
    <2>1. run[p].stage = "product" /\ run'[p].stage = "ended" /\ run[p].failure = None
      BY <1>0, <1>1, <1>9 DEF Product, Is, Ending, Noted
    <2>2. Finished(p) /\ ~Written(p)' /\ ~Clean(p) BY <2>1 DEF Finished, Written, Clean, Is
    <2>3. \A d \in run[p].required : Covers(Table', run[p].number, d)
      <3>1. CASE run[p].opened
        <4>1. database' = database /\ Written(p)
          BY <1>9, <2>1, <2>2, <3>1, TableStep DEF Written
        <4>2. Table' = Table BY <4>1 DEF Table
        <4>3. QED BY <1>0, <4>1, <4>2 DEF Stored
      <3>2. CASE ~run[p].opened
        <4>1. Table' = Table \o run[p].events BY <1>9, <2>2, <3>2, TableStep
        <4>2. run[p].events \in Seq(Events) BY <1>0, <1>1 DEF Noted
        <4>3. QED BY <1>0, <1>4, <2>2, <4>1, <4>2, JoinKeeps
      <3>3. QED BY <3>1, <3>2
    <2>4. run[p].opened => database' # None BY <1>0, <1>9, <2>2, TableStep DEF Stored
    <2>5. QED BY <1>3, <2>1, <2>2, <2>3, <2>4 DEF Stored
  <1>10. CASE ProductError(p)
    <2>1. run'[p].stage = "ended" /\ run'[p].exit = "failed" /\ database' = database
      BY <1>0, <1>10, IdleFields DEF ProductError, Set, TInv, Shape
    <2>2. ~Written(p)' BY <2>1 DEF Written
    <2>3. QED BY <1>0, <1>3, <2>1, <2>2 DEF Stored
  <1>11. QED BY <1>0, <1>7, <1>8, <1>9, <1>10, StepLeadsOn

\* What a step does to the table, and to a run that only looks on.
LEMMA TableNext ==
  ASSUME HInv, NEW p \in Processes, Step(p)
  PROVE  /\ TableInv'
         /\ \A q \in Processes : q # p => Stored(q)'
  <1>0. /\ TInv /\ TableInv /\ Noted(p) /\ Stored(p) /\ AInv BY DEF HInv, AInv
  <1>1. /\ run[p].stage \notin {"idle", "ended"} /\ runs' = runs /\ ran \subseteq ran'
    BY <1>0, StepInside, StepAround, RanGrows DEF Launch
  <1>2. BorneBy(ran', Table) BY <1>0, <1>1, RanStays DEF TableInv
  <1>3. \A q \in Processes : q # p => run'[q] = run[q] BY <1>0, StepLeads DEF Own
  <1>4. CASE database' = database
    <2>1. Table' = Table BY <1>4 DEF Table
    <2>2. TableInv' BY <1>0, <1>1, <1>2, <2>1 DEF TableInv, Once, BorneBy
    <2>3. \A q \in Processes : q # p => Stored(q)'
      BY <1>3, <1>4, <2>1 DEF HInv, Stored, Written, Covers
    <2>4. QED BY <2>2, <2>3
  <1>5. CASE /\ (Clean(p) /\ run[p].opened) \/ (Product(p) /\ ~run[p].opened)
             /\ Table' = Table \o run[p].events /\ database' # None
    <2> DEFINE t == Table
               ev == run[p].events
               n == run[p].number
    <2>1. /\ t \in Seq(Events) /\ Once(t) /\ BorneBy(ran, t)
          /\ \A i \in DOMAIN t : t[i].run \in 1 .. runs
      BY <1>0 DEF TableInv
    <2>2. /\ ev \in Seq(Events) /\ Once(ev) /\ BorneBy(ran, ev)
          /\ \A i \in DOMAIN ev : ev[i].run = n
      BY <1>0, <1>1 DEF Noted
    <2>3. ~Written(p) BY <1>5 DEF Written, Clean, Is
    <2>4. \A i \in DOMAIN t : t[i].run # n BY <1>0, <1>1, <2>3 DEF Stored
    <2>5. n \in 1 .. runs BY <1>0, <1>1 DEF AInv, Numbered, TInv, TypeOK
    <2>6. \A i \in DOMAIN t, j \in DOMAIN ev : ~Clash(t[i], ev[j]) BY <2>2, <2>4 DEF Clash
    <2> DEFINE u == t \o ev
    <2>7. /\ u \in Seq(Events) /\ Once(u) /\ BorneBy(ran, u)
          /\ \A m, d : Covers(t, m, d) => Covers(u, m, d)
      BY <2>1, <2>2, <2>6, JoinRows, JoinKeeps
    <2>8. \A i \in DOMAIN u : u[i].run = n \/ \E j \in DOMAIN t : u[i] = t[j]
      <3>1. \A i \in DOMAIN u : \/ i \in DOMAIN t /\ u[i] = t[i]
                                \/ i - Len(t) \in DOMAIN ev /\ u[i] = ev[i - Len(t)]
        BY <2>1, <2>2, JoinRows
      <3> HIDE DEF u, t, ev, n
      <3>2. QED BY <2>2, <3>1
    <2>9. Table' = u BY <1>5
    <2>10. BorneBy(ran', u) BY <1>1, <2>7, RanStays
    <2>11. \A q \in Processes : q # p /\ run[q].stage # "idle" => run[q].number # n
      BY <1>0, <2>5 DEF AInv, Apart, Numbered
    <2> HIDE DEF u, t, ev, n
    <2>12. TableInv'
      <3>1. \A i \in DOMAIN u : u[i].run \in 1 .. runs BY <2>1, <2>5, <2>8
      <3>2. QED BY <1>1, <2>7, <2>9, <2>10, <3>1 DEF TableInv, Once, BorneBy
    <2>13. ASSUME NEW q \in Processes, q # p PROVE Stored(q)'
      <3>1. run'[q] = run[q] /\ Stored(q) BY <1>3, <2>13 DEF HInv
      <3>2. \A d \in run[q].required : Covers(Table, run[q].number, d)
                                         => Covers(Table', run[q].number, d)
        BY <2>7, <2>9 DEF t
      <3>3. /\ run[q].stage \notin {"idle", "ended"} /\ ~Written(q)
            => \A i \in DOMAIN Table' : Table'[i].run # run[q].number
        BY <2>8, <2>9, <2>11, <2>13, <3>1 DEF Stored, t
      <3>4. QED BY <1>5, <3>1, <3>2, <3>3 DEF Stored, Written
    <2>14. QED BY <2>12, <2>13
  <1>6. QED BY <1>4, <1>5, TableStep

LEMMA HNext ==
  ASSUME HInv, [Next]_vars
  PROVE  HInv'
  <1>0. TInv /\ TInv' /\ AInv /\ AInv' BY TNext, ANext DEF HInv, AInv
  <1>1. ASSUME database' = database, ran' = ran, runs' \in Nat, runs <= runs' PROVE TableInv'
    <2>1. Table' = Table BY <1>1 DEF Table
    <2>2. \A i \in DOMAIN Table : Table[i].run \in 1 .. runs'
      BY <1>0, <1>1 DEF HInv, TableInv, TInv, TypeOK
    <2>3. QED BY <1>1, <2>1, <2>2 DEF HInv, TableInv, Once, BorneBy, RanBy
  <1>2. ASSUME NEW q \in Processes, run'[q] = run[q], database' = database, ran' = ran
        PROVE  Noted(q)' /\ Stored(q)'
    <2>1. Table' = Table BY <1>2 DEF Table
    <2>2. Noted(q) /\ Stored(q) BY DEF HInv
    <2>3. Noted(q)' BY <1>2, <2>2 DEF Noted, Once, BorneBy, RanBy, Passed, Finished, Covers
    <2>4. Stored(q)' BY <1>2, <2>1, <2>2 DEF Stored, Written, Covers
    <2>5. QED BY <2>3, <2>4
  <1>3. runs \in Nat BY <1>0 DEF TInv, TypeOK
  <1>4. CASE UNCHANGED vars BY <1>0, <1>1, <1>2, <1>3, <1>4 DEF vars, HInv
  <1>5. ASSUME NEW p \in Processes, Start(p) PROVE HInv'
    <2>1. /\ database' = database /\ ran' = ran /\ runs' = runs + 1
          /\ \A q \in Processes : q # p => run'[q] = run[q]
      BY <1>0, <1>5, StartLeads DEF Start
    <2>2. /\ run'[p].number = runs + 1 /\ run'[p].required \in SUBSET (1 .. NumDeps)
          /\ run'[p].dep = 1 /\ run'[p].exit = None /\ run'[p].failure = None
          /\ run'[p].events = <<>> /\ run'[p].opened = (database # None)
          /\ run'[p].stage = (IF NumDeps = 0 THEN "product" ELSE "next")
      BY <1>0, <1>5, StartLeads, DependenciesAssumption
    <2>3. NumDeps \in Nat /\ (NumDeps = 0 => run'[p].required = {})
          /\ \A d \in run'[p].required : d \in Nat /\ ~(d < 1)
      BY <2>2, DependenciesAssumption
    <2>4. Noted(p)'
      <3>1. \A d \in run'[p].required : ~Passed(p, d)' BY <2>2, <2>3 DEF Passed, Finished
      <3>2. Once(<<>>) /\ BorneBy(ran', <<>>) /\ <<>> \in Seq(Events) /\ DOMAIN <<>> = {}
        BY DEF Once, BorneBy
      <3>3. QED BY <2>2, <3>1, <3>2 DEF Noted
    <2>5. Stored(p)'
      <3>1. Table' = Table BY <2>1 DEF Table
      <3>2. \A i \in DOMAIN Table : Table[i].run # runs + 1 BY <1>3 DEF HInv, TableInv
      <3>3. Written(p)' => run'[p].required = {} BY <2>2, <2>3 DEF Written
      <3>4. None \notin {"installed", "reboot"} BY DependenciesAssumption
      <3>5. QED BY <2>1, <2>2, <3>1, <3>2, <3>3, <3>4 DEF Stored
    <2>6. QED BY <1>0, <1>1, <1>2, <1>3, <2>1, <2>4, <2>5 DEF HInv
  <1>6. ASSUME NEW p \in Processes, Cancel(p) PROVE HInv'
    <2>1. /\ database' = database /\ ran' = ran /\ runs' = runs
          /\ \A q \in Processes : q # p => run'[q] = run[q]
      BY <1>0, <1>6, CancelLeads DEF Cancel, Own
    <2>2. /\ run'[p].stage = run[p].stage /\ run'[p].number = run[p].number
          /\ run'[p].dep = run[p].dep /\ run'[p].required = run[p].required
          /\ run'[p].exit = run[p].exit /\ run'[p].failure = run[p].failure
          /\ run'[p].events = run[p].events /\ run'[p].opened = run[p].opened
          /\ run'[p].accepted = run[p].accepted
      BY <1>0, <1>6, CancelLeads, IdleFields DEF TInv, Shape
    <2>3. Table' = Table /\ Noted(p) /\ Stored(p) BY <2>1 DEF Table, HInv
    <2>4. Noted(p)'
      BY <2>1, <2>2, <2>3 DEF Noted, Once, BorneBy, RanBy, Passed, Finished, Covers
    <2>5. Stored(p)' BY <2>1, <2>2, <2>3 DEF Stored, Written, Covers
    <2>6. QED BY <1>0, <1>1, <1>2, <1>3, <2>1, <2>4, <2>5 DEF HInv
  <1>7. ASSUME NEW p \in Processes, Crash(p) PROVE HInv'
    <2>1. /\ database' = database /\ ran' = ran /\ runs' = runs
          /\ \A q \in Processes : q # p => run'[q] = run[q]
      BY <1>0, <1>7, CrashLeads DEF Crash
    <2>2. /\ run'[p].stage = "idle" /\ run'[p].opened = FALSE /\ run'[p].exit = None
      BY <1>0, <1>7, CrashLeads DEF Idle
    <2>3. Noted(p)' /\ Stored(p)' BY <2>2, DependenciesAssumption DEF Noted, Stored, Written
    <2>4. QED BY <1>0, <1>1, <1>2, <1>3, <2>1, <2>3 DEF HInv
  <1>8. ASSUME NEW p \in Processes, Step(p) PROVE HInv'
    <2>1. TableInv' /\ \A q \in Processes : Stored(q)' BY <1>8, TableNext, StoredStep
    <2>2. ASSUME NEW q \in Processes PROVE Noted(q)'
      <3>1. CASE q = p BY <1>8, <3>1, NotedStep
      <3>2. CASE q # p
        <4>1. run'[q] = run[q] /\ Noted(q) BY <1>0, <1>8, <3>2, StepLeads DEF Own, HInv
        <4>2. ran \subseteq ran' BY <1>8, RanGrows DEF Launch
        <4>3. /\ \A n, d : RanBy(ran, n, d) => RanBy(ran', n, d)
              /\ \A s : BorneBy(ran, s) => BorneBy(ran', s)
          BY <4>2, RanStays
        <4>4. QED BY <4>1, <4>3 DEF Noted, Once, Passed, Finished, Covers
      <3>3. QED BY <3>1, <3>2
    <2>3. QED BY <1>0, <2>1, <2>2 DEF HInv
  <1>9. ASSUME NEW d \in Deps, Meddle(d) PROVE HInv'
    <2>1. run' = run /\ database' = database /\ ran' = ran /\ runs' = runs
      BY <1>9 DEF Meddle
    <2>2. QED BY <1>0, <1>1, <1>2, <1>3, <2>1 DEF HInv
  <1>10. QED BY <1>4, <1>5, <1>6, <1>7, <1>8, <1>9 DEF Next

\* The recorded history is what happened, however many installers there are:
\* nothing twice, nothing installed that was not run, and one row that says
\* why each dependency a successful run required is satisfied.
THEOREM RowsTellWhatHappened == Spec => []RowsAreTrue
  <1>1. ASSUME HInv PROVE RowsAreTrue
    <2> SUFFICES ASSUME database # None PROVE RowsAreTrue BY DEF RowsAreTrue
    <2>1. database \in Seq(Events) /\ Once(database) /\ BorneBy(ran, database)
      BY <1>1 DEF HInv, TableInv, Table
    <2>2. \A S \in SUBSET DOMAIN database : IsFiniteSet(S)
      <3>1. DOMAIN database = 1 .. Len(database) /\ Len(database) \in Nat BY <2>1
      <3>2. IsFiniteSet(DOMAIN database) BY <3>1, FS_Interval
      <3>3. QED BY <3>2, FS_Subset
    <2>3. \A S \in SUBSET DOMAIN database : \A i \in S : S = {i} => Cardinality(S) = 1
      BY FS_Singleton
    <2>4. ASSUME NEW i \in DOMAIN database
          PROVE  Cardinality(RowsOf(database[i].run, database[i].dep, database[i].action)) = 1
      <3> DEFINE S == RowsOf(database[i].run, database[i].dep, database[i].action)
      <3>1. \A j \in DOMAIN database : j \in S => Clash(database[i], database[j])
        BY DEF RowsOf, Clash
      <3>2. S \in SUBSET DOMAIN database /\ i \in S BY DEF RowsOf
      <3> HIDE DEF S
      <3>3. S = {i} BY <2>1, <3>1, <3>2 DEF Once
      <3>4. QED BY <2>3, <3>2, <3>3 DEF S
    <2>5. ASSUME NEW i \in DOMAIN database, database[i].action = "installed"
          PROVE  \E r \in ran : r.run = database[i].run /\ r.dep = database[i].dep
      BY <2>1, <2>5 DEF BorneBy, RanBy
    <2>6. ASSUME NEW p \in Processes, run[p].exit \in {"installed", "reboot"},
                 NEW d \in run[p].required
          PROVE  Cardinality(RowsOf(run[p].number, d, "detected")
                             \cup RowsOf(run[p].number, d, "installed")) = 1
      <3> DEFINE S == RowsOf(run[p].number, d, "detected")
                      \cup RowsOf(run[p].number, d, "installed")
      <3>1. Covers(database, run[p].number, d) BY <1>1, <2>6 DEF HInv, Stored, Table
      <3>2. PICK i \in DOMAIN database : /\ database[i].run = run[p].number
                                         /\ database[i].dep = d /\ database[i].action \in Reasons
        BY <3>1 DEF Covers
      <3>3. S \in SUBSET DOMAIN database /\ i \in S BY <3>2 DEF RowsOf, Reasons
      <3>4. \A j \in S : Clash(database[i], database[j]) BY <3>2 DEF RowsOf, Clash, Reasons
      <3> HIDE DEF S
      <3>5. S = {i} BY <2>1, <3>3, <3>4 DEF Once
      <3>6. QED BY <2>3, <3>3, <3>5 DEF S
    <2>7. QED BY <2>4, <2>5, <2>6 DEF RowsAreTrue
  <1>2. QED BY <1>1, HInit, HNext, PTL DEF Spec

\* Where an installer has the download directory to itself: the directory is
\* gone after a phase that could remove it, and nothing makes it again.
DInv ==
  /\ TInv
  /\ \A p \in Processes : run[p].stage \in {"product", "ended"} /\ run[p].swept => ~directory
  /\ NumDeps = 0 => ~directory

LEMMA DNext ==
  ASSUME Alone, DInv, [Next]_vars
  PROVE  DInv'
  <1>0. TInv /\ TInv' BY TNext DEF DInv
  <1>1. CASE UNCHANGED vars BY <1>0, <1>1 DEF vars, DInv
  <1>2. ASSUME NEW p \in Processes, Start(p) PROVE DInv'
    <2>1. directory' = directory BY <1>2 DEF Start
    <2>2. run'[p].stage = (IF NumDeps = 0 THEN "product" ELSE "next")
      BY <1>0, <1>2, StartLeads
    <2>3. QED BY <1>0, <2>1, <2>2 DEF DInv, Alone
  <1>3. ASSUME NEW p \in Processes, Cancel(p) PROVE DInv'
    <2>1. /\ run'[p].stage = run[p].stage /\ run'[p].swept = run[p].swept
          /\ directory' = directory
      BY <1>0, <1>3, CancelLeads, IdleFields DEF TInv, Shape, Cancel
    <2>2. QED BY <1>0, <2>1 DEF DInv, Alone
  <1>4. ASSUME NEW p \in Processes, Crash(p) PROVE DInv'
    <2>1. run'[p].stage = "idle" BY <1>0, <1>4, CrashLeads DEF Idle
    <2>2. directory' = directory BY <1>4 DEF Crash
    <2>3. QED BY <1>0, <2>1, <2>2 DEF DInv, Alone
  <1>5. ASSUME NEW p \in Processes, Step(p) PROVE DInv'
    <2>1. CASE Clean(p)
      <3>1. PICK removed \in BOOLEAN :
              /\ directory' = (directory /\ ~(directory /\ removed))
              /\ run'[p].swept = (directory => removed)
        BY <1>0, <2>1, IdleFields DEF Clean, Removes, Set, TInv, Shape
      <3>2. QED BY <1>0, <3>1 DEF DInv, Alone
    <2>2. CASE Product(p) \/ ProductError(p)
      <3>1. /\ directory' = directory /\ run[p].stage = "product"
            /\ run'[p].swept = run[p].swept
        <4>1. CASE Product(p) BY <1>0, <4>1, IdleFields DEF Product, Is, Set, TInv, Shape
        <4>2. CASE ProductError(p)
          BY <1>0, <4>2, IdleFields DEF ProductError, Is, Set, TInv, Shape
        <4>3. QED BY <2>2, <4>1, <4>2
      <3>2. QED BY <1>0, <3>1 DEF DInv, Alone
    <2>3. CASE ~Clean(p) /\ ~Product(p) /\ ~ProductError(p)
      <3>1. LeadsOn(p) BY <1>0, <1>5, <2>3, StepLeadsOn
      <3>2. run'[p].stage \notin {"product", "ended"}
        BY <3>1 DEF LeadsOn, Within, Failing, Passes
      <3>3. run[p].stage \notin {"idle", "product", "ended"}
        <4>1. run[p].stage \notin {"idle", "ended"} /\ (run[p].stage = "product" => Ending(p))
          BY <1>0, <1>5, StepInside
        <4>2. QED BY <3>2, <4>1 DEF Ending
      <3>4. NumDeps # 0 BY <1>0, <3>3, DependenciesAssumption DEF TInv, InLoop, Deps
      <3>5. QED BY <1>0, <3>2, <3>4 DEF DInv, Alone
    <2>4. QED BY <2>1, <2>2, <2>3
  <1>6. ASSUME NEW d \in Deps, Meddle(d) PROVE DInv' BY <1>0, <1>6 DEF Meddle, DInv
  <1>7. QED BY <1>1, <1>2, <1>3, <1>4, <1>5, <1>6 DEF Next

\* The phase leaves behind a history of what happened, and nothing that it
\* downloaded.
THEOREM OnlyHistoryStays ==
  ASSUME Alone
  PROVE  Spec => []HistoryIsTrue
  <1>1. Init => DInv
    <2>1. Init => \A p \in Processes : run[p].stage = "idle" BY DEF Init, Idle
    <2>2. QED BY <2>1, TInit DEF DInv, Init
  <1>2. DInv /\ [Next]_vars => DInv' BY DNext
  <1>3. DInv => DownloadsRemoved BY DEF DInv, DownloadsRemoved, Is
  <1>4. Spec => []DownloadsRemoved BY <1>1, <1>2, <1>3, PTL DEF Spec
  <1>5. HistoryIsTrue <=> RowsAreTrue /\ DownloadsRemoved BY DEF HistoryIsTrue
  <1>6. QED BY <1>4, <1>5, RowsTellWhatHappened, PTL

=============================================================================
