---------------------------- MODULE Dependencies ----------------------------
(***************************************************************************)
(* The dependency phase of an installation (dependency/mod.rs, acquire.rs, *)
(* detect.rs) over the catalog and the downloads (tigersetup-catalog): for *)
(* every required dependency in declaration order, detect; absent, acquire *)
(* a verified installer, run it, detect again. It precedes the product     *)
(* transaction, which is one step here, and leaves in the state database   *)
(* only the history of what it did.                                        *)
(*                                                                         *)
(* Processes are installers of one product: they share the machine, the    *)
(* state directory with its downloads, and the state database, which only  *)
(* one of them opens at a time.                                            *)
(***************************************************************************)
EXTENDS Catalog

CONSTANTS
  Processes,
  NumDeps,      \* the declared dependencies are 1 .. NumDeps, in order
  Dep,          \* Dep[d]: source, minimum, hint, maxAge, resolvedAt, elevated, codes
  Installers,   \* installer files, by their bytes; None is any other content
  Gives,        \* Gives[i]: the version installer i installs
  FileName,     \* FileName[i]: the name the installer is downloaded under
  Scope,        \* the scope of the run
  OptionSets,   \* the sets of dependencies the options in effect may require
  Manners,      \* how a run may be: whether it installs dependencies, is
                \* elevated, is quiet
  ExitCodes,
  Now,          \* the clock of the run
  Margin,       \* INDEX_CLOCK_MARGIN_SECONDS
  MaxIndexAge,  \* DEFAULT_MAX_INDEX_AGE_SECONDS
  Versions,     \* versions a detector may find
  MaxRuns,      \* a bound on the number of runs started
  MaxMeddles    \* a bound on what others do to the machine

\* Why a phase ends before the last dependency.
Failures == {"dependency_missing", "dependency_requires_elevation", "dependency_cancelled",
             "dependency_unacquirable", "dependency_install_failed", "dependency_unverified"}

\* A row of the history.
Events == [run : Nat, dep : 1 .. NumDeps, version : Versions,
           action : {"detected", "acquired", "installed", "reboot_required"}]

ASSUME DependenciesAssumption ==
  /\ NumDeps \in Nat /\ MaxRuns \in Nat /\ OptionSets \subseteq SUBSET (1 .. NumDeps)
  /\ Versions \subseteq Nat /\ IsFiniteSet(Versions) /\ Gives \in [Installers -> Versions]
  /\ None \notin Installers \cup Processes /\ None \notin Versions
  /\ None \notin Failures \cup {"installed", "reboot"} /\ None \notin Seq(Events)
  /\ FileName \in [Installers -> Range(FileName)]

Deps    == 1 .. NumDeps
Names   == Range(FileName)
Partial == "partial"    \* bytes of a download that did not end

VARIABLES
  run,        \* run[p]: what process p remembers of its run
  runs,       \* the number of runs started
  machine,    \* machine[d]: the versions of d that detection finds
  files,      \* files[n]: what the download directory holds under a name
  directory,  \* the download directory exists
  holder,     \* the process that holds the state database
  database,   \* None, or the dependency_event rows in order
  ran,        \* history: the installers run, with what they were run as
  meddled,    \* history: <<p, d>>, versions of d others removed during p's run
  meddles     \* how often others installed or removed a version

vars == <<run, runs, machine, files, directory, holder, database, ran, meddled, meddles>>

Stages == {"idle", "next", "missing", "download", "index", "versions", "manifest",
           "ready", "judge", "verify", "clean", "product", "ended"}

Idle == [stage |-> "idle", number |-> 0, dep |-> 1, required |-> {}, install |-> TRUE,
         elevated |-> FALSE, quiet |-> FALSE, cancel |-> FALSE, opened |-> FALSE,
         via |-> None, wanted |-> None, list |-> None, left |-> <<>>,
         accepted |-> None, code |-> 0, events |-> <<>>, records |-> {}, reboot |-> FALSE,
         failure |-> None, swept |-> TRUE, exit |-> None]

Set(p, now) == run' = [run EXCEPT ![p] = now]
Is(p, stage) == run[p].stage = stage
Current(p) == Dep[run[p].dep]

\* choose: the highest satisfying version, None when nothing satisfies.
Satisfying(d) == {v \in machine[d] : version_satisfies(v, Dep[d].minimum)}
detect(d) == IF Satisfying(d) = {} THEN None
             ELSE CHOOSE v \in Satisfying(d) : \A w \in Satisfying(d) : w <= v

\* A failure ends the loop, whatever is left; the directory is removed next.
Fail(p, code) ==
  Set(p, [run[p] EXCEPT !.stage = "clean", !.failure = code,
                        !.records = @ \cup {<<run[p].dep, code>>}])

Event(p, action, version) ==
  [run |-> run[p].number, dep |-> run[p].dep, action |-> action, version |-> version]

Init ==
  /\ run = [p \in Processes |-> Idle] /\ runs = 0
  /\ machine \in [Deps -> {{}} \cup {{v} : v \in Versions}]
  /\ files = [n \in Names |-> None] /\ directory = FALSE
  /\ holder = None /\ database = None
  /\ ran = {} /\ meddled = {} /\ meddles = 0

----------------------------------------------------------------------------
(* The run around the phase: install of lib.rs.                            *)

\* The state database is opened only where there is one.
Start(p) ==
  /\ run[p].stage \in {"idle", "ended"} /\ runs < MaxRuns
  /\ database # None => holder = None
  /\ \E required \in OptionSets, manner \in Manners :
       run' = [run EXCEPT ![p] = [Idle EXCEPT
                 !.stage = IF NumDeps = 0 THEN "product" ELSE "next",
                 !.number = runs + 1, !.required = required,
                 !.install = manner[1], !.elevated = manner[2], !.quiet = manner[3],
                 !.opened = database # None]]
  /\ runs' = runs + 1
  /\ holder' = IF database # None THEN p ELSE holder
  /\ meddled' = {m \in meddled : m[1] # p}
  /\ UNCHANGED <<machine, files, directory, database, ran, meddles>>

\* Raised by the client's Cancel button, at any time.
Cancel(p) ==
  /\ run[p].stage \notin {"idle", "ended"} /\ ~run[p].quiet /\ ~run[p].cancel
  /\ Set(p, [run[p] EXCEPT !.cancel = TRUE])
  /\ UNCHANGED <<runs, machine, files, directory, holder, database, ran, meddled, meddles>>

Crash(p) ==
  /\ run[p].stage \notin {"idle", "ended"}
  /\ run' = [run EXCEPT ![p] = Idle]
  /\ holder' = IF holder = p THEN None ELSE holder
  /\ meddled' = {m \in meddled : m[1] # p}
  /\ UNCHANGED <<runs, machine, files, directory, database, ran, meddles>>

\* Somebody else installs or removes a version of a dependency.
Meddle(d) ==
  /\ meddles < MaxMeddles /\ meddles' = meddles + 1
  /\ \E v \in Versions :
       \/ /\ v \notin machine[d]
          /\ machine' = [machine EXCEPT ![d] = @ \cup {v}]
          /\ UNCHANGED meddled
       \/ /\ v \in machine[d]
          /\ machine' = [machine EXCEPT ![d] = @ \ {v}]
          /\ meddled' = meddled \cup {<<p, d>> : p \in {q \in Processes :
                                        run[q].stage \notin {"idle", "ended"}}}
  /\ UNCHANGED <<run, runs, files, directory, holder, database, ran>>

----------------------------------------------------------------------------
(* One dependency's step: detect, and refuse what may not be acquired.     *)

Advance(p, now) ==
  Set(p, IF run[p].dep = NumDeps THEN [now EXCEPT !.stage = "clean"]
         ELSE [now EXCEPT !.stage = "next", !.dep = @ + 1])

NotRequired(p) ==
  /\ Is(p, "next") /\ run[p].dep \notin run[p].required
  /\ Advance(p, [run[p] EXCEPT !.records = @ \cup {<<run[p].dep, "not_required">>}])
  /\ UNCHANGED <<runs, machine, files, directory, holder, database, ran, meddled, meddles>>

\* An embedded installer's payload that cannot be opened fails the phase
\* before detection.
PayloadUnreadable(p) ==
  /\ Is(p, "next") /\ run[p].dep \in run[p].required /\ Current(p).source = "embedded"
  /\ Fail(p, "dependency_unacquirable")
  /\ UNCHANGED <<runs, machine, files, directory, holder, database, ran, meddled, meddles>>

Detected(p) ==
  /\ Is(p, "next") /\ run[p].dep \in run[p].required
  /\ LET v == detect(run[p].dep) IN
       /\ v # None
       /\ Advance(p, [run[p] EXCEPT !.events = Append(@, Event(p, "detected", v)),
                                 !.records = @ \cup {<<run[p].dep, "present">>}])
  /\ UNCHANGED <<runs, machine, files, directory, holder, database, ran, meddled, meddles>>

\* Detection itself fails, and with it the phase.
DetectionFails(p) ==
  /\ Is(p, "next") /\ run[p].dep \in run[p].required
  /\ Fail(p, "dependency_unverified")
  /\ UNCHANGED <<runs, machine, files, directory, holder, database, ran, meddled, meddles>>

elevation_blocked(p, required) == required /\ ~run[p].elevated /\ run[p].quiet

\* Absent: refused, or the download directory is made and acquisition begins.
Missing(p) ==
  /\ Is(p, "next") /\ run[p].dep \in run[p].required /\ detect(run[p].dep) = None
  /\ IF ~run[p].install THEN Fail(p, "dependency_missing") /\ UNCHANGED directory
     ELSE IF elevation_blocked(p, Current(p).elevated)
          THEN Fail(p, "dependency_requires_elevation") /\ UNCHANGED directory
     ELSE \/ Fail(p, "dependency_unacquirable") /\ UNCHANGED directory
          \/ Set(p, [run[p] EXCEPT !.stage = "missing"]) /\ directory' = TRUE
  /\ UNCHANGED <<runs, machine, files, holder, database, ran, meddled, meddles>>

----------------------------------------------------------------------------
(* Acquisition.                                                            *)

\* maxAge 0: never refreshed; an unknown time of resolution: never fresh.
hint_is_fresh(dep) ==
  dep.maxAge = 0 \/ (dep.resolvedAt > 0 /\ Now - dep.resolvedAt <= dep.maxAge)

\* What the package itself declares for running an installer.
Declared(p, installer) ==
  [installer |-> installer, elevated |-> Current(p).elevated,
   success |-> Current(p).success, reboot |-> Current(p).reboot]

\* The installer named by the hint, or the catalog, is downloaded next.
Fetch(p, via, wanted) ==
  Set(p, [run[p] EXCEPT !.stage = "download", !.via = via, !.wanted = wanted])

Acquire(p) ==
  /\ Is(p, "missing")
  /\ LET dep == Current(p) IN
       CASE dep.source = "embedded" -> Fetch(p, "payload", Declared(p, dep.hint))
         [] dep.source = "url" /\ dep.hint # None -> Fetch(p, "url", Declared(p, dep.hint))
         [] dep.source = "winget" /\ dep.hint # None /\ hint_is_fresh(dep) ->
              Fetch(p, "hint", Declared(p, dep.hint))
         [] dep.source = "winget" /\ ~(dep.hint # None /\ hint_is_fresh(dep)) ->
              Set(p, [run[p] EXCEPT !.stage = "index"])
         [] OTHER -> Fail(p, "dependency_unacquirable")
  /\ UNCHANGED <<runs, machine, files, directory, holder, database, ran, meddled, meddles>>

Target(p) == FileName[run[p].wanted.installer]

\* File::create: the directory is made again, the name's content is gone.
CreateFile(p) ==
  /\ Is(p, "download") /\ run[p].accepted = None /\ run[p].via # "payload"
  /\ Set(p, [run[p] EXCEPT !.accepted = Partial])
  /\ files' = [files EXCEPT ![Target(p)] = Partial] /\ directory' = TRUE
  /\ UNCHANGED <<runs, machine, holder, database, ran, meddled, meddles>>

\* Whether other processes hold the name open for writing.
Writers(name) == {q \in Processes : Is(q, "download") /\ run[q].accepted = Partial
                                    /\ Target(q) = name}

Accept(p) == Set(p, [run[p] EXCEPT !.stage = "ready", !.accepted = run[p].wanted])

Verified(p, bytes) == bytes = run[p].wanted.installer

\* The whole body arrived and its hash is the expected one. Another process
\* that created the file again meanwhile leaves it incomplete.
Downloaded(p) ==
  /\ Is(p, "download") /\ run[p].accepted = Partial
  /\ \E bytes \in Installers :
       /\ Verified(p, bytes)
       /\ \E now \in {bytes} \cup (IF Writers(Target(p)) # {p} THEN {Partial} ELSE {}) :
            files' = [files EXCEPT ![Target(p)] = IF @ = None THEN None ELSE now]
  /\ Accept(p)
  /\ UNCHANGED <<runs, machine, directory, holder, database, ran, meddled, meddles>>

\* The network, the server, the bytes or the disk: the hint falls back on the
\* catalog, except when cancelled. A failed flush leaves the file.
DownloadFails(p) ==
  /\ Is(p, "download") /\ run[p].via # "payload"
  /\ \/ run[p].accepted = None /\ UNCHANGED files       \* it cannot be created
     \/ /\ run[p].accepted = Partial
        /\ \E rest \in {None, Partial} : files' = [files EXCEPT ![Target(p)] = rest]
  /\ \/ run[p].cancel /\ Fail(p, "dependency_cancelled")
     \/ run[p].via = "hint" /\ Set(p, [run[p] EXCEPT !.stage = "index", !.accepted = None])
     \/ run[p].via # "hint" /\ Fail(p, "dependency_unacquirable")
  /\ UNCHANGED <<runs, machine, directory, holder, database, ran, meddled, meddles>>

\* The payload's bytes are hashed while they are staged, renamed after.
Extract(p) ==
  /\ Is(p, "download") /\ run[p].via = "payload"
  /\ \/ Fail(p, "dependency_unacquirable") /\ UNCHANGED files
     \/ \E bytes \in Installers : /\ Verified(p, bytes)
                                  /\ files' = [files EXCEPT ![Target(p)] = bytes]
                                  /\ Accept(p)
  /\ UNCHANGED <<runs, machine, directory, holder, database, ran, meddled, meddles>>

\* The oldest publication accepted: the builder's own, less a margin.
NotBefore(dep) == IF dep.resolvedAt > 0 THEN dep.resolvedAt - Margin ELSE Now - MaxIndexAge

\* A catalog document cannot be had, or is refused: the reason ends the phase.
Unacquirable(p) ==
  \/ run[p].cancel /\ Fail(p, "dependency_cancelled")
  \/ Fail(p, "dependency_unacquirable")

FetchIndex(p) ==
  /\ Is(p, "index")
  /\ \/ Unacquirable(p)
     \/ \E msix \in Servable :
          /\ IndexVerdict(msix, NotBefore(Current(p))) = Ok
          /\ lookup(msix, run[p].dep) # None
          /\ Set(p, [run[p] EXCEPT !.stage = "versions", !.list = lookup(msix, run[p].dep)])
  /\ UNCHANGED <<runs, machine, files, directory, holder, database, ran, meddled, meddles>>

FetchVersions(p) ==
  /\ Is(p, "versions")
  /\ \/ Unacquirable(p)
     \/ \E list \in Lists :
          /\ verify_version_data(list, run[p].list) = Ok
          /\ candidates(list, Current(p).minimum) # <<>>
          /\ Set(p, [run[p] EXCEPT !.stage = "manifest", !.list = None,
                                !.left = Tried(list, Current(p).minimum)])
  /\ UNCHANGED <<runs, machine, files, directory, holder, database, ran, meddled, meddles>>

\* Switches and codes the package declares outlive a refresh.
Refreshed(p, item) ==
  [installer |-> item.installer,
   elevated  |-> Current(p).elevated \/ item.elevated,
   success   |-> IF Current(p).declared THEN Current(p).success ELSE item.success,
   reboot    |-> IF Current(p).declared THEN Current(p).reboot ELSE item.reboot]

FetchManifest(p) ==
  /\ Is(p, "manifest")
  /\ \/ Unacquirable(p)
     \/ /\ run[p].left # <<>>
        /\ LET item == Head(run[p].left) IN
             \E manifest \in Manifests :
               LET chosen == select(manifest, "x64", Scope) IN
               IF manifest_for(manifest, item) = Ok /\ chosen # None
               THEN Set(p, [run[p] EXCEPT !.stage = "download", !.via = "catalog", !.left = <<>>,
                                       !.wanted = Refreshed(p, chosen)])
               ELSE /\ Len(run[p].left) > 1
                    /\ Set(p, [run[p] EXCEPT !.left = Tail(@)])
  /\ UNCHANGED <<runs, machine, files, directory, holder, database, ran, meddled, meddles>>

----------------------------------------------------------------------------
(* Running the installer and believing detection, not its exit code.       *)

Refuse(p) ==
  /\ Is(p, "ready")
  /\ \/ elevation_blocked(p, run[p].accepted.elevated) /\ Fail(p, "dependency_requires_elevation")
     \/ run[p].cancel /\ Fail(p, "dependency_cancelled")
     \* the elevation prompt is refused
     \/ /\ run[p].accepted.elevated /\ ~run[p].elevated /\ ~run[p].quiet
        /\ Fail(p, "dependency_cancelled")
     \* the process cannot be created
     \/ Fail(p, "dependency_install_failed")
  /\ UNCHANGED <<runs, machine, files, directory, holder, database, ran, meddled, meddles>>

\* Mutant: only what the package declared is held against a quiet run.
MayLaunchDeclared(p) ==
  ~run[p].cancel /\ ~elevation_blocked(p, Current(p).elevated)

MayLaunch(p) == ~run[p].cancel /\ ~elevation_blocked(p, run[p].accepted.elevated)

\* The file at the path is run, unless somebody holds it open for writing; it
\* does its work or not, and its exit code may say either.
Launch(p) ==
  /\ Is(p, "ready") /\ MayLaunch(p)
  /\ LET name == Target(p)  file == files[Target(p)] IN
       /\ file # None /\ Writers(name) = {}
       /\ \E code \in ExitCodes :
            /\ Set(p, [run[p] EXCEPT !.stage = "judge", !.code = code])
            /\ ran' = ran \cup {[run |-> run[p].number, dep |-> run[p].dep, bytes |-> file,
                                 prompt |-> run[p].accepted.elevated /\ ~run[p].elevated,
                                 quiet |-> run[p].quiet, reboot |-> code \in run[p].accepted.reboot]}
       /\ \/ UNCHANGED machine
          \/ /\ file \in Installers
             /\ machine' = [machine EXCEPT ![run[p].dep] = @ \cup {Gives[file]}]
  /\ UNCHANGED <<runs, files, directory, holder, database, meddled, meddles>>

Success(p) == run[p].code = 0 \/ run[p].code \in run[p].accepted.success \cup run[p].accepted.reboot

\* An exit code that says failure is checked against the machine, and believed
\* where detection fails.
Judge(p) ==
  /\ Is(p, "judge")
  /\ \/ /\ Success(p) \/ detect(run[p].dep) # None
        /\ Set(p, [run[p] EXCEPT !.stage = "verify"])
     \/ ~Success(p) /\ Fail(p, "dependency_install_failed")
  /\ UNCHANGED <<runs, machine, files, directory, holder, database, ran, meddled, meddles>>

\* Mutant: the exit code is believed.
CodeBelieved(p) == TRUE

FoundAgain(p) == detect(run[p].dep) # None

Installed(p) ==
  /\ Is(p, "verify") /\ FoundAgain(p)
  /\ LET v == detect(run[p].dep)
         reboot == run[p].code \in run[p].accepted.reboot
     IN  Advance(p, [run[p] EXCEPT
                 !.events = @ \o <<Event(p, "acquired", Gives[run[p].accepted.installer]),
                                   Event(p, "installed", v)>>
                              \o (IF reboot THEN <<Event(p, "reboot_required", v)>> ELSE <<>>),
                 !.records = @ \cup
                    {<<run[p].dep, IF reboot THEN "reboot_required" ELSE "installed">>},
                 !.reboot = @ \/ reboot, !.accepted = None, !.wanted = None])
  /\ UNCHANGED <<runs, machine, files, directory, holder, database, ran, meddled, meddles>>

\* It is not found, or detection fails.
NotVerified(p) ==
  /\ Is(p, "verify")
  /\ Fail(p, "dependency_unverified")
  /\ UNCHANGED <<runs, machine, files, directory, holder, database, ran, meddled, meddles>>

----------------------------------------------------------------------------
(* The end of the phase, and of the run.                                   *)

\* Mutant: the directory is removed only after a phase that succeeded.
RemovesAfterSuccess(p) == directory /\ run[p].failure = None

Removes(p) == directory

\* Rows are written as soon as a state database is open.
Recorded(p) == IF run[p].opened THEN database \o run[p].events ELSE database

Clean(p) ==
  /\ Is(p, "clean")
  /\ \E removed \in BOOLEAN :    \* remove_dir_all may fail
       LET gone == Removes(p) /\ removed IN
       /\ files' = IF gone THEN [n \in Names |-> None] ELSE files
       /\ directory' = (directory /\ ~gone)
       /\ Set(p, [run[p] EXCEPT
                 !.stage = IF run[p].failure = None THEN "product" ELSE "ended",
                 !.swept = Removes(p) => removed,
                 !.exit  = IF run[p].failure = None THEN None ELSE "failed"])
  /\ database' = Recorded(p)
  /\ holder' = IF run[p].failure # None /\ holder = p THEN None ELSE holder
  /\ UNCHANGED <<runs, machine, ran, meddled, meddles>>

\* Mutant: rows written when the database was opened are written again.
RecordedAgain(p) == (IF database = None THEN <<>> ELSE database) \o run[p].events

RecordedLate(p) == IF run[p].opened THEN database
                   ELSE (IF database = None THEN <<>> ELSE database) \o run[p].events

\* The database opened now, the product transaction, and the outcome: a
\* restart an installer asked for is reported with a success.
Product(p) ==
  /\ Is(p, "product")
  /\ run[p].opened \/ holder = None
  /\ database' = RecordedLate(p)
  /\ \E result \in {"installed", "failed"} :
       Set(p, [run[p] EXCEPT !.stage = "ended",
                 !.exit = IF result = "installed" /\ run[p].reboot THEN "reboot" ELSE result])
  /\ holder' = IF run[p].opened THEN None ELSE holder
  /\ UNCHANGED <<runs, machine, files, directory, ran, meddled, meddles>>

\* The legacy migration fails, or the database is another process's.
ProductError(p) ==
  /\ Is(p, "product")
  /\ Set(p, [run[p] EXCEPT !.stage = "ended", !.exit = "failed"])
  /\ holder' = IF holder = p THEN None ELSE holder
  /\ UNCHANGED <<runs, machine, files, directory, database, ran, meddled, meddles>>

Step(p) ==
  \/ NotRequired(p) \/ PayloadUnreadable(p) \/ Detected(p) \/ Missing(p) \/ DetectionFails(p)
  \/ Acquire(p) \/ CreateFile(p) \/ Downloaded(p) \/ DownloadFails(p) \/ Extract(p)
  \/ FetchIndex(p) \/ FetchVersions(p) \/ FetchManifest(p)
  \/ Refuse(p) \/ Launch(p) \/ Judge(p) \/ Installed(p) \/ NotVerified(p)
  \/ Clean(p) \/ Product(p) \/ ProductError(p)

Next ==
  \/ \E p \in Processes : Start(p) \/ Cancel(p) \/ Crash(p) \/ Step(p)
  \/ \E d \in Deps : Meddle(d)

Spec == Init /\ [][Next]_vars

----------------------------------------------------------------------------
(* Properties.                                                             *)

\* Every variable keeps its type.
TypeOK ==
  /\ \A p \in Processes :
       /\ run[p].stage \in Stages
       /\ run[p].dep \in Deps \cup {1} /\ run[p].number \in 0 .. MaxRuns
       /\ run[p].required \subseteq Deps
       /\ run[p].exit \in {None, "installed", "reboot", "failed"}
  /\ runs \in 0 .. MaxRuns
  /\ machine \in [Deps -> SUBSET Versions]
  /\ files \in [Names -> Installers \cup {None, Partial}]
  /\ directory \in BOOLEAN
  /\ holder \in Processes \cup {None}

\* What is run for a dependency is its declared installer, or one that an
\* index no older than the builder's, less the margin, lists for it in a
\* version that satisfies it (acquire.rs: "never an unverified download"):
\* whatever servers hand out, and whatever a run that crashed left in the
\* download directory. Two installers at once may run what the other left.
RunsOnlyVerified ==
  \A r \in ran : LET dep == Dep[r.dep] IN
    \/ r.bytes # None /\ r.bytes = dep.hint
    \/ dep.source = "winget" /\ Listed(r.bytes, r.dep, dep.minimum, NotBefore(dep))

\* The product transaction opens with every required dependency detected,
\* unless somebody else removed it during the run (mod.rs: "detect -> present
\* -> continue; absent -> acquire, install unattended, re-detect").
RequirementsHold ==
  \A p \in Processes : Is(p, "product") =>
    \A d \in run[p].required : detect(d) # None \/ <<p, d>> \in meddled

\* A quiet run never raises an elevation prompt, whether the package or the
\* catalog's manifest said that the installer needs one; and a restart an
\* installer asked for is in the outcome of a run that succeeded.
AsksAndTells ==
  /\ \A r \in ran : r.prompt => ~r.quiet
  /\ \A p \in Processes : run[p].exit = "installed" =>
       ~\E r \in ran : r.run = run[p].number /\ r.reboot

RowsOf(n, d, action) == {i \in DOMAIN database : database[i].run = n /\ database[i].dep = d
                                               /\ database[i].action = action}

\* The recorded history is what happened: nothing twice, nothing installed
\* that was not run, and after a successful run one row that says why each
\* required dependency is satisfied.
RowsAreTrue ==
  database # None =>
    /\ \A i \in DOMAIN database : LET e == database[i] IN
         /\ Cardinality(RowsOf(e.run, e.dep, e.action)) = 1
         /\ e.action = "installed" => \E r \in ran : r.run = e.run /\ r.dep = e.dep
    /\ \A p \in Processes : run[p].exit \in {"installed", "reboot"} =>
         \A d \in run[p].required :
           Cardinality(RowsOf(run[p].number, d, "detected")
                       \cup RowsOf(run[p].number, d, "installed")) = 1

\* No download outlives the run that ends the phase, whatever ended it, and
\* those of a run that crashed go with the next one.
DownloadsRemoved ==
  \A p \in Processes : Is(p, "ended") /\ run[p].swept => ~directory

\* What the phase leaves behind is a history of what happened and nothing
\* it downloaded.
HistoryIsTrue == RowsAreTrue /\ DownloadsRemoved
=============================================================================
