------------------------------- MODULE Loader -------------------------------
(***************************************************************************)
(* The loader every generated Setup.exe begins with (loader.c), several of *)
(* them at once: each verifies its own file, extracts the engine from it   *)
(* into a directory of its own, runs it and cleans up. The directories of  *)
(* unelevated launches share a root that each launch creates when it is    *)
(* missing and removes when it is empty. Meanwhile the file a launch was   *)
(* started from may be replaced, a launch may be killed, and time passes.  *)
(*                                                                         *)
(* A file is its identity: a number the file system gives again once the   *)
(* file is gone, and a file is gone when it has no name and no handle.     *)
(***************************************************************************)
EXTENDS Integers, FiniteSets

CONSTANTS
  Launches,      \* the launches
  Files,         \* identities of files
  Taken,         \* names of directories somebody else made before
  MaxAttempts,   \* how often a launch tries again for a directory
  Helpers,       \* how many helpers of uninstallations may remove the root
  Nothing

Names    == Launches \X (0 .. MaxAttempts)
Contents == {"intact", "footer", "engine"}   \* or what is damaged
Codes    == {"damaged", "unstarted", "refused", "ended"}
Folders  == [owner : Launches \cup {Nothing}, file : {"none", "partial", "engine", "held"},
             old : BOOLEAN]

ASSUME LoaderAssumption ==
  /\ MaxAttempts \in Nat /\ Helpers \in Nat /\ IsFiniteSet(Launches)
  /\ Taken \subseteq Names
  /\ Nothing \notin Files /\ Nothing \notin Launches /\ Nothing \notin Names
  /\ Nothing \notin Codes /\ Nothing \notin Folders

\* Every other launch and every helper removes the root at most once.
ASSUME EnoughAttempts ==
  MaxAttempts >= Cardinality(Launches) - 1 + Helpers + Cardinality(Taken)

VARIABLES
  elevated,  \* launches with an elevated token, which use Windows's own Temp
  path,      \* the file at the installer's path
  content,   \* [Files -> Contents]
  root,      \* whether the user's root exists
  folder,    \* [Names -> a directory, or Nothing]
  launch,    \* [Launches -> the loader]
  engine,    \* [Launches -> the engine process it started]
  helpers,   \* helpers still to come
  swept      \* history: launches whose directory a sweep removed

loaderVars == <<elevated, path, content, root, folder, launch, engine, helpers, swept>>

Root(l)    == l \notin elevated
InRoot(d)  == Root(d[1])
Folder(owner, file) == [owner |-> owner, file |-> file, old |-> FALSE]

LoaderInit ==
  /\ elevated \in SUBSET Launches
  /\ path \in Files
  /\ content \in {c \in [Files -> Contents] : \A f \in Files \ {path} : c[f] = "intact"}
  /\ root = \E d \in Taken : InRoot(d)
  /\ folder = [d \in Names |-> IF d \in Taken THEN Folder(Nothing, "none") ELSE Nothing]
  /\ launch = [l \in Launches |->
                 [pc |-> "idle", file |-> Nothing, attempt |-> 0, dir |-> Nothing, code |-> Nothing]]
  /\ engine = [l \in Launches |-> [pc |-> "none", reads |-> Nothing]]
  /\ helpers = Helpers /\ swept = {}

----------------------------------------------------------------------------
Goes(l, from, to) ==
  /\ launch[l].pc = from
  /\ launch' = [launch EXCEPT ![l].pc = to]

Ends(l, from, to, code) ==
  /\ launch[l].pc = from
  /\ launch' = [launch EXCEPT ![l].pc = to, ![l].code = code]

\* The file is held open until the launch is over.
\* Mutant: until the engine is extracted.
HoldsWhileExtracting(l) == launch[l].pc \in {"footer", "root", "sweep", "directory", "extract", "extracting"}

Holds(l) == launch[l].pc \notin {"idle", "done", "killed"}

OpenInstaller(l) ==
  /\ launch[l].pc = "idle"
  /\ launch' = [launch EXCEPT ![l].pc = "footer", ![l].file = path]
  /\ UNCHANGED <<elevated, path, content, root, folder, engine, helpers, swept>>

ReadFooter(l) ==
  /\ launch[l].pc = "footer"
  /\ IF content[launch[l].file] = "footer" THEN Ends(l, "footer", "done", "damaged")
     ELSE Goes(l, "footer", IF Root(l) THEN "root" ELSE "directory")
  /\ UNCHANGED <<elevated, path, content, root, folder, engine, helpers, swept>>

CreateRoot(l) ==
  /\ Goes(l, "root", "sweep")
  /\ root' = TRUE
  /\ UNCHANGED <<elevated, path, content, folder, engine, helpers, swept>>

EngineAlive(l) == engine[l].pc \in {"started", "working"}

\* A file written without sharing, or of a running process, is not removed,
\* and so its directory is not.
InUse(d) ==
  LET l == folder[d].owner IN
    l # Nothing /\ launch[l].dir = d /\ (launch[l].pc = "extracting" \/ EngineAlive(l))

\* Extraction directories a day old.
Stale == {d \in Names : folder[d] # Nothing /\ InRoot(d) /\ folder[d].old /\ ~InUse(d)}

SweepStale(l) ==
  /\ Goes(l, "sweep", "directory")
  /\ folder' = [d \in Names |-> IF d \in Stale THEN Nothing ELSE folder[d]]
  /\ swept' = swept \cup {folder[d].owner : d \in Stale}
  /\ UNCHANGED <<elevated, path, content, root, engine, helpers>>

Name(l) == <<l, launch[l].attempt>>

\* Mutant: a root that is gone is no reason to try again.
MayRetryTaken(l) == launch[l].attempt < MaxAttempts /\ folder[Name(l)] # Nothing

\* A name that is taken, and a root that another launch has removed since.
MayRetry(l) ==
  launch[l].attempt < MaxAttempts /\ (folder[Name(l)] # Nothing \/ (Root(l) /\ ~root))

CreateDirectory(l) ==
  /\ launch[l].pc = "directory"
  /\ LET d == Name(l)  free == folder[d] = Nothing /\ (Root(l) => root) IN
       \/ /\ free
          /\ folder' = [folder EXCEPT ![d] = Folder(l, "none")]
          /\ launch' = [launch EXCEPT ![l].pc = "extract", ![l].dir = d]
          /\ UNCHANGED root
       \/ /\ ~free /\ MayRetry(l)
          /\ launch' = [launch EXCEPT ![l].attempt = @ + 1]
          /\ root' = (root \/ Root(l)) /\ UNCHANGED folder
       \/ /\ ~free /\ ~MayRetry(l)
          /\ Ends(l, "directory", "done", "unstarted")
          /\ UNCHANGED <<elevated, root, folder>>
  /\ UNCHANGED <<elevated, path, content, engine, helpers, swept>>

Own(l) == folder[launch[l].dir]

\* A directory that was swept meanwhile cannot take the file.
StartExtracting(l) ==
  /\ launch[l].pc = "extract"
  /\ IF Own(l) = Nothing THEN Ends(l, "extract", "cleanup", "unstarted") /\ UNCHANGED folder
     ELSE /\ Goes(l, "extract", "extracting")
          /\ folder' = [folder EXCEPT ![launch[l].dir] = Folder(l, "partial")]
  /\ UNCHANGED <<elevated, path, content, root, engine, helpers, swept>>

\* The block's hash, its length decompressed, and the engine's hash.
Verifies(l) == content[launch[l].file] = "intact"

EndExtracting(l) ==
  /\ launch[l].pc = "extracting"
  /\ IF Verifies(l)
     THEN /\ Goes(l, "extracting", "start")
          /\ folder' = [folder EXCEPT ![launch[l].dir] = Folder(l, "engine")]
     ELSE Ends(l, "extracting", "cleanup", "damaged") /\ UNCHANGED folder
  /\ UNCHANGED <<elevated, path, content, root, engine, helpers, swept>>

StartEngine(l) ==
  /\ launch[l].pc = "start"
  /\ IF Own(l) = Nothing THEN Ends(l, "start", "cleanup", "unstarted") /\ UNCHANGED engine
     ELSE Goes(l, "start", "wait") /\ engine' = [engine EXCEPT ![l].pc = "started"]
  /\ UNCHANGED <<elevated, path, content, root, folder, helpers, swept>>

\* The engine opens the package at the path it was given, and goes on only
\* with the file whose identity it was given.
EngineOpens(l) ==
  /\ engine[l].pc = "started"
  /\ engine' = [engine EXCEPT ![l] = IF path = launch[l].file
                                     THEN [pc |-> "working", reads |-> path]
                                     ELSE [pc |-> "refused", reads |-> Nothing]]
  /\ UNCHANGED <<elevated, path, content, root, folder, launch, helpers, swept>>

EngineEnds(l) ==
  /\ engine[l].pc = "working"
  /\ engine' = [engine EXCEPT ![l].pc = "ended"]
  /\ UNCHANGED <<elevated, path, content, root, folder, launch, helpers, swept>>

Waited(l) ==
  /\ engine[l].pc \in {"ended", "refused"}
  /\ Ends(l, "wait", "cleanup", engine[l].pc)
  /\ UNCHANGED <<elevated, path, content, root, folder, engine, helpers, swept>>

\* Mutant: a launch that failed forgets the root.
AfterARun(l) == IF Root(l) /\ launch[l].code = "ended" THEN "unroot" ELSE "done"

AfterCleanup(l) == IF Root(l) THEN "unroot" ELSE "done"

\* What is held too long is left.
RemoveDirectory(l) ==
  /\ Goes(l, "cleanup", AfterCleanup(l))
  /\ \/ folder' = [folder EXCEPT ![launch[l].dir] = Nothing]
     \/ folder' = [folder EXCEPT ![launch[l].dir] = IF @ = Nothing THEN Nothing ELSE [@ EXCEPT !.file = "held"]]
  /\ UNCHANGED <<elevated, path, content, root, engine, helpers, swept>>

Empty == \A d \in Names : InRoot(d) => folder[d] = Nothing

RemoveRoot(l) ==
  /\ Goes(l, "unroot", "done")
  /\ root' = (root /\ ~Empty)
  /\ UNCHANGED <<elevated, path, content, folder, engine, helpers, swept>>

----------------------------------------------------------------------------
\* The loader is killed; an engine it started goes on.
Kill(l) ==
  /\ launch[l].pc \notin {"idle", "done", "killed"}
  /\ launch' = [launch EXCEPT ![l].pc = "killed"]
  /\ UNCHANGED <<elevated, path, content, root, folder, engine, helpers, swept>>

\* A helper of an uninstallation removes the root when it is empty.
Help ==
  /\ helpers > 0 /\ root
  /\ helpers' = helpers - 1
  /\ root' = ~Empty
  /\ UNCHANGED <<elevated, path, content, folder, launch, engine, swept>>

\* A day passes since a directory was last written to.
Age(d) ==
  /\ folder[d] # Nothing /\ ~folder[d].old
  /\ folder' = [folder EXCEPT ![d].old = TRUE]
  /\ UNCHANGED <<elevated, path, content, root, launch, engine, helpers, swept>>

\* The path is given to another file, perhaps of an identity used before.
Replace ==
  /\ \E f \in Files \ {path}, c \in Contents :
       /\ \A l \in Launches : Holds(l) => launch[l].file # f
       /\ path' = f /\ content' = [content EXCEPT ![f] = c]
  /\ UNCHANGED <<elevated, root, folder, launch, engine, helpers, swept>>

Step(l) ==
  \/ OpenInstaller(l) \/ ReadFooter(l) \/ CreateRoot(l) \/ SweepStale(l) \/ CreateDirectory(l)
  \/ StartExtracting(l) \/ EndExtracting(l) \/ StartEngine(l)
  \/ EngineOpens(l) \/ EngineEnds(l) \/ Waited(l) \/ RemoveDirectory(l) \/ RemoveRoot(l)

LoaderNext ==
  \/ \E l \in Launches : Step(l) \/ Kill(l)
  \/ Help \/ Replace
  \/ \E d \in Names : Age(d)

LoaderSpec == LoaderInit /\ [][LoaderNext]_loaderVars

----------------------------------------------------------------------------
(* Properties.                                                             *)

\* The engine that runs is the verified engine of the file the launch was
\* started from, in a directory nobody else made, and reads its package from
\* that same file (loader.c: "it reads the very file whose engine was
\* verified and run").
RunsWhatItVerified ==
  \A l \in Launches : engine[l].pc = "working" /\ launch[l].pc = "wait" =>
    /\ folder[launch[l].dir] # Nothing
    /\ folder[launch[l].dir].owner = l /\ folder[launch[l].dir].file = "engine"
    /\ engine[l].reads = launch[l].file /\ content[engine[l].reads] = "intact"


\* A launch never fails because of the other launches and their cleaning up:
\* one that could not start an engine was away for a day (loader.c: "the root
\* may be gone between its creation above and this one").
FailsAlone ==
  \A l \in Launches : launch[l].code = "unstarted" => l \in swept

\* When every launch is over, what is left of it is what it could not remove,
\* and the root is left only with something in it (loader.c: "a finished
\* launch leaves no TigerSetup folder behind").
LeavesNothing ==
  (\A l \in Launches : launch[l].pc = "done") =>
    /\ \A d \in Names : folder[d] # Nothing => folder[d].owner = Nothing \/ folder[d].file = "held"
    /\ root => ~Empty
=============================================================================
