------------------------------ MODULE Package -------------------------------
(* The life of an installer file: built from sources that may change while  *)
(* they are read (build), carried to a machine with whatever happens to its *)
(* bytes on the way, opened and read by the engine (Installer), and copied  *)
(* without its payload as the product's uninstaller (write_uninstaller).    *)
(*                                                                          *)
(* A file's content is a record of its length and the rest of its bytes; a  *)
(* hash of it is the content itself.  A block of an installer is what it    *)
(* decompresses to, Garbled where its bytes were altered.                   *)
EXTENDS Manifest, TLC

CONSTANTS
    Manifests,      \* the manifests a build is run on
    Sources,        \* the files beside the manifest, by manifest-relative path
    Contents,       \* what such a file may hold
    FirstDisk,      \* what they hold at first
    Steady,         \* the manifests whose sources nobody edits meanwhile
    Info,           \* [Contents -> [version, company]]: what VERSIONINFO says
    ProjectVersion, \* the version a project evaluates to
    StreamOrder,    \* all entry names: the reserved ones, then extension and path
    Damages,        \* what may happen to a delivered file
    MaxEdits,       \* source edits in a behaviour
    MaxBuilds       \* builds begun in a behaviour

VARIABLES
    manifest,       \* the manifest
    disk,           \* [Sources -> Contents \cup {None}]
    stage,          \* what the build does next, or "idle"
    work,           \* what the running build has resolved so far
    partial,        \* <installer>.exe.partial: NoFile, Torn or a file
    published,      \* the installer at its path, or NoFile
    result,         \* the last build: "none", "done", "crashed" or where it failed
    edits, builds,
    copy,           \* the delivered file, or NoFile
    damage,         \* what happened to it
    reader,         \* the engine's session on the copy
    uninstaller     \* the uninstaller copy, NoFile, or Error

buildVars == <<manifest, disk, stage, work, partial, published, result, edits, builds>>
copyVars == <<copy, damage, reader, uninstaller>>
vars == <<buildVars, copyVars>>

\* What is no file, no block and no content of one.
NoFile == [missing |-> TRUE]
Torn == [torn |-> TRUE]
Garbled == [garbled |-> TRUE]
Error == [error |-> TRUE]

\* The blocks every build starts from.
LoaderBlock == [code |-> "loader", signed |-> FALSE]
EngineBlock == [code |-> "engine"]

NoWork == [files |-> <<>>,
           resolved |-> [completions |-> <<>>, dependencies |-> <<>>, actions |-> <<>>,
                         quiescence |-> <<>>],
           reserved |-> {}, metadata |-> None, pledged |-> 0, version |-> None]
Unopened == [state |-> "unopened", position |-> 0, read |-> None, engine |-> None]

\* What a manifest has packaged, and the names it has it packaged under.
ProgramSources(mf) ==
    {a.source : a \in ToSet(mf.actions)
        \cup UNION {ProgramsOf(mf.quiescence[i]) : i \in DOMAIN mf.quiescence}}
      \ {None}

SourcesOf(mf) ==
    LET named == {mf.completion[i].script : i \in DOMAIN mf.completion}
            \cup {mf.completion[i].program : i \in DOMAIN mf.completion}
            \cup {mf.dependencies[i].file : i \in DOMAIN mf.dependencies}
        found == UNION {{f.source : f \in mf.files[i].found} : i \in DOMAIN mf.files}
    IN  found \cup (named \ {None}) \cup ProgramSources(mf)

EntriesOf(mf) ==
    LET found == UNION {{f.path : f \in mf.files[i].found} : i \in DOMAIN mf.files}
        own == {i \in DOMAIN mf.dependencies : mf.dependencies[i].file # None}
    IN  found
        \cup {InstalledScript(mf.completion[i].command) : i \in DOMAIN mf.completion}
        \cup {DependencyEntry(Last(mf.dependencies[i].file)) : i \in own}
        \cup {ActionEntry(Last(s)) : s \in ProgramSources(mf)}

ASSUME PackageAssumption ==
    /\ \A c \in Contents : c.len \in Nat
    /\ StreamOrder \in Seq(ToSet(StreamOrder)) /\ IsInjective(StreamOrder)
    /\ \A path \in ToSet(StreamOrder) : path # None /\ path \in Seq(ToSet(path))
    /\ Garbled \notin Contents /\ Error \notin Contents /\ None \notin {Error, EngineBlock}
    /\ FirstDisk \in [Sources -> Contents \cup {None}]
    /\ Damages \subseteq {"none", "signed", "certificate", "cut", "payload", "loader", "engine",
                          "metadata", "footer"}
    /\ \A mf \in Manifests :
        /\ WellFormed(mf)
        /\ SourcesOf(mf) \subseteq Sources /\ EntriesOf(mf) \subseteq ToSet(StreamOrder)
        /\ \A c \in ToSet(mf.completion) : ScriptName[c.command] \in Scripts

-----------------------------------------------------------------------------
(* Composition: compose, write_installer, MetadataBlock::encode.            *)

Lengths(payload) == [i \in DOMAIN payload |-> payload[i].len]

\* The index PayloadWriter makes of the bytes it read.
Index(entries, payload) ==
    LET end == Ends(Lengths(payload))
    IN  [i \in DOMAIN payload |->
            [entry |-> entries[i], offset |-> end[i - 1],
             length |-> payload[i].len, sha256 |-> payload[i]]]

Total(payload) == Ends(Lengths(payload))[Len(payload)]

\* The blocks and the footer that maps them.
File(loader, engine, payload, metadata) ==
    [loader |-> loader, engine |-> engine, payload |-> payload, metadata |-> metadata,
     footer |-> [engine |-> engine, executable |-> engine, payload |-> payload,
                 metadata |-> metadata, length |-> Total(payload)],
     tail |-> "none"]

-----------------------------------------------------------------------------
(* Reading: Installer::open, PayloadReader, extract_engine.                 *)

\* locate_footer: at the end, or before the certificate table the loader's
\* header records.
FooterFound(file) ==
    \/ file.tail = "none"
    \/ file.tail = "certificate" /\ file.loader # Garbled /\ file.loader.signed

Opens(file) ==
    /\ FooterFound(file)
    /\ file.footer # Garbled                          \* its CRC
    /\ file.metadata = file.footer.metadata           \* block and content hash
    /\ Valid(file.metadata)
    /\ file.metadata.role = "installer" /\ file.metadata.files # <<>> =>
        file.metadata.payload # <<>>
    /\ LET index == file.metadata.payload IN
        file.footer.length = (IF index = <<>> THEN 0
                              ELSE Last(index).offset + Last(index).length)

\* seek_to: what lies before the entry is decoded and dropped, from the start
\* of the stream if the position is already past it (restart).
Skip(position, offset) == IF position < offset THEN offset ELSE position

\* Mutant: the stream is never begun anew.
SoughtForward(position, offset) == Skip(position, offset)

Sought(position, offset) ==
    IF offset < position THEN Skip(0, offset) ELSE Skip(position, offset)

\* What decoding yields at a position: altered compressed bytes spoil what
\* they hold, and may spoil all that follows.  An empty entry reads nothing.
Decoded(file, position, region) ==
    LET at == {i \in DOMAIN file.payload : file.metadata.payload[i].offset = position
                                             /\ file.metadata.payload[i].length > 0}
        spoilt(i) == \E j \in 1..(i - 1) : file.payload[j] = Garbled
    IN  IF region.length = 0 THEN {region.sha256}
        ELSE UNION {{file.payload[i]} \cup (IF spoilt(i) THEN {Garbled} ELSE {}) : i \in at}

\* Entry::read: the bytes, or an error where their CRC is not the index's.
Checked(bytes, region) == IF bytes = region.sha256 THEN bytes ELSE Error

\* extract_engine: both hashes, and the length between them.
Extracted(file) ==
    IF /\ FooterFound(file) /\ file.footer # Garbled
       /\ file.engine = file.footer.engine /\ file.engine = file.footer.executable
    THEN file.engine ELSE Error

\* Mutant: the programs of actions are not held to their hash.
PinsOfDependencies(metadata) == Embedded(metadata)

Pins(metadata) == Embedded(metadata) \cup {a \in ToSet(metadata.actions) : a.entry # None}

\* Installer::verify: every entry against the index, and the entries of the
\* dependencies and the actions against the hash declared for them.
Verifies(file) ==
    /\ Opens(file)
    /\ file.payload = file.footer.payload /\ file.engine = file.footer.engine
    /\ \A i \in DOMAIN file.payload : LET region == file.metadata.payload[i] IN
        /\ Checked(file.payload[i], region) = file.payload[i]
        /\ \A pin \in Pins(file.metadata) :
            pin.entry = region.entry => pin.sha256 = file.payload[i]

-----------------------------------------------------------------------------
(* The build.                                                               *)

Fail ==
    /\ result' = stage /\ stage' = "idle" /\ work' = NoWork

Go(next) == stage' = next /\ UNCHANGED result

Begin ==
    /\ stage = "idle" /\ copy = NoFile /\ builds < MaxBuilds
    /\ builds' = builds + 1 /\ stage' = "load" /\ result' = "none"
    /\ UNCHANGED <<manifest, disk, work, partial, published, edits, copyVars>>

\* combine: the version typed in the manifest, or the project's, or the
\* executable's; an executable is held to the one it does not provide itself.
Binary == IF manifest.executable = None THEN [version |-> None, company |-> None]
          ELSE Info[disk[manifest.executable]]

Candidates ==
    SelectSeq(<<manifest.version,
                IF manifest.versionFrom = "msbuild" THEN ProjectVersion ELSE None>>,
              LAMBDA v : v # None)

Version == IF Candidates = <<>> THEN Binary.version ELSE Candidates[1]

BinaryMatches ==
    manifest.executable # None =>
        /\ Candidates # <<>> => Binary.version = Version
        /\ Binary.company = manifest.publisher

\* LoadedManifest::load and metadata::resolve_package.
Load ==
    /\ stage = "load"
    /\ IF /\ Accepted(manifest)
          /\ manifest.executable # None => disk[manifest.executable] # None
          /\ Version # None /\ Plain(Version) /\ BinaryMatches
       THEN Go("files") /\ work' = [NoWork EXCEPT !.version = Version]
       ELSE Fail
    /\ UNCHANGED <<manifest, disk, partial, published, edits, builds, copyVars>>

\* fileset::resolve: the sizes are those of the moment.
Found(entry) == {f \in entry.found : disk[f.source] # None}

Chosen ==
    UNION {{[path |-> f.path, source |-> f.source, size |-> disk[f.source].len,
             when |-> manifest.files[i].when, bytes |-> None] :
                f \in {g \in Found(manifest.files[i]) : g.path \notin manifest.files[i].exclude}} :
           i \in DOMAIN manifest.files}

ByPath(files) == {f.path : f \in files}
Named(files, path) == CHOOSE f \in files : f.path = path

\* sort_product_entries: the order of the file list and of the stream.
InStreamOrder(files) ==
    LET first[n \in 0..Len(StreamOrder)] ==
            IF n = 0 THEN <<>>
            ELSE IF StreamOrder[n] \in ByPath(files)
            THEN Append(first[n - 1], Named(files, StreamOrder[n]))
            ELSE first[n - 1]
    IN  first[Len(StreamOrder)]

ResolveFiles ==
    /\ stage = "files"
    /\ IF /\ \A i \in DOMAIN manifest.files : Found(manifest.files[i]) # {}
          /\ \A f \in Chosen : ValidPath(f.path)
          /\ \A f, g \in Chosen : f.path = g.path => f = g
       THEN Go("completions") /\ work' = [work EXCEPT !.files = InStreamOrder(Chosen)]
       ELSE Fail
    /\ UNCHANGED <<manifest, disk, partial, published, edits, builds, copyVars>>

\* completion::resolve: a script is made of the executable as it is now, or
\* read; it follows the executable's predicate, its declarations those of
\* the PATH entries.
Executable(c) == CHOOSE f \in ToSet(work.files) : f.path = c.executable

Maker(c) == IF c.source = "script" THEN c.script
            ELSE IF c.program # None THEN c.program ELSE Executable(c).source

CompletionFile(c) ==
    [path |-> InstalledScript(c.command), source |-> Maker(c),
     size |-> disk[Maker(c)].len, when |-> Executable(c).when, bytes |-> disk[Maker(c)]]

Declarations(c) ==
    FlattenSeq([i \in DOMAIN manifest.path |-> LET p == manifest.path[i] IN
        IF p.entry = Front(c.executable)
        THEN <<[command |-> c.command, script |-> InstalledScript(c.command),
                when |-> PredicateOf(p)]>>
        ELSE <<>>])

CompletionMakeable(c) ==
    /\ c.executable \in ByPath(ToSet(work.files))
    /\ InstalledScript(c.command) \notin ByPath(ToSet(work.files))
    /\ disk[Maker(c)] # None /\ disk[Maker(c)].len > 0

ResolveCompletions ==
    /\ stage = "completions"
    /\ IF \A i \in DOMAIN manifest.completion : CompletionMakeable(manifest.completion[i])
       THEN LET made == {CompletionFile(manifest.completion[i]) : i \in DOMAIN manifest.completion}
            IN  /\ Go("dependencies")
                /\ work' = [work EXCEPT
                    !.files = InStreamOrder(ToSet(@) \cup made),
                    !.resolved.completions =
                        FlattenSeq([i \in DOMAIN manifest.completion |->
                                        Declarations(manifest.completion[i])])]
       ELSE Fail
    /\ UNCHANGED <<manifest, disk, partial, published, edits, builds, copyVars>>

\* Read whole for its size and hash: neither missing nor empty.
Readable(source) == disk[source] # None /\ disk[source].len > 0

\* dependencies::declared.
Dependency(d) ==
    LET here == d.file # None IN
    [id |-> d.id, minimum |-> d.minimum, detector |-> d.detector, install |-> d.install,
     source |-> IF here THEN "embedded" ELSE IF d.url # None THEN "url" ELSE "winget",
     package |-> IF d.winget # None THEN d.winget ELSE d.id, url |-> d.url,
     entry |-> IF here THEN DependencyEntry(Last(d.file)) ELSE None,
     size |-> IF here THEN disk[d.file].len ELSE 0,
     sha256 |-> IF here THEN disk[d.file] ELSE IF d.url # None THEN d.sha256 ELSE None,
     when |-> d.when]

\* resolve_one: what the catalog knows of a WinGet package, with a hash of the
\* right length that nothing else is asked of, or nothing: the build is
\* offline, or the catalog does not answer.
Catalogued == {None, "hash"} \cup Malformed

Hinted(d, hash) ==
    IF d.source = "winget" /\ hash # None
    THEN [d EXCEPT !.url = "hint", !.sha256 = hash, !.install = TRUE] ELSE d

ResolveDependencies ==
    /\ stage = "dependencies"
    /\ LET declared == manifest.dependencies
           own == {i \in DOMAIN declared : declared[i].file # None}
       IN  IF /\ \A i, j \in own : Last(declared[i].file) = Last(declared[j].file) => i = j
              /\ \A i \in own : Readable(declared[i].file)
           THEN /\ Go("actions")
                /\ \E hashes \in [DOMAIN declared -> Catalogued] :
                    work' = [work EXCEPT
                        !.reserved = {[entry |-> DependencyEntry(Last(declared[i].file)),
                                       source |-> declared[i].file] : i \in own},
                        !.resolved.dependencies =
                            [i \in DOMAIN declared |->
                                Hinted(Dependency(declared[i]), hashes[i])]]
           ELSE Fail
    /\ UNCHANGED <<manifest, disk, partial, published, edits, builds, copyVars>>

\* actions::declared: a program's own operations, or its phase's.
DefaultOperations(phase) ==
    CASE phase \in {"quiesce", "resume"} -> <<>>
      [] phase \in {"pre-install", "post-install"} -> <<"install", "upgrade", "reinstall">>
      [] OTHER -> <<"uninstall">>

Program(a) ==
    LET here == a.source # None IN
    [name |-> a.name, phase |-> a.phase, kind |-> a.kind, command |-> a.command,
     runOn |-> IF a.runOn # None THEN a.runOn ELSE DefaultOperations(a.phase),
     entry |-> IF here THEN ActionEntry(Last(a.source)) ELSE None,
     size |-> IF here THEN disk[a.source].len ELSE 0,
     sha256 |-> IF here THEN disk[a.source] ELSE None,
     directory |-> a.directory, when |-> a.when]

QuiescenceOf(q) ==
    [name |-> q.name, runOn |-> IF q.runOn = None THEN <<>> ELSE q.runOn,
     stop |-> Program(AsAction(q.stop, q.name, "quiesce")),
     resume |-> IF q.resume = None THEN None
                ELSE Program(AsAction(q.resume, q.name, "resume")),
     notRunning |-> q.notRunning, success |-> q.stop.success, when |-> q.when]

\* Two programs may share a packaged source, two sources no file name.
ResolveActions ==
    /\ stage = "actions"
    /\ LET packaged == ProgramSources(manifest)
       IN  IF /\ \A s \in packaged : Readable(s)
              /\ \A s, t \in packaged : Last(s) = Last(t) => s = t
           THEN /\ Go("describe")
                /\ work' = [work EXCEPT
                    !.reserved = @ \cup {[entry |-> ActionEntry(Last(s)), source |-> s] :
                                             s \in packaged},
                    !.resolved.actions =
                        [i \in DOMAIN manifest.actions |-> Program(manifest.actions[i])],
                    !.resolved.quiescence =
                        [i \in DOMAIN manifest.quiescence |->
                            QuiescenceOf(manifest.quiescence[i])]]
           ELSE Fail
    /\ UNCHANGED <<manifest, disk, partial, published, edits, builds, copyVars>>

\* metadata_for and its validation; then the partial file, created anew.
Describe ==
    /\ stage = "describe"
    /\ LET m == MetadataFor(manifest, work.version, work.files, work.resolved) IN
        IF Valid(m)
        THEN Go("measure") /\ work' = [work EXCEPT !.metadata = m] /\ partial' = Torn
        ELSE Fail /\ UNCHANGED partial
    /\ UNCHANGED <<manifest, disk, published, edits, builds, copyVars>>

\* The payload's sources in stream order: what is read anew from the disk,
\* and the scripts the build itself wrote.
Stream ==
    LET items == {[path |-> r.entry, source |-> r.source, bytes |-> None] : r \in work.reserved}
            \cup {[path |-> f.path, source |-> f.source, bytes |-> f.bytes] :
                      f \in ToSet(work.files)}
    IN  InStreamOrder(items)

BytesOf(item) == IF item.bytes # None THEN item.bytes ELSE disk[item.source]

Payload == [i \in DOMAIN Stream |-> BytesOf(Stream[i])]

AllThere == \A i \in DOMAIN Stream : Payload[i] # None

\* Mutant: the path is cleared before the new file is there.
MeasureCleared ==
    /\ stage = "measure"
    /\ IF AllThere
       THEN Go("write") /\ work' = [work EXCEPT !.pledged = Total(Payload)] /\ UNCHANGED partial
       ELSE Fail /\ partial' = NoFile
    /\ published' = NoFile
    /\ UNCHANGED <<manifest, disk, edits, builds, copyVars>>

\* The first pass of compose: the length the encoder is pledged.
Measure ==
    /\ stage = "measure"
    /\ IF AllThere
       THEN Go("write") /\ work' = [work EXCEPT !.pledged = Total(Payload)] /\ UNCHANGED partial
       ELSE Fail /\ partial' = NoFile
    /\ UNCHANGED <<manifest, disk, published, edits, builds, copyVars>>

\* The second pass: the bytes, the index of what was read, and the metadata
\* validated once more with it.
Composed ==
    File(LoaderBlock, EngineBlock, Payload,
         [work.metadata EXCEPT
             !.payload = Index([i \in DOMAIN Stream |-> Stream[i].path], Payload)])

Write ==
    /\ stage = "write"
    /\ IF AllThere /\ Total(Payload) = work.pledged /\ Valid(Composed.metadata)
       THEN Go("remove") /\ partial' = Composed /\ UNCHANGED work
       ELSE Fail /\ partial' = NoFile
    /\ UNCHANGED <<manifest, disk, published, edits, builds, copyVars>>

\* The previous installer is removed, or is in use and stays.
RemoveOld ==
    /\ stage = "remove"
    /\ published' \in {NoFile, published}
    /\ Go("rename")
    /\ UNCHANGED <<manifest, disk, work, partial, edits, builds, copyVars>>

Rename ==
    /\ stage = "rename"
    /\ \/ Go("verify") /\ published' = partial /\ partial' = NoFile /\ UNCHANGED work
       \/ Fail /\ UNCHANGED <<partial, published>>
    /\ UNCHANGED <<manifest, disk, edits, builds, copyVars>>

\* The result is read back; a file that does not verify stays where it is.
Verify ==
    /\ stage = "verify"
    /\ IF Verifies(published)
       THEN stage' = "idle" /\ result' = "done" /\ work' = NoWork
       ELSE Fail
    /\ UNCHANGED <<manifest, disk, partial, published, edits, builds, copyVars>>

\* The process of the build dies.
Crash ==
    /\ stage # "idle"
    /\ stage' = "idle" /\ result' = "crashed" /\ work' = NoWork
    /\ UNCHANGED <<manifest, disk, partial, published, edits, builds, copyVars>>

\* Somebody changes, removes or restores a source while the build runs.
Edit ==
    /\ stage # "idle" /\ manifest \notin Steady /\ edits < MaxEdits
    /\ \E s \in Sources, c \in Contents \cup {None} :
        c # disk[s] /\ disk' = [disk EXCEPT ![s] = c]
    /\ edits' = edits + 1
    /\ UNCHANGED <<manifest, stage, work, partial, published, result, builds, copyVars>>

-----------------------------------------------------------------------------
(* The delivered file.                                                      *)

\* What can become of the file: signed, something appended or cut off at its
\* end, a block altered, or the stream altered where it holds some entry.
Altered(file, what) ==
    CASE what = "none" -> {file}
      [] what = "signed" -> {[file EXCEPT !.loader.signed = TRUE, !.tail = "certificate"]}
      [] what \in {"certificate", "cut"} -> {[file EXCEPT !.tail = what]}
      [] what = "payload" -> {[file EXCEPT !.payload[i] = Garbled] :
                                  i \in {j \in DOMAIN file.payload : file.payload[j].len > 0}}
      [] OTHER -> {[file EXCEPT ![what] = Garbled]}

\* The installer leaves the machine it was built on.
Deliver ==
    /\ stage = "idle" /\ result = "done" /\ copy = NoFile
    /\ damage' \in Damages
    /\ copy' \in Altered(published, damage')
    /\ UNCHANGED <<buildVars, reader, uninstaller>>

\* The loader's half: the engine it runs, or an error.
RunEngine ==
    /\ copy # NoFile /\ reader.engine = None
    /\ reader' = [reader EXCEPT !.engine = Extracted(copy)]
    /\ UNCHANGED <<buildVars, copy, damage, uninstaller>>

Open ==
    /\ copy # NoFile /\ reader.state = "unopened" /\ reader.engine \notin {None, Error}
    /\ reader' = [reader EXCEPT !.state = IF Opens(copy) THEN "open" ELSE "refused"]
    /\ UNCHANGED <<buildVars, copy, damage, uninstaller>>

\* by_name and the read of one entry, in whatever order a run needs them and
\* as often.
ReadEntry ==
    /\ reader.state = "open"
    /\ \E i \in DOMAIN copy.metadata.payload : LET region == copy.metadata.payload[i] IN
        LET from == IF region.length = 0 THEN reader.position
                    ELSE Sought(reader.position, region.offset)
        IN  \E bytes \in Decoded(copy, from, region) :
                reader' = [reader EXCEPT
                    !.position = from + region.length,
                    !.read = [entry |-> region.entry, bytes |-> Checked(bytes, region)]]
    /\ UNCHANGED <<buildVars, copy, damage, uninstaller>>

\* write_uninstaller: loader and engine as they stand, the engine's block
\* against its hash, the metadata marked, no payload.
KeepUninstaller ==
    /\ reader.state = "open" /\ uninstaller = NoFile
    /\ \E scope \in ToSet(copy.metadata.scopes) :
        LET m == [copy.metadata EXCEPT !.role = "uninstaller", !.scope = scope, !.payload = <<>>]
        IN  uninstaller' = IF copy.engine = copy.footer.engine /\ Valid(m)
                           THEN File(copy.loader, copy.engine, <<>>, m) ELSE Error
    /\ UNCHANGED <<buildVars, copy, damage, reader>>

-----------------------------------------------------------------------------

Init ==
    /\ manifest \in Manifests
    /\ disk = FirstDisk
    /\ stage = "idle" /\ work = NoWork /\ partial = NoFile /\ published = NoFile
    /\ result = "none" /\ edits = 0 /\ builds = 0
    /\ copy = NoFile /\ damage = "none" /\ reader = Unopened /\ uninstaller = NoFile

Next ==
    \/ Begin \/ Load \/ ResolveFiles \/ ResolveCompletions \/ ResolveDependencies
    \/ ResolveActions \/ Describe \/ Measure \/ Write \/ RemoveOld \/ Rename \/ Verify
    \/ Crash \/ Edit
    \/ Deliver \/ RunEngine \/ Open \/ ReadEntry \/ KeepUninstaller

Spec == Init /\ [][Next]_vars

-----------------------------------------------------------------------------
(* Properties.                                                              *)

Holds(file, entry, content) ==
    \E i \in DOMAIN file.payload :
        file.metadata.payload[i].entry = entry /\ file.payload[i] = content

\* Every way of cutting n files into batches.
Cuts(files) ==
    {[k \in DOMAIN counts |->
        LET first == 1 + Ends(counts)[k - 1]
        IN  [first |-> first, count |-> counts[k],
             bytes |-> Bytes(files, first, first + counts[k] - 1)]] :
     counts \in {c \in UNION {[1..n -> 1..Len(files)] : n \in 0..Len(files)} :
                    Ends(c)[Len(c)] = Len(files)}}

\* A build that reports success made a file an engine can work through,
\* whatever became of the sources between their resolution and their reading:
\* every product file is there with the size declared for it, every embedded
\* installer and packaged action with the hash the engine will ask for, the
\* executable of every launch is among them, and the files can be journalled
\* in no other batches than those it carries (builder.rs 1-5, "verify the
\* result by reading it back").  The programs of quiescence entries are not
\* covered: verify does not know their hashes.
DeliversWhatItSays ==
    result = "done" =>
        LET m == published.metadata IN
        /\ \A f \in ToSet(m.files) : \E c \in Contents :
            c.len = f.size /\ Holds(published, f.path, c)
        /\ \A d \in Embedded(m) \cup {a \in ToSet(m.actions) : a.entry # None} :
            Holds(published, d.entry, d.sha256)
        /\ m.launch # None => \E c \in Contents : Holds(published, m.launch.executable, c)
        /\ \A cut \in Cuts(m.files) : ValidBatches(m.files, cut) <=> cut = m.batches

\* What was published is given up only for a file that was composed to its
\* end: no failure of a build before that, and no crash at any point, leaves
\* the path without an installer while the partial file is not one
\* (builder.rs 703-718).
KeepsWhatStood ==
    [][published' # published =>
        /\ partial \notin {NoFile, Torn} /\ Opens(partial)
        /\ published' \in {NoFile, partial}]_vars

\* Whatever was altered on the way, what a run reads out of an installer is
\* what was built into it or an error, in whatever order it reads; so is the
\* engine it runs, and what it keeps as the uninstaller; and nothing fails in
\* a file that is as it was built or was signed (installer.rs 350-357,
\* payload.rs 320-328).
Intact == damage \in {"none", "signed"}
ReadsWhatWasBuilt ==
    copy # NoFile =>
        /\ reader.engine \in {None, Error, EngineBlock}
        /\ reader.read # None /\ reader.read.bytes # Error =>
            Holds(published, reader.read.entry, reader.read.bytes)
        /\ uninstaller \notin {NoFile, Error} =>
            /\ Extracted(uninstaller) = EngineBlock \/ uninstaller.loader = Garbled
            /\ uninstaller.metadata.files = published.metadata.files
            /\ Opens(uninstaller) \/ copy.loader = Garbled \/ copy.loader.signed
        /\ Intact =>
            /\ reader.engine # Error /\ reader.state # "refused" /\ uninstaller # Error
            /\ reader.read # None => reader.read.bytes # Error

\* Metadata the builder made of a manifest it had accepted is refused only
\* for what the manifest alone cannot show, or is not asked for there: a
\* name declared twice in a table the manifest does not compare, a launched
\* program or directory that is not packaged, a file in TigerSetup's own
\* directories or a completion script named as a device is, a root, a rule's
\* name, a WinGet identifier or a URL no rule looked at, a catalog's hash.
Unforeseen(mf, files, resolved) ==
    LET paths == ByPath(ToSet(files))
    IN  \/ ~DistinctProgIds(mf.associations \o mf.protocols)
        \/ ~Distinct(mf.protocols, "scheme") \/ ~Distinct(mf.firewall, "name")
        \/ \E i, j \in DOMAIN mf.appPaths :
            i # j /\ Last(mf.appPaths[i].executable) = Last(mf.appPaths[j].executable)
        \/ \E i, j \in DOMAIN mf.verbs : i # j /\ \A field \in {"target", "verb", "extensions"} :
            mf.verbs[i][field] = mf.verbs[j][field]
        \/ mf.launch # None /\ (\/ mf.launch.executable \notin paths
                                \/ mf.launch.directory \notin
                                        {Root} \cup UNION {Parents(p) : p \in paths})
        \/ \E p \in paths : IsReserved(p)
        \/ \E c \in ToSet(mf.completion) : ~ValidPath(InstalledScript(c.command))
        \/ \E s \in ToSet(Scopes(mf)) : mf.roots[s] \in Malformed
        \/ \E r \in ToSet(mf.firewall) : ~Plain(r.name)
        \/ \E d \in ToSet(mf.dependencies) : ~Plain(d.winget) \/ ~Plain(d.url)
        \/ \E d \in ToSet(resolved.dependencies) : d.source = "winget" /\ ~Plain(d.sha256)

RefusedForCause ==
    [][stage = "describe" /\ result' = "describe" =>
        Unforeseen(manifest, work.files, work.resolved)]_vars
=============================================================================
