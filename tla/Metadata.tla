------------------------------ MODULE Metadata ------------------------------
(* What an installer says of itself: the rules its metadata block is held   *)
(* to, by the builder before it writes a file and by the engine after it    *)
(* read one (Metadata::validate), with the file batches and the payload     *)
(* index the engine works by.                                               *)
(*                                                                          *)
(* A metadata value is a record of tables; a table is a sequence of         *)
(* declarations with the fields the rules look at, under the source's       *)
(* names.  A path is the sequence of its components, <<>> the install root. *)
(* Names are compared without regard to case in the source and have one     *)
(* spelling here.  What a name, a version, a URL or a port list may look    *)
(* like is a set of texts (Malformed) no rule accepts.                      *)
EXTENDS Naturals, Sequences, FiniteSets, SequencesExt

CONSTANTS
    None,            \* an absent optional field
    Malformed,       \* the texts some lexical rule refuses
    Executables,     \* the file names ending in .exe
    Scripts,         \* the file names ending in .ps1
    BatchMaxFiles,   \* BATCH_MAX_FILES
    BatchMaxBytes,   \* BATCH_MAX_BYTES
    MaxChoices       \* MAX_CHOICES

ASSUME MetadataAssumption == BatchMaxFiles \in Nat \ {0} /\ BatchMaxBytes \in Nat

-----------------------------------------------------------------------------
(* Names and paths.                                                         *)

Root == <<>>

\* Names, versions, keys, verbs, ports, hashes: not a text the rule refuses.
Plain(text) == text \notin Malformed

\* PATH is the PATH resource's own; the schemes are Windows's or the web's.
ValidVariable(name) == Plain(name) /\ name # "path"
ValidScheme(scheme) == Plain(scheme) /\ scheme \notin {"http", "shell"}

\* A component that is empty, `.` or `..`, a device, or ends in a dot.
RefusedComponents == {"", ".", "..", "con", "dot."}

ValidPath(path) ==
    /\ path # Root
    /\ \A i \in DOMAIN path : Plain(path[i]) /\ path[i] \notin RefusedComponents

\* The directories above a file.
Parents(path) == {SubSeq(path, 1, n) : n \in 1..(Len(path) - 1)}

DependencyEntry(name) == <<".tigersetup", "dependencies", name>>
ActionEntry(name) == <<".tigersetup", "actions", name>>

Within(path, directory) ==
    Len(path) > Len(directory) /\ SubSeq(path, 1, Len(directory)) = directory

IsDependencyEntry(path) == Within(path, <<".tigersetup", "dependencies">>)
IsActionEntry(path) == Within(path, <<".tigersetup", "actions">>)
IsReserved(path) == IsDependencyEntry(path) \/ IsActionEntry(path)

NamesInstallRoot(path) == path # Root /\ path[1] = "%INSTALLROOT%"

EndsIn(names, path) == path # Root /\ Last(path) \in names

Distinct(table, field) ==
    \A i, j \in DOMAIN table : table[i][field] = table[j][field] => i = j

-----------------------------------------------------------------------------
(* Options and the predicates that gate every declaration on one.           *)

Spellings == {"true", "false", "on", "off"}      \* parse_bool

OptionValues(option) == {option.choices[i].value : i \in DOMAIN option.choices}

\* OptionValue::from_text knows the text.
Accepts(option, text) ==
    text \in (IF option.kind = "choice" THEN OptionValues(option) ELSE Spellings)

ValidChoices(option) ==
    /\ Len(option.choices) \in 2..MaxChoices
    /\ Distinct(option.choices, "value")
    /\ \A i \in DOMAIN option.choices :
        /\ Plain(option.choices[i].value)
        /\ option.choices[i].value \notin Spellings
        /\ option.choices[i].label
    /\ option.default \in OptionValues(option)

ValidOption(option) ==
    /\ Plain(option.name)
    /\ option.kind \in {"path", "desktop-shortcut", "custom", "choice"}
    /\ option.kind \in {"custom", "choice"} => option.label
    /\ IF option.kind = "choice" THEN ValidChoices(option)
       ELSE option.choices = <<>> /\ option.default \in {"true", "false"}

PredicateKnown(options, when) ==
    when # None =>
        \E i \in DOMAIN options :
            options[i].name = when.option /\ Accepts(options[i], when.equals)

Gated == {"files", "shortcuts", "path", "environment", "associations", "protocols",
          "appPaths", "verbs", "firewall", "registry", "completions",
          "dependencies", "actions", "quiescence"}

ValidPredicates(m) ==
    \A table \in Gated : \A i \in DOMAIN m[table] :
        PredicateKnown(m.options, m[table][i].when)

-----------------------------------------------------------------------------
(* The programs a package runs.                                             *)

Operations == {"install", "upgrade", "reinstall", "repair", "uninstall"}

Allowed(phase) ==
    CASE phase \in {"quiesce", "resume"} -> Operations
      [] phase \in {"pre-install", "post-install"} -> Operations \ {"uninstall"}
      [] OTHER -> {"uninstall"}

KindAccepts(kind, name) ==
    name \in (IF kind = "exe" THEN Executables ELSE Scripts)

ValidOperations(a) ==
    IF a.phase \in {"quiesce", "resume"} THEN a.runOn = <<>>
    ELSE /\ a.runOn # <<>> /\ IsInjective(a.runOn)
         /\ \A i \in DOMAIN a.runOn : a.runOn[i] \in Allowed(a.phase)

\* Exactly one of a command on the target and a packaged program; what runs
\* after the uninstall names nothing under the install root.
ValidProgram(a) ==
    /\ (a.command = None) # (a.entry = None)
    /\ a.command # None =>
        /\ a.size = 0 /\ a.sha256 = None
        /\ KindAccepts(a.kind, Last(a.command))
        /\ a.phase = "post-uninstall" => ~NamesInstallRoot(a.command)
    /\ a.entry # None =>
        /\ IsActionEntry(a.entry) /\ KindAccepts(a.kind, Last(a.entry))
        /\ a.size > 0 /\ a.sha256 # None
    /\ a.phase = "post-uninstall" => ~NamesInstallRoot(a.directory)

ValidAction(a) == Plain(a.name) /\ ValidOperations(a) /\ ValidProgram(a)

Programs(entry) == {entry.stop} \cup ({entry.resume} \ {None})

ValidQuiescence(entry) ==
    /\ Plain(entry.name)
    /\ \A program \in Programs(entry) :
        /\ program.name = entry.name /\ program.when = None
        /\ program.phase = (IF program = entry.stop THEN "quiesce" ELSE "resume")
        /\ ValidAction(program)
    /\ IsInjective(entry.runOn)
    /\ \A i \in DOMAIN entry.runOn : entry.runOn[i] \in Operations
    /\ entry.notRunning \cap entry.success = {}

\* Actions and quiescence entries share one name space.
ValidPrograms(m) ==
    /\ \A i \in DOMAIN m.actions :
        ValidAction(m.actions[i]) /\ m.actions[i].phase \notin {"quiesce", "resume"}
    /\ \A i \in DOMAIN m.quiescence : ValidQuiescence(m.quiescence[i])
    /\ Distinct(m.actions \o m.quiescence, "name")

-----------------------------------------------------------------------------
(* Dependencies.                                                            *)

ValidAcquisition(d) ==
    CASE d.source = "winget" -> Plain(d.package) /\ (d.sha256 # None => Plain(d.sha256))
      [] d.source = "url" -> Plain(d.url) /\ d.sha256 # None /\ Plain(d.sha256)
      [] d.source = "embedded" ->
            /\ d.entry # None /\ IsDependencyEntry(d.entry)
            /\ d.size > 0 /\ d.sha256 # None /\ d.install

ValidDependencies(m) ==
    /\ Distinct(m.dependencies, "id")
    /\ \A i \in DOMAIN m.dependencies : LET d == m.dependencies[i] IN
        Plain(d.id) /\ Plain(d.minimum) /\ d.detector /\ ValidAcquisition(d)

-----------------------------------------------------------------------------
(* Files, the directories they need, and the batches they are journalled in. *)

FilePaths(m) == {m.files[i].path : i \in DOMAIN m.files}

ValidFiles(m) ==
    /\ Distinct(m.files, "path")
    /\ \A i \in DOMAIN m.files : LET path == m.files[i].path IN
        ValidPath(path) /\ ~IsReserved(path) /\ Parents(path) \subseteq m.directories
    /\ \A path \in m.directories : ValidPath(path)

\* Where each of some lengths ends when they are laid end to end.
Ends(lengths) ==
    LET end[i \in 0..Len(lengths)] == IF i = 0 THEN 0 ELSE end[i - 1] + lengths[i]
    IN  end

Sizes(files) == [i \in DOMAIN files |-> files[i].size]

Bytes(files, first, last) ==
    LET end == Ends(Sizes(files)) IN end[last] - end[first - 1]

\* What a file, the last one read, makes of the batches before it: one more
\* in the open batch, unless that would exceed a limit, or a batch of its own.
Batched(batches, file, i) ==
    LET open == Last(batches)
        more == [open EXCEPT !.count = @ + 1, !.bytes = @ + file.size]
    IN  IF batches # <<>> /\ open.count < BatchMaxFiles /\ more.bytes <= BatchMaxBytes
        THEN Append(Front(batches), more)
        ELSE Append(batches, [first |-> i, count |-> 1, bytes |-> file.size])

\* file_batches.
Batches(files) ==
    LET upTo[i \in 0..Len(files)] ==
            IF i = 0 THEN <<>> ELSE Batched(upTo[i - 1], files[i], i)
    IN  upTo[Len(files)]

\* Closed where it had to be: not over a limit, and not able to take one more.
ValidBatch(files, batch) ==
    LET next == batch.first + batch.count
    IN  /\ batch.count > 0 /\ next - 1 <= Len(files)
        /\ batch.bytes = Bytes(files, batch.first, next - 1)
        /\ batch.count <= BatchMaxFiles
        /\ batch.count > 1 => batch.bytes <= BatchMaxBytes
        /\ next <= Len(files) /\ batch.count < BatchMaxFiles =>
            batch.bytes + files[next].size > BatchMaxBytes

\* validate_file_batches recomputes nothing: each batch starts where the one
\* before ended, and the last one ends the list.
ValidBatches(files, batches) ==
    LET Next(k) == IF k = 0 THEN 1 ELSE batches[k].first + batches[k].count
    IN  /\ \A k \in DOMAIN batches :
            batches[k].first = Next(k - 1) /\ ValidBatch(files, batches[k])
        /\ Next(Len(batches)) = Len(files) + 1

-----------------------------------------------------------------------------
(* The payload index and what refers to it.                                 *)

Packaged(m) ==
    {a \in ToSet(m.actions) \cup UNION {Programs(m.quiescence[i]) : i \in DOMAIN m.quiescence} :
        a.entry # None}

Embedded(m) == {d \in ToSet(m.dependencies) : d.source = "embedded"}

ExpectedEntries(m) ==
    {[entry |-> f.path, length |-> f.size] : f \in ToSet(m.files)}
        \cup {[entry |-> d.entry, length |-> d.size] : d \in Embedded(m) \cup Packaged(m)}

\* A contiguous stream without a repeated name; unless it is empty (not yet
\* composed, or an uninstaller's), it holds every entry referred to, at the
\* length it is referred to with.
ValidIndex(m) ==
    /\ Distinct(m.payload, "entry")
    /\ \A i \in DOMAIN m.payload : LET r == m.payload[i] IN
        r.offset = (IF i = 1 THEN 0 ELSE m.payload[i - 1].offset + m.payload[i - 1].length)
    /\ m.payload # <<>> =>
        \A e \in ExpectedEntries(m) : \E i \in DOMAIN m.payload :
            m.payload[i].entry = e.entry /\ m.payload[i].length = e.length

-----------------------------------------------------------------------------
(* Integrations, table by table.                                            *)

ValidShortcuts(m) ==
    \A i \in DOMAIN m.shortcuts : LET s == m.shortcuts[i] IN
        /\ Plain(s.name)
        /\ IF s.url = None THEN ValidPath(s.target)
           ELSE Plain(s.url) /\ s.target = Root

\* ProgIDs of associations and of protocols are one name space.
DistinctProgIds(declared) ==
    \A i, j \in DOMAIN declared :
        declared[i].progId # None /\ declared[i].progId = declared[j].progId => i = j

ValidAssociations(m) ==
    LET declared == m.associations \o m.protocols
    IN  /\ DistinctProgIds(declared)
        /\ \A i \in DOMAIN declared : declared[i].progId # None => Plain(declared[i].progId)
        /\ \A i \in DOMAIN m.associations : LET a == m.associations[i] IN
            /\ a.extensions # {} /\ \A e \in a.extensions : Plain(e)
            /\ ValidPath(a.executable)

ValidProtocols(m) ==
    /\ Distinct(m.protocols, "scheme")
    /\ \A i \in DOMAIN m.protocols :
        ValidScheme(m.protocols[i].scheme) /\ ValidPath(m.protocols[i].executable)

\* App Paths are keyed by the file name alone.
ValidAppPaths(m) ==
    LET names == [i \in DOMAIN m.appPaths |-> Last(m.appPaths[i].executable)]
    IN  /\ \A i \in DOMAIN m.appPaths :
            /\ ValidPath(m.appPaths[i].executable)
            /\ EndsIn(Executables, m.appPaths[i].executable)
        /\ IsInjective(names)

ValidVerbs(m) ==
    LET identity == [i \in DOMAIN m.verbs |->
                        <<m.verbs[i].target, m.verbs[i].verb, m.verbs[i].extensions>>]
    IN  /\ IsInjective(identity)
        /\ \A i \in DOMAIN m.verbs : LET v == m.verbs[i] IN
            /\ v.target \in {"files", "directories", "directory-background"}
            /\ Plain(v.verb) /\ ValidPath(v.executable)
            /\ v.extensions # {} => v.target = "files"

ValidRules(m) ==
    /\ Distinct(m.firewall, "name")
    /\ \A i \in DOMAIN m.firewall : LET r == m.firewall[i] IN
        /\ Plain(r.name) /\ ValidPath(r.program)
        /\ r.direction \in {"in", "out"}
        /\ r.ports # None => r.protocol # "any" /\ Plain(r.ports)

\* An explicit hive only in a package whose every scope writes that hive.
HiveOf(scope) == IF scope = "machine" THEN "HKLM" ELSE "HKCU"

ValidValues(m) ==
    \A i \in DOMAIN m.registry : LET v == m.registry[i] IN
        /\ Plain(v.key) /\ v.kind \in {"string", "dword"}
        /\ v.root # None => \A s \in ToSet(m.scopes) : HiveOf(s) = v.root
        /\ v.kind = "dword" => v.data = "number"

ValidVariables(m) == \A i \in DOMAIN m.environment : ValidVariable(m.environment[i].name)

ValidPaths(m) == \A i \in DOMAIN m.path : m.path[i].entry = Root \/ ValidPath(m.path[i].entry)

-----------------------------------------------------------------------------
(* What is offered once the product is installed.                           *)

ValidLaunch(m) ==
    m.launch # None =>
        /\ EndsIn(Executables, m.launch.executable)
        /\ m.launch.executable \in FilePaths(m)
        /\ m.launch.directory \in m.directories \cup {Root}

\* One script per command, whatever the number of predicates it stands under.
ValidCompletions(m) ==
    \A i \in DOMAIN m.completions : LET c == m.completions[i] IN
        /\ Plain(c.command)
        /\ EndsIn(Scripts, c.script) /\ c.script \in FilePaths(m)
        /\ \A j \in DOMAIN m.completions :
            m.completions[j].command = c.command => m.completions[j].script = c.script

-----------------------------------------------------------------------------

ValidPackage(m) ==
    /\ Plain(m.id) /\ Plain(m.name) /\ Plain(m.version)
    /\ m.scopes # <<>>
    /\ \A s \in ToSet(m.scopes) : m.roots[s] # None /\ Plain(m.roots[s])
    /\ m.role = "uninstaller" => m.scope \in {"user", "machine"}

\* Metadata::validate.
Valid(m) ==
    /\ ValidPackage(m)
    /\ ValidFiles(m) /\ ValidBatches(m.files, m.batches) /\ ValidIndex(m)
    /\ \A i \in DOMAIN m.options : ValidOption(m.options[i])
    /\ Distinct(m.options, "name") /\ ValidPredicates(m)
    /\ ValidShortcuts(m) /\ ValidPaths(m) /\ ValidVariables(m) /\ ValidAssociations(m)
    /\ ValidProtocols(m) /\ ValidAppPaths(m) /\ ValidVerbs(m) /\ ValidRules(m)
    /\ ValidValues(m) /\ ValidLaunch(m) /\ ValidCompletions(m)
    /\ ValidDependencies(m) /\ ValidPrograms(m)
=============================================================================
