------------------------------ MODULE Manifest ------------------------------
(* The developer's TigerSetup.toml: what the builder accepts of it before   *)
(* it looks at any file (Manifest::validate), and the metadata it makes of  *)
(* it (metadata_for) together with the files, programs and dependencies it  *)
(* resolved.  Sources are named by their manifest-relative paths.           *)
EXTENDS Metadata

CONSTANT ScriptName     \* the file name of a command's completion script

ASSUME ManifestAssumption == "default" \notin Malformed \cup {None}

\* What deserializing a manifest yields: its tables are sequences, and the
\* entries that metadata_for renames or gates have the fields they are of.
Tables == {"files", "options", "shortcuts", "path", "environment", "registry", "associations",
           "protocols", "appPaths", "verbs", "firewall", "completion", "dependencies",
           "actions", "quiescence"}

WellFormed(mf) ==
    /\ \A table \in Tables : mf[table] \in Seq(ToSet(mf[table]))
    /\ \A s \in ToSet(mf.shortcuts) :
        {"name", "url", "target", "when", "option"} \subseteq DOMAIN s
    /\ \A p \in ToSet(mf.path) : {"entry", "when", "option"} \subseteq DOMAIN p

-----------------------------------------------------------------------------
(* Conversions between the manifest's form and the metadata's.              *)

\* install_relative: `.` is the root, everything else a valid path.
Relative(path) == path = Root \/ ValidPath(path)

\* A source lies below the manifest.
ToManifest(source) == source # Root /\ source[1] # "absolute"

Scopes(mf) == IF mf.scopes = <<>> THEN <<"user">> ELSE mf.scopes

\* install_root_template: declared, or the scope's default.
RootFor(mf, scope) == IF mf.roots[scope] = None THEN "default" ELSE mf.roots[scope]

\* predicate_of: `when`, or the older `option = "x"`.
PredicateOf(d) ==
    IF d.when # None THEN d.when
    ELSE IF d.option # None THEN [option |-> d.option, equals |-> "true"]
    ELSE None

\* A program of a quiescence entry, as the action it is held to the rules of.
AsAction(program, name, phase) ==
    [name |-> name, phase |-> phase, runOn |-> None, kind |-> program.kind,
     command |-> program.command, source |-> program.source,
     directory |-> program.directory, when |-> None]

ProgramsOf(entry) ==
    {AsAction(entry.stop, entry.name, "quiesce")}
        \cup (IF entry.resume = None THEN {}
              ELSE {AsAction(entry.resume, entry.name, "resume")})

InstalledScript(command) == <<"completion", ScriptName[command]>>

-----------------------------------------------------------------------------
(* Manifest::validate.                                                      *)

AcceptedPackage(mf) ==
    /\ Plain(mf.id) /\ Plain(mf.name) /\ Plain(mf.publisher)
    /\ mf.version # None => Plain(mf.version)
    /\ CASE mf.versionFrom = "static" -> mf.version # None
         [] mf.versionFrom = "msbuild" -> mf.project # None
         [] mf.versionFrom = "exe" -> mf.executable # None
    /\ mf.installerIcon = "branding" => mf.icon # None
    /\ ToSet(mf.scopes) \subseteq {"user", "machine"}
    /\ mf.files # <<>>
    /\ \A i \in DOMAIN mf.files : ToManifest(mf.files[i].source)

\* Here a boolean option equals `true` or `false` and nothing else.
ValueKnown(options, when) ==
    when # None =>
        \E i \in DOMAIN options :
            /\ options[i].name = when.option
            /\ when.equals \in (IF options[i].kind = "choice" THEN OptionValues(options[i])
                                ELSE {"true", "false"})

AcceptedOptions(mf) ==
    /\ \A i \in DOMAIN mf.options : ValidOption(mf.options[i])
    /\ Distinct(mf.options, "name")

AcceptedPredicates(mf) ==
    /\ \A table \in Gated \ {"completions", "shortcuts", "path"} : \A i \in DOMAIN mf[table] :
        ValueKnown(mf.options, mf[table][i].when)
    /\ \A table \in {"shortcuts", "path"} : \A i \in DOMAIN mf[table] :
        ValueKnown(mf.options, PredicateOf(mf[table][i]))

AcceptedShortcuts(mf) ==
    \A i \in DOMAIN mf.shortcuts : LET s == mf.shortcuts[i] IN
        /\ s.name # None => Plain(s.name)
        /\ IF s.url = None THEN ValidPath(s.target)
           ELSE Plain(s.url) /\ s.target = Root

AcceptedPaths(mf) == \A i \in DOMAIN mf.path : Relative(mf.path[i].entry)

AcceptedValues(mf) ==
    \A i \in DOMAIN mf.registry : LET v == mf.registry[i] IN
        /\ Plain(v.key) /\ v.kind \in {"string", "dword"}
        /\ v.root # None => \A s \in ToSet(Scopes(mf)) : HiveOf(s) = v.root
        /\ v.kind = "dword" => v.data = "number"

AcceptedVariables(mf) ==
    \A i \in DOMAIN mf.environment : ValidVariable(mf.environment[i].name)

AcceptedAssociations(mf) ==
    \A i \in DOMAIN mf.associations : LET a == mf.associations[i] IN
        /\ Plain(a.progId) /\ ValidPath(a.executable)
        /\ a.extensions # {} /\ \A e \in a.extensions : Plain(e)

AcceptedProtocols(mf) ==
    \A i \in DOMAIN mf.protocols : LET u == mf.protocols[i] IN
        /\ ValidScheme(u.scheme) /\ ValidPath(u.executable)
        /\ u.progId # None => Plain(u.progId)

AcceptedAppPaths(mf) ==
    \A i \in DOMAIN mf.appPaths : LET path == mf.appPaths[i].executable IN
        ValidPath(path) /\ EndsIn(Executables, path)

AcceptedLaunch(mf) ==
    mf.launch # None =>
        /\ ValidPath(mf.launch.executable) /\ EndsIn(Executables, mf.launch.executable)
        /\ Relative(mf.launch.directory)

\* A completion stands for a command on PATH: its directory is an entry.
AcceptedCompletions(mf) ==
    /\ Distinct(mf.completion, "command")
    /\ \A i \in DOMAIN mf.completion : LET c == mf.completion[i] IN
        /\ Plain(c.command)
        /\ ValidPath(c.executable) /\ EndsIn(Executables, c.executable)
        /\ CASE c.source = "tigercli" -> c.program = None /\ c.script = None
             [] c.source = "command" -> c.script = None
             [] c.source = "script" ->
                    c.program = None /\ c.script # None /\ EndsIn(Scripts, c.script)
        /\ \E j \in DOMAIN mf.path : mf.path[j].entry = Front(c.executable)

AcceptedVerbs(mf) ==
    \A i \in DOMAIN mf.verbs : LET v == mf.verbs[i] IN
        /\ v.target \in {"files", "directories", "directory-background"}
        /\ Plain(v.verb) /\ ValidPath(v.executable)
        /\ v.extensions # {} => v.target = "files"

AcceptedRules(mf) ==
    \A i \in DOMAIN mf.firewall : LET r == mf.firewall[i] IN
        /\ ValidPath(r.program) /\ r.direction \in {"in", "out"}
        /\ r.ports # None => r.protocol # "any" /\ Plain(r.ports)

AcceptedDependencies(mf) ==
    /\ Distinct(mf.dependencies, "id")
    /\ \A i \in DOMAIN mf.dependencies : LET d == mf.dependencies[i] IN
        /\ Plain(d.id) /\ Plain(d.minimum) /\ d.detector
        /\ Cardinality({s \in {"winget", "url", "file"} : d[s] # None}) <= 1
        /\ d.url # None => d.sha256 # None /\ Plain(d.sha256) /\ d.install
        /\ d.file # None =>
            ToManifest(d.file) /\ EndsIn(Executables, d.file) /\ d.install /\ d.sha256 = None

\* validate_action_entry.
AcceptedAction(a) ==
    /\ a.runOn # None =>
        /\ a.runOn # <<>> /\ IsInjective(a.runOn)
        /\ \A i \in DOMAIN a.runOn : a.runOn[i] \in Allowed(a.phase)
    /\ (a.command = None) # (a.source = None)
    /\ a.command # None =>
        /\ a.command # Root /\ KindAccepts(a.kind, Last(a.command))
        /\ a.phase = "post-uninstall" => ~NamesInstallRoot(a.command)
    /\ a.source # None => ToManifest(a.source) /\ KindAccepts(a.kind, Last(a.source))
    /\ a.phase = "post-uninstall" => ~NamesInstallRoot(a.directory)

AcceptedPrograms(mf) ==
    /\ Distinct(mf.actions \o mf.quiescence, "name")
    /\ \A i \in DOMAIN mf.actions : LET a == mf.actions[i] IN
        /\ Plain(a.name) /\ AcceptedAction(a)
        /\ a.phase \in {"pre-install", "post-install", "pre-uninstall", "post-uninstall"}
    /\ \A i \in DOMAIN mf.quiescence : LET q == mf.quiescence[i] IN
        /\ Plain(q.name)
        /\ q.runOn # None =>
            /\ q.runOn # <<>> /\ IsInjective(q.runOn) /\ ToSet(q.runOn) \subseteq Operations
        /\ q.notRunning \cap q.stop.success = {}
        /\ \A program \in ProgramsOf(q) : AcceptedAction(program)

\* Mutant: what `when` names is left to the metadata's rules.
AcceptedUngated(mf) ==
    /\ AcceptedPackage(mf) /\ AcceptedOptions(mf)
    /\ AcceptedShortcuts(mf) /\ AcceptedPaths(mf) /\ AcceptedValues(mf)
    /\ AcceptedVariables(mf) /\ AcceptedAssociations(mf) /\ AcceptedProtocols(mf)
    /\ AcceptedAppPaths(mf) /\ AcceptedLaunch(mf) /\ AcceptedCompletions(mf)
    /\ AcceptedVerbs(mf) /\ AcceptedRules(mf) /\ AcceptedDependencies(mf)
    /\ AcceptedPrograms(mf)

Accepted(mf) ==
    /\ AcceptedPackage(mf) /\ AcceptedOptions(mf) /\ AcceptedPredicates(mf)
    /\ AcceptedShortcuts(mf) /\ AcceptedPaths(mf) /\ AcceptedValues(mf)
    /\ AcceptedVariables(mf) /\ AcceptedAssociations(mf) /\ AcceptedProtocols(mf)
    /\ AcceptedAppPaths(mf) /\ AcceptedLaunch(mf) /\ AcceptedCompletions(mf)
    /\ AcceptedVerbs(mf) /\ AcceptedRules(mf) /\ AcceptedDependencies(mf)
    /\ AcceptedPrograms(mf)

-----------------------------------------------------------------------------
(* metadata_for.                                                            *)

\* directories_of: every directory the files imply.
DirectoriesOf(files) == UNION {Parents(files[i].path) : i \in DOMAIN files}

Gate(table) ==
    [i \in DOMAIN table |-> [table[i] EXCEPT !.when = PredicateOf(table[i])]]

\* A shortcut without a name is named after the product.
NamedShortcuts(mf) ==
    [i \in DOMAIN mf.shortcuts |->
        [Gate(mf.shortcuts)[i] EXCEPT !.name = IF @ = None THEN mf.name ELSE @]]

MetadataFor(mf, version, files, resolved) ==
    [id |-> mf.id, name |-> mf.name, version |-> version,
     scopes |-> Scopes(mf), roots |-> [s \in {"user", "machine"} |-> RootFor(mf, s)],
     role |-> "installer", scope |-> None,
     files |-> [i \in DOMAIN files |->
                   [path |-> files[i].path, size |-> files[i].size, when |-> files[i].when]],
     directories |-> DirectoriesOf(files), batches |-> Batches(files),
     payload |-> <<>>, options |-> mf.options,
     shortcuts |-> NamedShortcuts(mf), path |-> Gate(mf.path),
     environment |-> mf.environment, registry |-> mf.registry,
     associations |-> mf.associations, protocols |-> mf.protocols,
     appPaths |-> mf.appPaths, verbs |-> mf.verbs, firewall |-> mf.firewall,
     launch |-> mf.launch, completions |-> resolved.completions,
     dependencies |-> resolved.dependencies, actions |-> resolved.actions,
     quiescence |-> resolved.quiescence]
=============================================================================
