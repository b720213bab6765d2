---------------------------- MODULE DesiredState ----------------------------
(* What a package wants of a machine (plan.rs `desired`): its metadata, the *)
(* options in effect and the scope resolved to typed resources with the     *)
(* data each is to hold.  The machine and the ownership rows are consulted  *)
(* only where a declaration's meaning depends on them: a URL scheme some    *)
(* other application registered, and the account whose profiles the run may *)
(* edit.                                                                    *)
(*                                                                          *)
(* A resource is <<kind, place, name>>, a place the sequence of components  *)
(* of a path or a key; what it holds is a sequence of texts, a text the     *)
(* sequence of its words.  A machine is a partial function from resources   *)
(* to what they hold.                                                       *)
EXTENDS Metadata

CONSTANTS
    Absent,          \* what a resource that is not there holds
    InstallRoot,     \* the product's directory, absolute
    Uninstaller      \* the uninstaller in the state directory, absolute

Held(machine, id) == IF id \in DOMAIN machine THEN machine[id] ELSE Absent

IsSequence(list) == list \in Seq(ToSet(list))

\* The declarations of a table, each compiled to a sequence, one after another.
Each(table, Compiled(_)) == FlattenSeq([i \in DOMAIN table |-> Compiled(table[i])])

Enumerated(set) == FoldSet(LAMBDA x, list : Append(list, x), <<>>, set)

\* A set of paths, parents before what lies below them.
ByDepth(paths) ==
    LET depths == {Len(p) : p \in paths}
    IN  IF paths = {} THEN <<>>
        ELSE FlattenSeq([n \in 1..(Max(depths) + 1) |->
                            Enumerated({p \in paths : Len(p) = n - 1})])

-----------------------------------------------------------------------------
(* Where a scope keeps things (scope.rs).                                   *)

SoftwareRoot(scope) == <<HiveOf(scope), "Software">>
ClassesRoot(scope) == SoftwareRoot(scope) \o <<"Classes">>
AppPathsRoot(scope) ==
    SoftwareRoot(scope) \o <<"Microsoft", "Windows", "CurrentVersion", "App Paths">>
UninstallRoot(scope) ==
    SoftwareRoot(scope) \o <<"Microsoft", "Windows", "CurrentVersion", "Uninstall">>
EnvironmentKey(scope) ==
    IF scope = "user" THEN <<"HKCU", "Environment">> ELSE <<"HKLM", "System", "Environment">>

IsUnder(key, root) == key = root \/ Within(key, root)

\* The deepest key Windows itself owns above a key: a chain of created keys
\* stops there.
KeyChainRoot(scope, key) ==
    LET roots == {UninstallRoot(scope), AppPathsRoot(scope), ClassesRoot(scope)}
        above == {root \in roots : IsUnder(key, root)}
    IN  IF above # {} THEN CHOOSE root \in above : TRUE
        ELSE IF IsUnder(key, SoftwareRoot(scope)) THEN SoftwareRoot(scope)
        ELSE SubSeq(key, 1, 2)

\* Windows's own keys are always there.
IsWindowsKey(scope, key) ==
    \/ Len(key) <= 2
    \/ \E root \in {UninstallRoot(scope), AppPathsRoot(scope), ClassesRoot(scope)} :
          IsUnder(root, key)

KeyExists(machine, scope, key) ==
    IsWindowsKey(scope, key) \/ <<"key", key, "">> \in DOMAIN machine

\* Machine scope has no Send To folder.
ShortcutFolder(scope, location) ==
    IF scope = "machine" /\ location = "sendTo" THEN None ELSE <<scope, location>>

-----------------------------------------------------------------------------
(* Options and predicates.                                                  *)

FromText(option, text) ==
    CASE option.kind = "choice" /\ text \in OptionValues(option) -> text
      [] option.kind # "choice" /\ text \in {"true", "on"} -> "true"
      [] option.kind # "choice" /\ text \in {"false", "off"} -> "false"
      [] OTHER -> None

OptionNames(m) == {m.options[i].name : i \in DOMAIN m.options}
Option(m, name) == CHOOSE option \in ToSet(m.options) : option.name = name

Refused(m, explicit) ==
    \E name \in DOMAIN explicit :
        name \in OptionNames(m) => FromText(Option(m, name), explicit[name]) = None

\* Mutant: the defaults of a newer version win over what is recorded.
DefaultsWin(m, recorded, explicit) ==
    [name \in OptionNames(m) |->
        IF name \in DOMAIN explicit THEN FromText(Option(m, name), explicit[name])
        ELSE Option(m, name).default]

\* An explicit value, then the recorded one, then the default, which also
\* stands in for a recorded value the option no longer takes.
EffectiveOptions(m, recorded, explicit) ==
    [name \in OptionNames(m) |->
        LET option == Option(m, name)
            text == CASE name \in DOMAIN explicit -> explicit[name]
                      [] name \notin DOMAIN explicit /\ name \in DOMAIN recorded -> recorded[name]
                      [] OTHER -> option.default
            value == FromText(option, text)
        IN  IF value = None THEN option.default ELSE value]

\* The older spelling names a boolean option that is on.
Predicate(declaration) ==
    IF declaration.when = None /\ "option" \in DOMAIN declaration /\ declaration.option # None
    THEN [option |-> declaration.option, equals |-> "true"]
    ELSE declaration.when

Enabled(declaration, options) ==
    LET when == Predicate(declaration)
    IN  when # None => when.option \in DOMAIN options /\ options[when.option] = when.equals

Wanted(table, options) ==
    Each(table, LAMBDA declaration : IF Enabled(declaration, options) THEN <<declaration>> ELSE <<>>)

-----------------------------------------------------------------------------
(* Files and the directories they need.                                     *)

Absolute(path) == InstallRoot \o path

\* The index of the payload says what an entry holds.
Content(m, entry) ==
    LET region == CHOOSE r \in ToSet(m.payload) : r.entry = entry IN <<<<region.sha256>>>>

DesiredFiles(m, options) ==
    LET Item(f) == [id |-> <<"file", f.path, "">>, data |-> Content(m, f.entry)]
    IN  Each(Wanted(m.files, options), LAMBDA f : <<Item(f)>>)

\* A declared directory is wanted while a wanted file lies below it.
DesiredDirectories(m, files) ==
    LET needed == UNION {Parents(files[i].id[2]) : i \in DOMAIN files}
    IN  <<Root>> \o ByDepth(m.directories \cap needed)

-----------------------------------------------------------------------------
(* Registry values.                                                         *)

String(key, name, text) == [id |-> <<"value", key, name>>, data |-> <<<<"string">>, text>>]

Expand(m, template) ==
    Each(template, LAMBDA word : CASE word = "%INSTALLROOT%" -> InstallRoot
                                   [] word = "%VERSION%" -> <<m.version>>
                                   [] OTHER -> <<word>>)

\* [[registry]]: under Software, or at an explicit root, which is the hive
\* of every scope of the package.
ValueKey(v, scope) == (IF v.root = None THEN SoftwareRoot(scope) ELSE <<v.root>>) \o v.key

ProductValues(m, options, scope) ==
    LET Item(v) == [id |-> <<"value", ValueKey(v, scope), v.name>>,
                    data |-> <<<<v.kind>>, Expand(m, v.data)>>]
    IN  Each(Wanted(m.registry, options), LAMBDA v : <<Item(v)>>)

Icon(d) == Absolute(IF d.icon = Root THEN d.executable ELSE d.icon)

Command(d, argument) ==
    Append(Absolute(d.executable), IF d.arguments = None THEN argument ELSE d.arguments)

HandlerClass(class, description, d, urlProtocol) ==
    LET protocol == IF urlProtocol THEN <<String(class, "URL Protocol", <<>>)>> ELSE <<>>
    IN  <<String(class, "", description)>> \o protocol
            \o <<String(class \o <<"DefaultIcon">>, "", Append(Icon(d), ",0")),
                 String(class \o <<"shell", "open", "command">>, "", Command(d, "%1"))>>

Class(scope, below) == ClassesRoot(scope) \o below

CapabilitiesKey(m, scope) == SoftwareRoot(scope) \o <<m.publisher, m.name, "Capabilities">>

\* What every registration of capabilities carries once.
CapabilityValues(m, scope) ==
    LET key == CapabilitiesKey(m, scope)
        description == IF m.description = None THEN m.name ELSE m.description
    IN  <<String(key, "ApplicationName", <<m.name>>),
          String(key, "ApplicationDescription", <<description>>),
          String(SoftwareRoot(scope) \o <<"RegisteredApplications">>, m.name, Tail(key))>>

AssociationValues(m, scope, a) ==
    HandlerClass(Class(scope, <<a.progId>>), <<a.description>>, a, FALSE)
        \o Each(Enumerated(a.extensions), LAMBDA extension :
                <<String(Class(scope, <<extension, "OpenWithProgids">>), a.progId, <<>>),
                  String(CapabilitiesKey(m, scope) \o <<"FileAssociations">>,
                         extension, <<a.progId>>)>>)

\* Mutant: a scheme is claimed whoever owns it.
ClaimAnyway(machine, rows, scope, scheme) == TRUE

\* A scheme's own class key is written where nothing owns it: it is absent,
\* or this installation created it.
MayClaim(machine, rows, scope, scheme) ==
    LET key == Class(scope, <<scheme>>)
        id == <<"key", key, "">>
    IN  \/ id \in DOMAIN rows /\ rows[id].was = Absent
        \/ ~KeyExists(machine, scope, key)

ProgIdOf(m, u) == IF u.progId = None THEN m.name \o "." \o u.scheme ELSE u.progId

ProtocolValues(m, machine, rows, scope, u) ==
    LET progId == ProgIdOf(m, u)
        text == <<"URL:", IF u.description = None THEN u.scheme ELSE u.description>>
    IN  HandlerClass(Class(scope, <<progId>>), text, u, TRUE)
            \o <<String(CapabilitiesKey(m, scope) \o <<"URLAssociations">>, u.scheme, <<progId>>)>>
            \o (IF MayClaim(machine, rows, scope, u.scheme)
                THEN HandlerClass(Class(scope, <<u.scheme>>), text, u, TRUE) ELSE <<>>)

AppPathValues(scope, p) ==
    LET key == Append(AppPathsRoot(scope), Last(p.executable))
    IN  <<String(key, "", Absolute(p.executable))>>
            \o (IF p.addDirectory THEN <<String(key, "Path", Front(Absolute(p.executable)))>>
                ELSE <<>>)

VerbValues(scope, v) ==
    LET classes == CASE v.target = "directories" -> {<<"Directory">>}
                     [] v.target = "directory-background" -> {<<"Directory", "Background">>}
                     [] v.target = "files" /\ v.extensions = {} -> {<<"*">>}
                     [] OTHER -> {<<"SystemFileAssociations", e>> : e \in v.extensions}
        argument == IF v.target = "directory-background" THEN "%V" ELSE "%1"
        OfClass(class) ==
            LET key == Class(scope, class \o <<"shell", v.verb>>)
            IN  <<String(key, "", <<v.label>>)>>
                    \o (IF v.icon = Root THEN <<>> ELSE <<String(key, "Icon", Icon(v))>>)
                    \o <<String(Append(key, "command"), "", Command(v, argument))>>
    IN  Each(Enumerated(classes), OfClass)

Integrations(m, options, scope, machine, rows) ==
    LET associations == Wanted(m.associations, options)
        protocols == Wanted(m.protocols, options)
    IN  Each(associations, LAMBDA a : AssociationValues(m, scope, a))
            \o Each(protocols, LAMBDA u : ProtocolValues(m, machine, rows, scope, u))
            \o Each(Wanted(m.appPaths, options), LAMBDA p : AppPathValues(scope, p))
            \o Each(Wanted(m.verbs, options), LAMBDA v : VerbValues(scope, v))
            \o (IF associations \o protocols = <<>> THEN <<>> ELSE CapabilityValues(m, scope))

-----------------------------------------------------------------------------
(* PATH, variables, shortcuts, firewall rules.                              *)

\* One directory declared under two values of a choice is one entry.
PathEntries(m, options) ==
    LET Item(p) == [id |-> <<"path", Absolute(p.entry), "">>, data |-> <<>>]
    IN  Each(Enumerated({Item(p) : p \in ToSet(Wanted(m.path, options))}), LAMBDA item : <<item>>)

Variables(m, options, scope) ==
    LET Item(v) == [id |-> <<"variable", EnvironmentKey(scope), v.name>>,
                    data |-> <<<<IF v.expandable THEN "expand_string" ELSE "string">>,
                               Expand(m, v.value)>>]
    IN  Each(Wanted(m.environment, options), LAMBDA v : <<Item(v)>>)

\* A link holds its target, icon, working directory and arguments; a .url
\* file opens its URL.
Shortcuts(m, options, scope) ==
    LET Place(s) == ShortcutFolder(scope, s.location) \o s.folder
        Directory(s) == IF s.directory = Root THEN Front(Absolute(s.target)) ELSE Absolute(s.directory)
        Link(s) ==
            [id |-> <<"shortcut", Place(s), s.name>>,
             data |-> <<Absolute(s.target),
                        Absolute(IF s.icon = Root THEN s.target ELSE s.icon),
                        Directory(s), s.arguments>>]
        Url(s) ==
            [id |-> <<"url", Place(s), s.name>>,
             data |-> <<<<s.url>>, IF s.icon = Root THEN <<>> ELSE Absolute(s.icon), <<>>, <<>>>>]
    IN  Each(Wanted(m.shortcuts, options), LAMBDA s :
            IF ShortcutFolder(scope, s.location) = None THEN <<>>
            ELSE <<IF s.url = None THEN Link(s) ELSE Url(s)>>)

Grouping(m) == <<m.name>>

Rules(m, options) ==
    LET Item(r) == [id |-> <<"rule", <<>>, r.name>>,
                    data |-> <<Grouping(m), Absolute(r.program), <<r.direction, r.protocol, r.ports>>>>]
    IN  Each(Wanted(m.firewall, options), LAMBDA r : <<Item(r)>>)

-----------------------------------------------------------------------------
(* Shell completion: a block in the installing user's PowerShell profiles.  *)

\* An elevated run edits profiles only as the account signed in to the
\* desktop.
Reaches(site) ==
    /\ site.account \notin {None, "service"}
    /\ site.elevated => site.desktop = site.account

Profiles == <<"WindowsPowerShell", "PowerShell">>

\* One per command, whatever the number of predicates it stands under.
Completions(m, options, files) ==
    {c \in ToSet(Wanted(m.completions, options)) :
        \E i \in DOMAIN files : files[i].id[2] = c.script}

\* A script some other account may change is loaded into no session.
Blocks(m, options, files, site) ==
    LET Item(c, profile) == [id |-> <<"block", <<site.account, profile>>, c.command>>,
                             data |-> <<Absolute(c.script)>>]
        scripts == Enumerated({[command |-> c.command, script |-> c.script] :
                              c \in Completions(m, options, files)})
    IN  IF Reaches(site) /\ ~site.shared
        THEN Each(scripts, LAMBDA c : Each(Profiles, LAMBDA profile : <<Item(c, profile)>>))
        ELSE <<>>

-----------------------------------------------------------------------------
(* The Add/Remove Programs registration.                                    *)

RegistrationKey(m, scope) == Append(UninstallRoot(scope), m.registration.key)

Registration(m, scope) ==
    LET r == m.registration
        Given(text, otherwise) == <<IF text = None THEN otherwise ELSE text>>
        Optional(name, present, text) == IF present THEN <<<<name, text>>>> ELSE <<>>
        values == <<<<"DisplayName", Given(r.displayName, m.name)>>,
                    <<"DisplayVersion", Given(r.displayVersion, m.version)>>,
                    <<"Publisher", <<m.publisher>>>>,
                    <<"InstallLocation", InstallRoot>>>>
                  \o Optional("DisplayIcon", r.displayIcon # Root, Absolute(r.displayIcon))
                  \o <<<<"UninstallString", Uninstaller>>,
                       <<"QuietUninstallString", Uninstaller \o <<"uninstall", "--quiet">>>>>>
                  \o Optional("URLInfoAbout", m.website # None, <<m.website>>)
                  \o Optional("HelpLink", m.help # None, <<m.help>>)
    IN  Each(values, LAMBDA v : <<String(RegistrationKey(m, scope), v[1], v[2])>>)

-----------------------------------------------------------------------------

\* What decoding a metadata block leaves in the tables of resources.
Typed(m) ==
    /\ \A table \in {"files", "registry", "associations", "protocols", "appPaths", "verbs", "path",
                     "environment", "shortcuts", "firewall", "completions"} : IsSequence(m[table])
    /\ IsFiniteSet(m.directories) /\ \A path \in m.directories : IsSequence(path)
    /\ \A v \in ToSet(m.registry) : IsSequence(v.key)
    /\ \A d \in ToSet(m.associations) \cup ToSet(m.verbs) : IsFiniteSet(d.extensions)

Desired(m, options, scope, site, machine, rows) ==
    LET files == DesiredFiles(m, options)
    IN  [files |-> files,
         directories |-> DesiredDirectories(m, files),
         values |-> ProductValues(m, options, scope)
                        \o Integrations(m, options, scope, machine, rows),
         path |-> PathEntries(m, options),
         variables |-> Variables(m, options, scope),
         shortcuts |-> Shortcuts(m, options, scope),
         blocks |-> Blocks(m, options, files, site),
         rules |-> Rules(m, options),
         registration |-> Registration(m, scope)]
=============================================================================
