------------------------------ MODULE MCPackage ------------------------------
(***************************************************************************)
(* An instance of Package for TLC: a manifest with something in every      *)
(* table that reads a file, and variants of it that differ in one or two   *)
(* tables, most of them not as they should be.                             *)
(***************************************************************************)
EXTENDS Package

App == <<"app.exe">>
Doc == <<"doc.txt">>
Tool == <<"tool.exe">>
Dep == <<"dep.exe">>
Lib == <<"bin", "app.exe">>

Script == <<"app.ps1">>

MCSources == {App, Doc, Tool, Dep, Script}
One(id) == [len |-> 1, id |-> id]
MCContents == {[len |-> 0, id |-> "empty"], One("a"), One("b"), [len |-> 2, id |-> "c"]}
MCFirstDisk == (App :> One("a")) @@ (Doc :> [len |-> 2, id |-> "c"])
                 @@ (Tool :> One("b")) @@ (Dep :> One("a")) @@ (Script :> One("b"))

MCInfo ==
    [c \in MCContents |->
        CASE c = One("a") -> [version |-> "1", company |-> "Us"]
          [] c = One("b") -> [version |-> "2", company |-> "Us"]
          [] c.len = 2 -> [version |-> "1", company |-> "Them"]
          [] OTHER -> [version |-> None, company |-> None]]

MCStreamOrder ==
    <<ActionEntry("dep.exe"), ActionEntry("tool.exe"), DependencyEntry("dep.exe"),
      DependencyEntry("tool.exe"), ActionEntry("doc.txt"), DependencyEntry("doc.txt"),
      <<"..">>, <<"app.exe">>, <<"bin", "app.exe">>,
      <<"completion", "app.ps1">>, <<"completion", "con">>, <<"doc.txt">>>>
MCScriptName == "app" :> "app.ps1" @@ "bad" :> "bad.ps1" @@ "device" :> "con"

-----------------------------------------------------------------------------
(* Declarations.                                                            *)

Equals(option, value) == [option |-> option, equals |-> value]

Files(found) == [source |-> <<"out">>, found |-> found, exclude |-> {}, when |-> None]
From(source, path) == [source |-> source, path |-> path]

Custom(name) == [name |-> name, kind |-> "custom", label |-> TRUE,
                 choices |-> <<>>, default |-> "true"]
Choice(values) ==
    [name |-> "edition", kind |-> "choice", label |-> TRUE, default |-> "lite",
     choices |-> [i \in DOMAIN values |-> [value |-> values[i], label |-> TRUE]]]

OnPath(entry) == [entry |-> entry, when |-> None, option |-> None]
Association(id) == [progId |-> id, extensions |-> {".x"}, executable |-> Lib, when |-> None]
Protocol(scheme, id) ==
    [scheme |-> scheme, progId |-> id, executable |-> Lib, when |-> None]
AppPath(path) == [executable |-> path, when |-> None]
Verb(target, extensions) ==
    [target |-> target, verb |-> "open", extensions |-> extensions, executable |-> Lib,
     when |-> None]
Rule(name, protocol, ports) ==
    [name |-> name, program |-> Lib, direction |-> "in", protocol |-> protocol,
     ports |-> ports, when |-> None]
Value(root, kind, data) ==
    [key |-> "key", root |-> root, kind |-> kind, data |-> data, when |-> None]
Shortcut(target, url) ==
    [name |-> None, url |-> url, target |-> target, when |-> None, option |-> "shell"]
Completion(source) ==
    [command |-> "app", executable |-> Lib, source |-> source, script |-> None,
     program |-> None]
Dependency_(id, winget, url, file) ==
    [id |-> id, minimum |-> "1", detector |-> TRUE, winget |-> winget, url |-> url,
     file |-> file, sha256 |-> IF url = None THEN None ELSE "hash", install |-> TRUE,
     when |-> None]
Action(name, phase, source, command) ==
    [name |-> name, phase |-> phase, runOn |-> None, kind |-> "exe", command |-> command,
     source |-> source, directory |-> Root, when |-> None]
Run(source, command) ==
    [kind |-> "exe", command |-> command, source |-> source, directory |-> Root,
     success |-> {0}]
Quiesce(name, stop, resume, notRunning) ==
    [name |-> name, runOn |-> None, stop |-> stop, resume |-> resume,
     notRunning |-> notRunning, when |-> None]

Installed == <<"%INSTALLROOT%", "bin", "app.exe">>
Elsewhere == <<"windows", "tool.exe">>

Base ==
    [id |-> "Product", name |-> "Product", publisher |-> "Us", version |-> "1",
     versionFrom |-> "static", project |-> None, executable |-> None,
     icon |-> None, installerIcon |-> "tigersetup", scopes |-> <<>>,
     roots |-> [s \in {"user", "machine"} |-> None],
     files |-> <<Files({From(App, Lib), From(Doc, <<"doc.txt">>)})>>,
     options |-> <<Custom("shell")>>, shortcuts |-> <<Shortcut(Lib, None)>>,
     path |-> <<OnPath(<<"bin">>)>>, environment |-> <<>>, registry |-> <<>>,
     associations |-> <<>>, protocols |-> <<>>, appPaths |-> <<>>, verbs |-> <<>>,
     firewall |-> <<>>, launch |-> [executable |-> Lib, directory |-> <<"bin">>],
     completion |-> <<>>,
     dependencies |-> <<Dependency_("runtime", None, None, Dep)>>,
     actions |-> <<Action("migrate", "post-install", Tool, None)>>, quiescence |-> <<>>]

-----------------------------------------------------------------------------
(* Variants: a table and what stands in it instead.                         *)

Gate1(when) == [Files({From(App, Lib), From(Doc, <<"doc.txt">>)}) EXCEPT !.when = when]

Variants ==
    {<<"id", "bad">>, <<"version", "bad">>, <<"versionFrom", "exe">>,
     <<"installerIcon", "branding">>, <<"scopes", <<"machine">>>>, <<"scopes", <<"world">>>>,
     <<"roots", [s \in {"user", "machine"} |-> "bad"]>>}
    \cup {<<"files", files>> : files \in {
            <<>>, <<Files({From(App, Lib)})>>, <<Files({From(App, <<"..">>)})>>,
            <<Files({From(App, ActionEntry("tool.exe"))})>>,
            <<Files({From(App, Lib)}), Files({From(Doc, Lib)})>>,
            <<Files({From(App, Lib), From(Doc, <<"completion", "app.ps1">>)})>>,
            <<Gate1(Equals("shell", "true"))>>, <<Gate1(Equals("shell", "on"))>>,
            <<Gate1(Equals("edition", "full"))>>, <<Gate1(Equals("edition", "none"))>>}}
    \cup {<<"options", options>> : options \in {
            <<>>, <<Custom("shell"), Custom("shell")>>, <<Custom("bad")>>,
            <<[Custom("shell") EXCEPT !.label = FALSE]>>,
            <<[Custom("shell") EXCEPT !.default = "on"]>>,
            <<Custom("shell"), Choice(<<"lite", "full">>)>>,
            <<Custom("shell"), Choice(<<"lite", "lite">>)>>,
            <<Custom("shell"), Choice(<<"lite">>)>>,
            <<Custom("shell"), Choice(<<"lite", "on">>)>>,
            <<Custom("shell"), Choice(<<"full", "pro">>)>>}}
    \cup {<<"shortcuts", <<s>>>> : s \in {
            Shortcut(Root, None), Shortcut(Root, "url"), Shortcut(Lib, "url"),
            [Shortcut(Lib, None) EXCEPT !.name = "bad"],
            [Shortcut(Lib, None) EXCEPT !.option = "other"]}}
    \cup {<<"path", path>> : path \in {
            <<>>, <<OnPath(Root)>>, <<OnPath(<<"bin">>), OnPath(<<"bin">>)>>,
            <<OnPath(<<"..">>)>>, <<[OnPath(Root) EXCEPT !.when = Equals("other", "true")]>>}}
    \cup {<<"environment", <<[name |-> n, when |-> None]>>>> : n \in {"HOME", "path", "bad"}}
    \cup {<<"registry", <<v>>>> : v \in {
            Value(None, "string", "text"), Value("HKLM", "dword", "number"),
            Value("HKCU", "dword", "number"), Value(None, "dword", "text")}}
    \cup {<<"associations", as>> : as \in {
            <<Association("Doc")>>, <<Association("Doc"), Association("Doc")>>,
            <<Association("bad")>>, <<[Association("Doc") EXCEPT !.extensions = {}]>>}}
    \cup {<<"protocols", us>> : us \in {
            <<Protocol("app", None), Protocol("next", None)>>,
            <<Protocol("app", None), Protocol("app", None)>>,
            <<Protocol("app", "Doc")>>, <<Protocol("http", None)>>}}
    \cup {<<"appPaths", ps>> : ps \in {
            <<AppPath(Lib)>>, <<AppPath(Lib), AppPath(<<"app.exe">>)>>,
            <<AppPath(<<"doc.txt">>)>>}}
    \cup {<<"verbs", vs>> : vs \in {
            <<Verb("files", {".x"}), Verb("directories", {})>>,
            <<Verb("files", {}), Verb("files", {})>>, <<Verb("directories", {".x"})>>}}
    \cup {<<"firewall", rs>> : rs \in {
            <<Rule("rule", "tcp", "80")>>, <<Rule("bad", "tcp", None)>>,
            <<Rule("rule", "tcp", "80"), Rule("rule", "any", None)>>,
            <<Rule("rule", "any", "80")>>}}
    \cup {<<"launch", launch>> : launch \in {
            None, [executable |-> <<"app.exe">>, directory |-> Root],
            [executable |-> <<"doc.txt">>, directory |-> Root],
            [executable |-> Lib, directory |-> <<"doc">>]}}
    \cup {<<"completion", cs>> : cs \in {
            <<Completion("tigercli")>>, <<Completion("tigercli"), Completion("tigercli")>>,
            <<[Completion("command") EXCEPT !.program = Tool]>>,
            <<[Completion("script") EXCEPT !.script = Script]>>,
            <<[Completion("tigercli") EXCEPT !.program = Tool]>>,
            <<[Completion("tigercli") EXCEPT !.command = "device"]>>,
            <<[Completion("tigercli") EXCEPT !.executable = <<"app.exe">>]>>}}
    \cup {<<"dependencies", ds>> : ds \in {
            <<Dependency_("a", None, None, None), Dependency_("b", None, "url", None)>>,
            <<Dependency_("a", "w", None, None), Dependency_("a", "w", None, None)>>,
            <<Dependency_("a", None, None, Dep), Dependency_("b", None, None, Dep)>>,
            <<Dependency_("a", None, None, Dep), Dependency_("b", None, None, Tool)>>,
            <<Dependency_("a", "w", None, Dep)>>, <<Dependency_("a", None, None, Doc)>>,
            <<[Dependency_("a", None, "url", None) EXCEPT !.sha256 = "bad"]>>,
            <<[Dependency_("a", "w", None, None) EXCEPT !.sha256 = "bad"]>>,
            <<Dependency_("a", "bad", None, None)>>, <<Dependency_("a", None, "bad", None)>>}}
    \cup {<<"actions", as>> : as \in {
            <<Action("a", "pre-install", Tool, None), Action("b", "post-uninstall", Tool, None)>>,
            <<Action("a", "post-install", Tool, None), Action("a", "post-install", Dep, None)>>,
            <<Action("a", "post-install", None, Installed)>>,
            <<Action("a", "post-uninstall", None, Installed)>>,
            <<Action("a", "post-uninstall", None, Elsewhere)>>,
            <<Action("a", "post-install", Tool, Installed)>>,
            <<Action("a", "post-install", None, None)>>,
            <<Action("a", "post-install", Doc, None)>>,
            <<[Action("a", "post-install", Tool, None) EXCEPT !.runOn = <<"uninstall">>]>>,
            <<[Action("a", "post-install", Tool, None) EXCEPT !.runOn = <<"repair">>]>>}}
    \cup {<<"quiescence", qs>> : qs \in {
            <<Quiesce("q", Run(Tool, None), Run(None, Installed), {1})>>,
            <<Quiesce("migrate", Run(Tool, None), None, {})>>,
            <<Quiesce("q", Run(Tool, None), None, {0})>>,
            <<Quiesce("q", Run(None, Installed), Run(Dep, None), {})>>,
            <<[Quiesce("q", Run(Tool, None), None, {}) EXCEPT !.runOn = <<"repair", "repair">>]>>}}

Apply(mf, variant) == [mf EXCEPT ![variant[1]] = variant[2]]
Both(a, b) == Apply(Apply(Base, a), b)

\* What only two tables together show.
Together ==
    {Both(<<"options", <<Custom("shell"), Choice(<<"lite", "full">>)>>>>, v) :
        v \in {w \in Variants : w[1] = "files"}}
    \cup {Apply(Both(<<"version", version>>, <<"versionFrom", from>>), <<"executable", exe>>) :
             version \in {None, "1"}, from \in {"static", "exe"}, exe \in {None, App, Doc, Tool}}
    \cup {Apply(Apply(Both(<<"version", None>>, <<"versionFrom", "msbuild">>),
                      <<"project", <<"app.csproj">>>>), <<"executable", exe>>) :
             exe \in {None, App, Tool}}
    \cup {Both(<<"scopes", <<"user", "machine">>>>, v) :
             v \in {w \in Variants : w[1] \in {"registry", "roots"}}}
    \cup {Both(<<"associations", <<Association("Doc")>>>>, <<"protocols", <<Protocol("app", "Doc")>>>>)}
    \cup {Both(<<"dependencies", <<>>>>, <<"actions", <<>>>>)}

\* The one whose sources are edited: every kind of entry there is.
Busy ==
    Apply(Both(<<"completion", <<Completion("tigercli")>>>>,
               <<"quiescence", <<Quiesce("q", Run(Dep, None), Run(None, Installed), {1})>>>>),
          <<"files", <<Files({From(App, Lib), From(Doc, <<"doc.txt">>)})>>>>)

MCSteady == {Apply(Base, v) : v \in Variants} \cup Together
MCManifests == MCSteady \cup {Busy}
=============================================================================
