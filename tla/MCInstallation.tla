--------------------------- MODULE MCInstallation ---------------------------
(***************************************************************************)
(* Three products in two versions each, on machines that are empty or hold *)
(* something of their own where the product wants to put its resources: a  *)
(* command line tool (options, PATH, variable, registry), a viewer         *)
(* (association, URL protocol, app path, verb) and a server (firewall      *)
(* rule, completion, shortcuts), the last in both scopes.                  *)
(***************************************************************************)
EXTENDS Installation

Root_ == <<"programs", "product">>
Uninstaller_ == <<"state", "uninstall.exe">>

Exe == <<"bin", "app.exe">>
Doc == <<"doc", "help.txt">>
Script == <<"bin", "app.ps1">>

File(path, when) == [path |-> path, entry |-> path, size |-> 1, when |-> when]
Equals(option, value) == [option |-> option, equals |-> value]

\* The metadata block of a version with these files; `changes` fill tables.
Version(number, files, changes) ==
    LET paths == {files[i].path : i \in DOMAIN files}
        base ==
        [id |-> "Product", name |-> "Product", publisher |-> "Us", version |-> number,
         description |-> None, website |-> None, help |-> None,
         registration |-> [key |-> "Product", displayName |-> None, displayVersion |-> None,
                           displayIcon |-> Exe],
         role |-> "installer", scopes |-> <<"user", "machine">>,
         roots |-> [s \in {"user", "machine"} |-> "root"],
         files |-> files, directories |-> UNION {Parents(path) : path \in paths},
         batches |-> Batches(files),
         payload |-> [i \in DOMAIN files |->
                        [entry |-> files[i].path, offset |-> i - 1, length |-> 1,
                         sha256 |-> IF files[i].path = Doc THEN "help" ELSE number]],
         options |-> <<>>, shortcuts |-> <<>>, path |-> <<>>, environment |-> <<>>,
         registry |-> <<>>, associations |-> <<>>, protocols |-> <<>>, appPaths |-> <<>>,
         verbs |-> <<>>, firewall |-> <<>>, completions |-> <<>>, dependencies |-> <<>>,
         actions |-> <<>>, quiescence |-> <<>>, launch |-> None]
    IN  changes @@ base

-----------------------------------------------------------------------------
(* The tool.                                                                *)

Docs(default) ==
    [name |-> "docs", kind |-> "custom", label |-> TRUE, choices |-> <<>>, default |-> default]
Mode(values) ==
    [name |-> "mode", kind |-> "choice", label |-> TRUE, default |-> "bin",
     choices |-> [i \in DOMAIN values |-> [value |-> values[i], label |-> TRUE]]]
OnPath(entry, mode) == [entry |-> entry, when |-> Equals("mode", mode), option |-> None]
Variable(value) == [name |-> "TOOL", value |-> value, expandable |-> TRUE, when |-> None]
Value(key, data) ==
    [key |-> key, name |-> "v", root |-> None, kind |-> "string", data |-> data, when |-> None]

Tool1 ==
    Version("1", <<File(Exe, None), File(Doc, Equals("docs", "true"))>>,
            "options" :> <<Docs("true"), Mode(<<"bin", "root", "old">>)>>
            @@ "path" :> <<OnPath(<<"bin">>, "bin"), OnPath(Root, "root"), OnPath(<<"bin">>, "old")>>
            @@ "environment" :> <<Variable(<<"%INSTALLROOT%", "x">>)>>
            @@ "registry" :> <<Value(<<"Us", "Tool">>, <<"%VERSION%">>),
                               Value(<<"Us">>, <<"fixed">>)>>)
\* Another default, one choice less, a deeper key, one value less.
Tool2 ==
    Version("2", <<File(Exe, None), File(Doc, Equals("docs", "true"))>>,
            "options" :> <<Docs("false"), Mode(<<"bin", "root">>)>>
            @@ "path" :> <<OnPath(<<"bin">>, "bin"), OnPath(Root, "root")>>
            @@ "registry" :> <<Value(<<"Us", "Tool", "More">>, <<"%VERSION%">>),
                               Value(<<"Us", "Tool">>, <<"%VERSION%", "%INSTALLROOT%">>)>>)

Software == <<"HKCU", "Software">>
UsKey == Append(Software, "Us")
ToolKey == Append(UsKey, "Tool")
KeyId(key) == <<"key", key, "">>
Env == EnvironmentKey("user")

ToolFound ==
    KeyId(UsKey) :> <<>>
    @@ <<"value", UsKey, "v">> :> <<<<"string">>, <<"fixed">>>>
    @@ <<"variable", Env, "TOOL">> :> <<<<"string">>, <<"own">>>>
    @@ <<"path", Append(Root_, "bin"), "">> :> <<>>

Change(id, data) == [id |-> id, data |-> data]
Says(name, value) == name :> value

User == [elevated |-> FALSE, account |-> "ann", desktop |-> "ann", shared |-> FALSE]

ToolCase(found) ==
    [most |-> 1, scope |-> "user", versions |-> {Tool1, Tool2}, found |-> found,
     sites |-> {User}, accepts |-> {FALSE},
     requests |-> {Empty, Says("docs", "off"), Says("mode", "root"), Says("mode", "old")},
     edits |-> {Change(<<"file", Exe, "">>, <<<<"patched">>>>), Change(<<"directory", <<"bin">>, "">>, Absent),
                Change(<<"file", Doc, "">>, <<<<"patched">>>>),
                Change(<<"file", <<"doc">>, "">>, <<<<"own">>>>),
                Change(<<"file", <<"doc", "own.txt">>, "">>, <<<<"own">>>>),
                Change(KeyId(ToolKey), Absent), Change(KeyId(UsKey), Absent),
                Change(<<"value", ToolKey, "v">>, <<<<"string">>, <<"mine">>>>),
                Change(<<"value", ToolKey, "w">>, <<<<"string">>, <<"mine">>>>),
                Change(<<"variable", Env, "TOOL">>, <<<<"string">>, <<"mine">>>>),
                Change(<<"path", Append(Root_, "bin"), "">>, Absent)}]

-----------------------------------------------------------------------------
(* The viewer.                                                              *)

Association(id, extensions) ==
    [progId |-> id, extensions |-> extensions, executable |-> Exe, arguments |-> None,
     icon |-> Root, description |-> "Document", when |-> None]
Protocol(scheme) ==
    [scheme |-> scheme, progId |-> None, executable |-> Exe, arguments |-> "--open",
     icon |-> Doc, description |-> None, when |-> Equals("docs", "true")]
AppPath == [executable |-> Exe, addDirectory |-> TRUE, when |-> None]
Verb(target, extensions) ==
    [target |-> target, verb |-> "view", extensions |-> extensions, executable |-> Exe,
     arguments |-> None, icon |-> Exe, label |-> "View", when |-> None]

Viewer1 ==
    Version("1", <<File(Exe, None), File(Doc, None)>>,
            "options" :> <<Docs("true")>>
            @@ "associations" :> <<Association("Product.Doc", {".a", ".b"})>>
            @@ "protocols" :> <<Protocol("app")>>
            @@ "verbs" :> <<Verb("files", {}), Verb("directory-background", {})>>)
Viewer2 ==
    Version("2", <<File(Exe, None), File(Doc, None)>>,
            "options" :> <<Docs("true")>>
            @@ "associations" :> <<Association("Product.Doc", {".b"})>>
            @@ "protocols" :> <<Protocol("app")>>
            @@ "appPaths" :> <<AppPath>>
            @@ "verbs" :> <<Verb("files", {".a"}), Verb("directories", {})>>)

ClassKey(below) == Class("user", below)
SchemeCommand == <<"value", ClassKey(<<"app", "shell", "open", "command">>), "">>

SchemeKeys == [id \in {KeyId(ClassKey(SubSeq(<<"app", "shell", "open", "command">>, 1, n))) : n \in 1..4} |-> <<>>]
ViewerFound ==
    SchemeKeys @@ SchemeCommand :> <<<<"string">>, <<"other.exe">>>>
    @@ KeyId(Append(Software, "RegisteredApplications")) :> <<>>

ViewerCase(found) ==
    [most |-> 2, scope |-> "user", versions |-> {Viewer1, Viewer2}, found |-> found,
     sites |-> {User}, accepts |-> IF found = Empty THEN BOOLEAN ELSE {FALSE},
     requests |-> {Empty, Says("docs", "false")},
     edits |-> {Change(KeyId(ClassKey(<<"app">>)), Absent), Change(KeyId(ClassKey(<<"app">>)), <<>>),
                Change(SchemeCommand, <<<<"string">>, <<"other.exe">>>>),
                Change(KeyId(ClassKey(<<"Product.Doc", "DefaultIcon">>)), Absent),
                Change(<<"value", Append(Software, "RegisteredApplications"), "Product">>, Absent)}]

-----------------------------------------------------------------------------
(* The server.                                                              *)

Rule(protocol, ports) ==
    [name |-> "Serve", program |-> Exe, direction |-> "in", protocol |-> protocol,
     ports |-> ports, when |-> None]
Completion == [command |-> "app", script |-> Script, when |-> None]
Link(folder) ==
    [location |-> "programs", folder |-> folder, name |-> "Serve", target |-> Exe, icon |-> Root,
     directory |-> Root, arguments |-> <<>>, url |-> None, when |-> None]
Url(location) ==
    [location |-> location, folder |-> <<>>, name |-> "Web", target |-> Root, icon |-> Root,
     directory |-> Root, arguments |-> <<>>, url |-> "https", when |-> None]

Server1 ==
    Version("1", <<File(Exe, None), File(Script, None)>>,
            "firewall" :> <<Rule("tcp", "80")>> @@ "completions" :> <<Completion>>
            @@ "shortcuts" :> <<Link(<<>>), Url("sendTo")>>)
Server2 ==
    [Version("2", <<File(Exe, None), File(Doc, None)>>,
             "firewall" :> <<Rule("udp", "80")>>
             @@ "shortcuts" :> <<Link(<<"Us">>), Url("desktop")>>)
     EXCEPT !.website = "https"]
Server3 ==
    Version("3", <<File(Exe, None), File(Script, None)>>,
            "completions" :> <<Completion>> @@ "shortcuts" :> <<Link(<<"Us">>)>>)

RuleId(place) == <<"rule", place, "Serve">>
Theirs == <<<<"other">>, <<"other.exe">>, <<"in", "tcp", "80">>>>
LinkId(scope, folder) == <<"shortcut", <<scope, "programs">> \o folder, "Serve">>

Runner(account, elevated, shared) ==
    [elevated |-> elevated, account |-> account, desktop |-> "ann", shared |-> shared]

ServerCase(scope, found, versions, sites_) ==
    [most |-> 2, scope |-> scope, versions |-> versions, found |-> found, sites |-> sites_,
     accepts |-> {FALSE}, requests |-> {Empty},
     edits |-> {Change(RuleId(<<>>), Theirs), Change(RuleId(<<>>), Absent),
                Change(RuleId(<<"second">>), Theirs),
                Change(<<"block", <<"ann", "PowerShell">>, "app">>, <<<<"edited">>>>),
                Change(LinkId(scope, <<>>), <<<<"elsewhere">>, <<>>, <<>>, <<>>>>)}]

MCCases ==
    {ToolCase(ToolFound), ViewerCase(Empty), ViewerCase(ViewerFound),
     ServerCase("user", Empty, {Server1, Server2},
                {Runner("ann", FALSE, FALSE), Runner("ann", TRUE, FALSE)}),
     ServerCase("machine", RuleId(<<>>) :> Theirs, {Server1, Server3},
                {Runner("ann", TRUE, FALSE), Runner("bob", TRUE, FALSE), Runner("ann", TRUE, TRUE)})}

ASSUME MCValid == \A c \in MCCases : \A m \in c.versions : Valid(m)
=============================================================================
