------------------------------ MODULE Session ------------------------------
(***************************************************************************)
(* What a start of the installer is about before anything is changed:      *)
(* which installation (target.rs), whether it needs an administrator       *)
(* (elevation.rs), whether the client asks for one at once or leaves it to *)
(* the wizard (main.rs), and the pages the wizard then shows (session.rs). *)
(*                                                                         *)
(* A start is a record: operation; served, the scope the uninstaller copy  *)
(* was written for, None for an installer; scopes, those the package       *)
(* offers, its default first; given, the scope the command line names;     *)
(* root, the install root it names; versions[s], what scope s holds;       *)
(* policy; admin, whether machine scope is writable here; quiet; license,  *)
(* whether the package carries a text; accepted[s], whether scope s        *)
(* records its acceptance; options, the number of option pages; launch.    *)
(***************************************************************************)
EXTENDS Integers, Sequences, SequencesExt, FiniteSets

CONSTANT None

Scopes == {"user", "machine"}

Existing(in) == {s \in Scopes : in.versions[s] # None}

default_scope(in) == IF in.served # None THEN in.served ELSE Head(in.scopes)

\* A decision is a scope, or why there is none.
Conflict  == "scope_conflict"
Ambiguous == "scope_ambiguous"

decide(in, requested) ==
  LET existing == Existing(in)  default == default_scope(in)
      may_create == in.operation # "install" \/ in.policy = "allow-parallel"
      only == CHOOSE s \in Scopes : s \in existing
  IN  IF requested # None
      THEN IF requested \in existing \/ existing = {} \/ may_create THEN requested ELSE Conflict
      ELSE IF existing = {} THEN default
      ELSE IF existing = Scopes THEN Ambiguous
      ELSE IF only = default \/ in.policy # "error" THEN only ELSE Conflict

\* required_for, where admin says that the token is elevated or both roots
\* can be written.
required(in, scope) == scope = "machine" /\ ~in.admin

\* requirement fails, and so asks for nothing, in a scope not offered.
needs_elevation(in, scope) == scope \in Range(in.scopes) /\ required(in, scope)

\* What main takes the scope for: a refusal ends a quiet run.
Requested(in) == IF in.given # None THEN in.given ELSE in.served
Resolved(in)  == decide(in, Requested(in))
MainScope(in) == IF Resolved(in) \in Scopes THEN Resolved(in) ELSE default_scope(in)

wizard_decides_scope(in) ==
  /\ ~in.quiet /\ in.given = None /\ in.served = None
  /\ \/ Resolved(in) \notin Scopes
     \/ in.operation = "install" /\ Len(in.scopes) > 1

\* The start is relaunched elevated before anything else.
RelaunchFirst(in) == ~wizard_decides_scope(in) /\ needs_elevation(in, MainScope(in))

----------------------------------------------------------------------------
(* Session::build.                                                         *)

\* The scope the session asks the engine about again.
Asked(in) == IF in.given # None THEN MainScope(in) ELSE None

Pages(in, select, refused, kind, describable, continuing, asksLicense) ==
  LET if(condition, page) == IF condition THEN <<page>> ELSE <<>>
      undecided == Len(in.scopes) > 1 /\ in.given = None
      options   == [i \in 1 .. in.options |-> "Options"]
      choices   ==
        IF select THEN <<"Scope">>
        ELSE IF refused THEN <<>>
        ELSE CASE kind = "uninstall" -> if(describable /\ continuing, "Confirm")
               [] kind = "repair" -> if(describable, "Ready")
               [] kind = "fresh" /\ describable ->
                    if(undecided, "Scope") \o if(asksLicense, "License") \o <<"Destination">>
                    \o options \o <<"Ready">>
               [] kind = "upgrade" /\ describable ->
                    if(undecided, "Scope") \o if(asksLicense, "License") \o options \o <<"Ready">>
               [] OTHER -> <<>>
  IN  choices \o if(~refused, "Progress") \o <<"Finish">>

Build(in) ==
  LET decision    == decide(in, Asked(in))
      scope       == IF decision \in Scopes THEN decision ELSE MainScope(in)
      select      == in.given = None /\ decision = Ambiguous
      refused     == ~select /\ decision \notin Scopes
      describable == scope \in Range(in.scopes)
      continuing  == describable /\ in.versions[scope] # None
      kind        == CASE in.operation = "uninstall" -> "uninstall"
                       [] in.operation = "repair" -> "repair"
                       [] OTHER -> IF continuing THEN "upgrade" ELSE "fresh"
      asksLicense == in.license /\ ~(continuing /\ in.accepted[scope])
      pages       == Pages(in, select, refused, kind, describable, continuing, asksLicense)
  IN  [operation |-> in.operation, kind |-> kind, pages |-> pages, scope |-> scope,
       served    |-> in.served,
       scopePage |-> IF "Scope" \notin Range(pages) THEN None
                     ELSE IF select THEN "select"
                     ELSE IF kind = "fresh" THEN "choose" ELSE "existing",
       refused   |-> refused,
       machine_needs_elevation |-> needs_elevation(in, "machine"),
       install_root |-> IF continuing THEN "installed"
                        ELSE IF in.root # None THEN in.root ELSE scope,
       offered   |-> Range(in.scopes),
       launch    |-> in.launch /\ in.operation = "install"]
=============================================================================
