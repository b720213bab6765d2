---------------------------- MODULE Installation ----------------------------
(* One installation over many runs (lib.rs, plan.rs): each install, upgrade, *)
(* repair and uninstall reconciles what a version of the product wants with *)
(* what the database says is owned and with what the machine holds by then, *)
(* while people and other programs change the machine between the runs.     *)
(*                                                                          *)
(* A run is one step: that it is atomic, whatever fails or crashes within   *)
(* it, is what the transaction modules show.  An ownership row is what was  *)
(* written and what was there before, Absent where this installation        *)
(* created the resource.                                                    *)
EXTENDS DesiredState

CONSTANTS
    Cases       \* what a behaviour is about: versions of a product, the machine it
                \* meets, the accounts its runs are made from, the options they ask
                \* for, whether one accepts a licence anew, and the changes others
                \* make, `most` of them

ASSUME InstallationAssumption == \A c \in Cases : \A m \in c.versions : Typed(m)

VARIABLES
    case,       \* the case
    machine,    \* what every resource holds
    rows,       \* the ownership rows
    installed,  \* the installed version's metadata, or None
    options,    \* the recorded options
    chosen,     \* the options somebody asked for in so many words
    site,       \* the account and rights of the last run
    sites,      \* of all runs
    last,       \* what the last step was
    meddled       \* changes made by others so far

installationVars == <<case, machine, rows, installed, options, chosen, site, sites, last, meddled>>

Empty == [id \in {} |-> Absent]
Ids(items) == {items[i].id : i \in DOMAIN items}
OfKind(kind, map) == {id \in DOMAIN map : id[1] = kind}

-----------------------------------------------------------------------------
(* The operations of a plan.                                                *)

Keep(id, data, was) == [do |-> "keep", id |-> id, data |-> data, was |-> was]
Put(id, data, was) == [do |-> "put", id |-> id, data |-> data, was |-> was]
Take(id, was) == [do |-> "take", id |-> id, data |-> Absent, was |-> was]

Owned(c, id) == id \in DOMAIN c.rows
AsWritten(c, id) == Held(c.machine, id) = c.rows[id].data

\* Mutant: a file the database says is installed is taken to be there.
TrustsRows(c) ==
    Each(c.wanted.files, LAMBDA f :
        IF Owned(c, f.id) /\ c.rows[f.id].data = f.data THEN <<Keep(f.id, f.data, Absent)>>
        ELSE <<Put(f.id, f.data, Absent)>>)

\* A first installation plans every file as an installation of it, which
\* writes what a kept one already holds.
FileOps(c) ==
    Each(c.wanted.files, LAMBDA f :
        IF Held(c.machine, f.id) = f.data THEN <<Keep(f.id, f.data, Absent)>>
        ELSE <<Put(f.id, f.data, Absent)>>)

DirectoryOps(c) ==
    LET Op(id) == IF id \notin DOMAIN c.machine THEN Put(id, <<>>, Absent)
                  ELSE IF Owned(c, id) THEN Keep(id, <<>>, c.rows[id].was)
                  ELSE Put(id, <<>>, <<>>)
    IN  Each(c.wanted.directories, LAMBDA path : <<Op(<<"directory", path, "">>)>>)

\* Every key the values need, below the keys Windows itself owns.
Chains(c, items) ==
    UNION {{SubSeq(id[2], 1, n) : n \in {k \in DOMAIN id[2] : k > Len(KeyChainRoot(c.scope, id[2]))}} :
              id \in Ids(items)}

\* A key nobody owns that is already there is not claimed; an owned one
\* deleted behind the installation's back is created again.
KeyOps(c, keys) ==
    LET Op(id) == IF ~KeyExists(c.machine, c.scope, id[2]) THEN <<Put(id, <<>>, Absent)>>
                  ELSE IF Owned(c, id) THEN <<Keep(id, <<>>, c.rows[id].was)>>
                  ELSE <<>>
    IN  Each(ByDepth(keys), LAMBDA key : Op(<<"key", key, "">>))

\* Mutant: a value rewritten by a later version restores the earlier one's.
ForgetsWas(c, item, overwrite) ==
    LET now == Held(c.machine, item.id)
    IN  IF now = item.data THEN Keep(item.id, item.data, now) ELSE Put(item.id, item.data, now)

\* A value somebody changed since stays unless the desired data wins; the
\* state to restore is the one before this installation throughout.
ValueOp(c, item, overwrite) ==
    LET id == item.id
        now == Held(c.machine, id)
    IN  IF ~Owned(c, id) THEN
            IF now = item.data THEN Keep(id, now, now) ELSE Put(id, item.data, now)
        ELSE IF now = item.data THEN Keep(id, now, c.rows[id].was)
        ELSE IF now = Absent \/ AsWritten(c, id) \/ overwrite THEN Put(id, item.data, c.rows[id].was)
        ELSE Keep(id, c.rows[id].data, c.rows[id].was)

ValueOps(c, items, overwrite) == Each(items, LAMBDA item : <<ValueOp(c, item, overwrite)>>)

\* An entry that was there before is never claimed, and not put back either.
PathOps(c) ==
    LET Op(id) == IF Owned(c, id) /\ c.rows[id].was # Absent THEN Keep(id, <<>>, c.rows[id].was)
                  ELSE IF id \notin DOMAIN c.machine THEN Put(id, <<>>, Absent)
                  ELSE IF Owned(c, id) THEN Keep(id, <<>>, Absent)
                  ELSE Keep(id, <<>>, <<>>)
    IN  Each(c.wanted.path, LAMBDA item : <<Op(item.id)>>)

\* Shortcuts and profile blocks are the installation's by their place.
PlacedOps(c, items) ==
    Each(items, LAMBDA item :
        IF Held(c.machine, item.id) = item.data THEN <<Keep(item.id, item.data, Absent)>>
        ELSE <<Put(item.id, item.data, Absent)>>)

\* Windows lets two rules share a name.
RulesNamed(holds, name) == {id \in OfKind("rule", holds) : id[3] = name}
Ambiguous(holds, name) == \E a, b \in RulesNamed(holds, name) : a # b

\* A run without the right to write rules carries the owned ones forward; a
\* rule of the name that is a stranger's stays.
RuleOps(c) ==
    LET Op(r) ==
            LET named == RulesNamed(c.machine, r.id[3])
                now == c.machine[CHOOSE id \in named : TRUE]
                recorded == IF Owned(c, r.id) THEN <<Keep(r.id, c.rows[r.id].data, Absent)>> ELSE <<>>
            IN  IF ~c.site.elevated \/ Ambiguous(c.machine, r.id[3]) THEN recorded
                ELSE IF named = {} THEN <<Put(r.id, r.data, Absent)>>
                ELSE IF now = r.data THEN <<Keep(r.id, r.data, Absent)>>
                ELSE IF ~Owned(c, r.id) THEN <<>>
                ELSE IF now = c.rows[r.id].data \/ c.repair THEN <<Put(r.id, r.data, Absent)>>
                ELSE recorded
    IN  Each(c.wanted.rules, Op)

-----------------------------------------------------------------------------
(* What is owned and no longer wanted.                                      *)

Surplus(c, kind, wantedIds) == OfKind(kind, c.rows) \ wantedIds

\* Taken back only while it is still what was written.
TakenBack(c, ids) ==
    Each(Enumerated({id \in ids : AsWritten(c, id)}), LAMBDA id : <<Take(id, c.rows[id].was)>>)

ValueIds(c) == Ids(c.wanted.values \o c.wanted.registration)

\* Deepest first, and only keys this installation created.
SurplusKeys(c) ==
    LET wanted == Chains(c, c.wanted.values \o c.wanted.registration)
        created == {id[2] : id \in {k \in OfKind("key", c.rows) : c.rows[k].was = Absent}}
    IN  Reverse(ByDepth(created \ wanted))

IsRegistration(c, id) == id[2] = c.registrationKey

\* A block of an account this run does not edit the profiles of is carried
\* forward by an installing run and left by an uninstall.
MyBlock(c, id) == Reaches(c.site) /\ id[2][1] = c.site.account
SurplusBlocks(c) == Surplus(c, "block", Ids(c.wanted.blocks))
ForeignBlocks(c) == {id \in SurplusBlocks(c) : ~MyBlock(c, id) /\ c.installing}
SurplusRules(c) == Surplus(c, "rule", Ids(c.wanted.rules))

\* A shell link while it still points into the install root, a URL while it
\* still opens what was recorded.
Removable(c, id) ==
    LET now == Held(c.machine, id)
    IN  /\ now # Absent
        /\ IF id[1] = "url" THEN now[1] = c.rows[id].data[1] ELSE IsUnder(now[1], InstallRoot)
SurplusShortcuts(c) ==
    {id \in Surplus(c, "shortcut", Ids(c.wanted.shortcuts)) \cup Surplus(c, "url", Ids(c.wanted.shortcuts)) :
        Removable(c, id)}

\* A modified file is preserved, with every directory on its path.
SurplusFiles(c) == Surplus(c, "file", Ids(c.wanted.files))
PreservedDirectories(c) ==
    UNION {{Root} \cup Parents(id[2]) :
              id \in {f \in SurplusFiles(c) : Held(c.machine, f) # Absent /\ ~AsWritten(c, f)}}
SurplusDirectories(c) ==
    LET created == {id[2] : id \in {d \in OfKind("directory", c.rows) : c.rows[d].was = Absent}}
    IN  Reverse(ByDepth(created \ (ToSet(c.wanted.directories) \cup PreservedDirectories(c))))

Dropped(ids) == Each(ids, LAMBDA id : <<Take(id, Absent)>>)
\* The ones of some resources a test holds of.
Those(ids, Test(_)) == Each(ids, LAMBDA id : IF Test(id) THEN <<id>> ELSE <<>>)

KeyIds(keys) == [i \in DOMAIN keys |-> <<"key", keys[i], "">>]
DirectoryIds(paths) == [i \in DOMAIN paths |-> <<"directory", paths[i], "">>]

\* In the reverse of the order resources are put in.
Removals(c) ==
    LET values == Surplus(c, "value", ValueIds(c))
        keys == KeyIds(SurplusKeys(c))
        single == {id \in SurplusRules(c) : c.site.elevated /\ RulesNamed(c.machine, id[3]) = {id}}
    IN  TakenBack(c, {id \in values : IsRegistration(c, id)})
            \o Dropped(Those(keys, LAMBDA id : IsRegistration(c, id)))
            \o TakenBack(c, single)
            \o TakenBack(c, {id \in SurplusBlocks(c) : MyBlock(c, id)})
            \o Dropped(Enumerated(SurplusShortcuts(c)))
            \o TakenBack(c, Surplus(c, "variable", Ids(c.wanted.variables)))
            \o TakenBack(c, Surplus(c, "path", Ids(c.wanted.path)))
            \o TakenBack(c, {id \in values : ~IsRegistration(c, id)})
            \o Dropped(Those(keys, LAMBDA id : ~IsRegistration(c, id)))
            \o TakenBack(c, SurplusFiles(c))
            \o Dropped(DirectoryIds(SurplusDirectories(c)))

\* What a run keeps without wanting it.
Carried(c) ==
    LET ids == ForeignBlocks(c) \cup (IF c.site.elevated THEN {} ELSE SurplusRules(c))
    IN  Each(Enumerated(ids), LAMBDA id : <<Keep(id, c.rows[id].data, c.rows[id].was)>>)

Plan(c) ==
    LET product == Chains(c, c.wanted.values)
    IN  DirectoryOps(c) \o FileOps(c)
            \o KeyOps(c, product) \o ValueOps(c, c.wanted.values, c.repair)
            \o PathOps(c) \o ValueOps(c, c.wanted.variables, c.repair)
            \o PlacedOps(c, c.wanted.shortcuts) \o PlacedOps(c, c.wanted.blocks) \o RuleOps(c)
            \o Carried(c)
            \o KeyOps(c, Chains(c, c.wanted.registration) \ product)
            \o ValueOps(c, c.wanted.registration, TRUE)
            \o Removals(c)

-----------------------------------------------------------------------------
(* The plan carried out.                                                    *)

\* b lies in the directory or key a.
Inside(a, b) ==
    \/ a[1] = "directory" /\ b[1] \in {"file", "directory"} /\ Within(b[2], a[2])
    \/ a[1] = "key" /\ b[1] = "key" /\ Within(b[2], a[2])
    \/ a[1] = "key" /\ b[1] = "value" /\ IsUnder(b[2], a[2])

\* What it is to be put into is there, and a file and a directory are not
\* to share a path.
HasPlace(holds, scope, id) ==
    /\ id[1] = "file" => /\ <<"directory", Front(id[2]), "">> \in DOMAIN holds
                         /\ <<"directory", id[2], "">> \notin DOMAIN holds
    /\ id[1] = "directory" => <<"file", id[2], "">> \notin DOMAIN holds
    /\ id[1] = "value" => KeyExists(holds, scope, id[2])

Without(holds, ids) == Restrict(holds, DOMAIN holds \ ids)
With(map, id, value) == [i \in DOMAIN map \cup {id} |-> IF i = id THEN value ELSE map[i]]

\* A rule is rewritten under its name; a directory or key goes when empty.
Step(scope, st, op) ==
    LET others == IF op.id[1] = "rule" THEN RulesNamed(st.machine, op.id[3]) ELSE {}
        noted == With(st.rows, op.id, [data |-> op.data, was |-> op.was])
    IN  IF st.failed THEN st
        ELSE IF op.do = "keep" THEN [st EXCEPT !.rows = noted]
        ELSE IF op.do = "put" THEN
            IF HasPlace(st.machine, scope, op.id)
            THEN [machine |-> With(Without(st.machine, others), op.id, op.data), rows |-> noted,
                  failed |-> FALSE]
            ELSE [st EXCEPT !.failed = TRUE]
        ELSE IF \E id \in DOMAIN st.machine : Inside(op.id, id) THEN st
        ELSE IF op.was = Absent THEN [st EXCEPT !.machine = Without(@, {op.id})]
        ELSE [st EXCEPT !.machine = With(@, op.id, op.was)]

After(c) ==
    LET plan == Plan(c)
        Done[n \in 0..Len(plan)] ==
            IF n = 0 THEN [machine |-> c.machine, rows |-> Empty, failed |-> FALSE]
            ELSE Step(c.scope, Done[n - 1], plan[n])
    IN  Done[Len(plan)]

NothingWanted ==
    [files |-> <<>>, directories |-> <<>>, values |-> <<>>, path |-> <<>>, variables |-> <<>>,
     shortcuts |-> <<>>, blocks |-> <<>>, rules |-> <<>>, registration |-> <<>>]

\* What a reconciliation starts from.
Toward(m, opts, scope, s, holds, owned, repairing) ==
    [wanted |-> Desired(m, opts, scope, s, holds, owned), machine |-> holds, rows |-> owned,
     scope |-> scope, site |-> s, repair |-> repairing, installing |-> TRUE,
     registrationKey |-> RegistrationKey(m, scope)]

Away(m, scope, s, holds, owned) ==
    [wanted |-> NothingWanted, machine |-> holds, rows |-> owned, scope |-> scope, site |-> s,
     repair |-> FALSE, installing |-> FALSE, registrationKey |-> RegistrationKey(m, scope)]

-----------------------------------------------------------------------------
(* The runs.                                                                *)

InstallationInit ==
    /\ case \in Cases
    /\ machine = case.found /\ rows = Empty /\ installed = None
    /\ options = Empty /\ chosen = Empty
    /\ site = None /\ sites = {} /\ last = "none" /\ meddled = 0

\* What was asked for and what the package still takes of it.
Asked(m, explicit) ==
    LET said == explicit @@ chosen
        taken == {o \in DOMAIN said \cap OptionNames(m) : FromText(Option(m, o), said[o]) # None}
    IN  [o \in taken |-> FromText(Option(m, o), said[o])]

Refuse(m, explicit) ==
    /\ Refused(m, explicit)
    /\ last' = "refused"
    /\ UNCHANGED <<case, machine, rows, installed, options, chosen, site, sites, meddled>>

\* One reconciliation; a failed one is rolled back.
Reconcile(m, s, explicit, repairing) ==
    LET opts == EffectiveOptions(m, options, explicit)
        end == After(Toward(m, opts, case.scope, s, machine, rows, repairing))
    IN  /\ ~Refused(m, explicit)
        /\ site' = s /\ sites' = sites \cup {s}
        /\ IF end.failed
           THEN last' = "failed" /\ UNCHANGED <<machine, rows, installed, options, chosen>>
           ELSE /\ machine' = end.machine /\ rows' = end.rows
                /\ installed' = m /\ options' = opts /\ chosen' = Asked(m, explicit)
                /\ last' = IF repairing THEN "repair" ELSE "install"
        /\ UNCHANGED <<case, meddled>>

\* `accepting`: a licence is accepted that the installation has no record of.
AlreadyInstalled(m, explicit, accepting) ==
    installed # None /\ m.version = installed.version /\ DOMAIN explicit = {} /\ ~accepting

Install(m, s, explicit, accepting) ==
    ~AlreadyInstalled(m, explicit, accepting) /\ Reconcile(m, s, explicit, FALSE)

Repair(m, s, explicit) ==
    installed # None /\ Reconcile(m, s, explicit, TRUE)

Uninstall(s) ==
    /\ installed # None
    /\ LET end == After(Away(installed, case.scope, s, machine, rows)) IN
        /\ machine' = end.machine
        /\ rows' = Empty /\ installed' = None /\ options' = Empty /\ chosen' = Empty
    /\ site' = s /\ sites' = sites \cup {s} /\ last' = "uninstall"
    /\ UNCHANGED <<case, meddled>>

\* Somebody changes, adds or deletes a resource; a directory or a key goes
\* with all it holds.
Edited(holds, edit) ==
    IF edit.data = Absent
    THEN Without(holds, {id \in DOMAIN holds : id = edit.id \/ Inside(edit.id, id)})
    ELSE With(holds, edit.id, edit.data)

Meddle(edit) ==
    /\ meddled < case.most
    /\ edit.data = Absent => edit.id \in DOMAIN machine
    /\ edit.data # Absent => HasPlace(machine, case.scope, edit.id)
    /\ Held(machine, edit.id) # edit.data
    /\ machine' = Edited(machine, edit)
    /\ meddled' = meddled + 1 /\ last' = "edit"
    /\ UNCHANGED <<case, rows, installed, options, chosen, site, sites>>

InstallationNext ==
    \/ \E m \in case.versions, explicit \in case.requests : Refuse(m, explicit)
    \/ \E m \in case.versions, explicit \in case.requests, s \in case.sites, accepting \in case.accepts :
         Install(m, s, explicit, accepting)
    \/ \E m \in case.versions, explicit \in case.requests, s \in case.sites : Repair(m, s, explicit)
    \/ \E s \in case.sites : Uninstall(s)
    \/ \E edit \in case.edits : Meddle(edit)

InstallationSpec == InstallationInit /\ [][InstallationNext]_installationVars

-----------------------------------------------------------------------------
(* verify: the ownership rows held against the machine.                     *)

Stands(id) ==
    LET now == Held(machine, id)
    IN  IF id[1] = "directory" THEN now # Absent
        ELSE IF id[1] \in {"shortcut", "url"} THEN now # Absent /\ now[1] = rows[id].data[1]
        ELSE IF id[1] = "rule" THEN RulesNamed(machine, id[3]) = {id} /\ now = rows[id].data
        ELSE now = rows[id].data

\* A PATH entry that was there before is not looked for, nor a key other
\* than the registration's.
Verified ==
    {id \in DOMAIN rows :
        /\ id[1] = "path" => rows[id].was = Absent
        /\ id[1] = "key" => id[2] = RegistrationKey(installed, case.scope)}

Findings == {id \in Verified : ~Stands(id)}

\* What the machine holds of the integrations, and what of them is owned.
Presence(items) ==
    [total |-> Cardinality(Ids(items)),
     present |-> Cardinality({items[i].id : i \in {j \in DOMAIN items :
                                                    Held(machine, items[j].id) = items[j].data}}),
     owned |-> Cardinality(Ids(items) \cap DOMAIN rows)]

-----------------------------------------------------------------------------
(* Properties.                                                              *)

\* Whatever runs led here, and nobody else changing anything, the machine
\* is as the installed version alone, with the recorded options, would have
\* made it, as it was found once the product is gone; no run fails; and an
\* option is what somebody last asked for.  Rules and profile blocks depend
\* on who ran, so they are compared while every run was made from one site.
FollowsThePackage ==
    LET fresh == After(Toward(installed, options, case.scope, site, case.found, Empty, FALSE)).machine
        expected == IF installed = None THEN case.found ELSE fresh
        personal == IF Cardinality(sites) > 1 THEN {"rule", "block"} ELSE {}
        Compared(holds) == {<<id, holds[id]>> : id \in {i \in DOMAIN holds : i[1] \notin personal}}
    IN  meddled = 0 =>
            /\ last # "failed"
            /\ Compared(machine) = Compared(expected)
            /\ \A o \in DOMAIN chosen : options[o] = chosen[o]

\* A repair leaves nothing for verify to find and everything in its place,
\* but for rules it may not write or cannot tell apart, for the profiles of
\* another account, and for a PATH entry that was there before the product:
\* where somebody has removed that one since, the repair does not put it back.
RepairHeals ==
    LET wanted == Desired(installed, options, case.scope, site, machine, rows)
        integrations == Integrations(installed, options, case.scope, machine, rows)
        items == wanted.files \o wanted.values \o wanted.variables \o wanted.shortcuts
                     \o wanted.blocks \o wanted.registration
        Excused(id) == \/ id[1] = "rule" /\ (~site.elevated \/ Ambiguous(machine, id[3]))
                       \/ id[1] = "block" /\ ~(Reaches(site) /\ id[2][1] = site.account)
    IN  last = "repair" =>
            /\ \A id \in Findings : Excused(id)
            /\ \A i \in DOMAIN items : Held(machine, items[i].id) = items[i].data
            /\ \A path \in ToSet(wanted.directories) : <<"directory", path, "">> \in DOMAIN machine
            /\ \A id \in Ids(wanted.path) : id \in DOMAIN machine \/ rows[id].was # Absent
            /\ \A id \in Ids(wanted.rules) : id \in DOMAIN rows /\ ~Excused(id) => Stands(id)
            /\ LET there == Presence(integrations)
               IN  there.present = there.total /\ there.owned = there.total

\* Somebody changed what was written there since.
Changed(id) ==
    /\ id[1] \in {"value", "variable", "rule"}
    /\ Held(machine, id) \notin {Absent, rows[id].data}
    /\ id[2] \notin {RegistrationKey(m, case.scope) : m \in case.versions}

\* The schemes a case's versions declare, but for those a version registers
\* something below in another way as well: by a [[registry]] value, as a
\* ProgID, an extension or the shell's own class, or as its capabilities.
PlainSchemes(c) ==
    {scheme \in {u.scheme : u \in UNION {ToSet(m.protocols) : m \in c.versions}} :
        /\ scheme \notin {"*", "Directory", "SystemFileAssociations"}
        /\ \A m \in c.versions :
            /\ \A v \in ToSet(m.registry) : ~IsUnder(ValueKey(v, c.scope), Class(c.scope, <<scheme>>))
            /\ \A a \in ToSet(m.associations) : scheme \notin {a.progId} \cup a.extensions
            /\ \A u \in ToSet(m.protocols) : scheme # ProgIdOf(m, u)
            /\ m.publisher = "Classes" => scheme # m.name}

\* The classes of those that are there and that the installation has no record
\* of having created.
ForeignSchemes ==
    LET keys == {Class(case.scope, <<scheme>>) : scheme \in PlainSchemes(case)}
        Created(id) == id \in DOMAIN rows /\ rows[id].was = Absent
    IN  {key \in keys : KeyExists(machine, case.scope, key) /\ ~Created(<<"key", key, "">>)}

Below(holds, key) ==
    {<<id, holds[id]>> : id \in {i \in DOMAIN holds : i[1] \in {"key", "value"} /\ IsUnder(i[2], key)}}

\* What others own or have changed stays as they left it: a value, a
\* variable or a rule that no longer holds what was written, whatever run
\* follows but a repair.  No run takes away a file it did not write or that
\* somebody changed.  No run touches what is registered for a URL scheme whose
\* class the installation has no record of having created; one it created,
\* somebody deleted and another application made again passes for its own.
\* The registration is the installation's own.
TheirsStand ==
    [][last' # "edit" =>
        /\ last' # "repair" =>
            \A id \in DOMAIN rows : Changed(id) => Held(machine', id) = Held(machine, id)
        /\ \A id \in OfKind("file", machine) :
            (id \in DOMAIN rows => machine[id] # rows[id].data) => id \in DOMAIN machine'
        /\ \A key \in ForeignSchemes : Below(machine', key) = Below(machine, key)]_installationVars
=============================================================================
