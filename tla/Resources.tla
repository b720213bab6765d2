----------------------------- MODULE Resources -----------------------------
(***************************************************************************)
(* The resources an installation shares with the people and the products   *)
(* around it, in places it does not own: its block in a PowerShell profile *)
(* (resource/profile.rs), a link in a shortcut folder                      *)
(* (resource/shortcut.rs), a firewall rule (resource/firewall.rs) and an   *)
(* environment variable (resource/environment.rs). Two installations, each *)
(* with its database, plan, prepare, mutate, commit, undo, crash and       *)
(* recover over one such place, and other people edit it. Each behaviour   *)
(* is about one kind of place; the kinds share the executor's protocol.    *)
(***************************************************************************)
EXTENDS Naturals, Sequences, SequencesExt, FiniteSets

CONSTANTS
  Installations,
  Versions,       \* what an installation writes differs by version
  None,
  Kinds,          \* the kinds of place
  Firsts,         \* [Kinds -> the places as found]
  Texts,          \* the lines users have in a profile
  NewLine,        \* a line break
  Stranger,       \* somebody else's link, rule or data
  Edited,         \* a block or rule of the product's that somebody changed
  Damaged,        \* a block whose end marker is gone
  Unreadable,     \* what a plan sees of a profile it cannot read
  MaxEvents,      \* bound: transactions begun and changes others make
  Unended         \* others also edit a profile found ending inside a line

Content(i, v) == [of |-> i, version |-> v]
Own(i)        == {Content(i, v) : v \in Versions}
Contents      == UNION {Own(i) : i \in Installations}

\* The tokens a profile is made of, and what each kind of place may hold.
Blocks   == [marker : Installations \cup {"product"}, text : Contents \cup {Edited, Damaged}]
Tokens   == Texts \cup {NewLine} \cup Blocks
Profiles == [dir : BOOLEAN, file : Seq(Tokens) \cup {None}, access : {"free", "readonly", "locked"}]
Rules    == Contents \cup {Stranger, Edited}
Values   == Contents \cup {Stranger, None}

\* No line joins another: between two there is a break.
Separate(text) == \A k \in 2..Len(text) : NewLine \in {text[k], text[k - 1]}

\* A profile as found: the lines of a user, in a directory.
FoundProfiles ==
  {p \in Profiles :
     IF p.file = None THEN p.access = "free"
     ELSE p.dir /\ p.file \in Seq(Texts \cup {NewLine}) /\ Separate(p.file)}

\* What an operation, its undo record, its row and its transaction hold.
Origins      == [file : BOOLEAN, dir : BOOLEAN, sep : 0..2] \cup Seq(Values) \cup {None}
Operations   == [does : {"none", "keep", "put", "remove"}, value : Contents \cup {None}, origin : Origins]
Undos        == [existed : BOOLEAN, dir : BOOLEAN, previous : Rules \cup {None}]
Transactions == [op : Operations, state : {"running", "rolling_back"},
                 at : {"planned", "applying", "applied"}, undo : Undos, code : {None, "skipped"}]
Rows         == [value : Contents, origin : Origins]

\* None stands for nothing, so it is none of the things there may be.
ASSUME ResourcesAssumption ==
  /\ Kinds \subseteq {"profile", "shared", "shortcut", "firewall", "environment"}
  /\ \A k \in Kinds \cap {"profile", "shared"} : \A p \in Firsts[k] : p \in FoundProfiles
  /\ \A k \in Kinds \cap {"shortcut", "environment"} : Firsts[k] \subseteq {None, Stranger}
  /\ "firewall" \in Kinds => \A p \in Firsts["firewall"] : p \in Seq({Stranger})
  /\ MaxEvents \in Nat /\ Unended \in BOOLEAN
  /\ NewLine \notin Texts /\ Blocks \cap (Texts \cup {NewLine}) = {}
  /\ Contents \cap {None, Stranger, Edited, Damaged, Unreadable} = {}
  /\ None \notin {Stranger, Edited, Damaged, Unreadable, "skipped"}
  /\ Edited \notin {Damaged, Unreadable, Stranger}
  /\ None \notin Seq(Tokens) \cup Transactions \cup Rows \cup Seq(Values)
  /\ None \notin [file : BOOLEAN, dir : BOOLEAN, sep : 0..2]
  /\ None \notin Seq(Profiles) \cup Seq(Seq(Rules))

VARIABLES
  kind,      \* of the place
  place,     \* what is there now
  row,       \* [Installations -> the ownership row]
  txn,       \* [Installations -> the open transaction]
  backup,    \* [Installations -> the link in the staging area]
  mem,       \* [Installations -> the running process]
  history    \* for the properties: the place as found and before each open
             \* transaction, until somebody else touches it

vars == <<kind, place, row, txn, backup, mem, history>>

IsProfile     == kind \in {"profile", "shared"}

\* The two scopes of one product mark their blocks alike.
Marker(i) == IF kind = "shared" THEN "product" ELSE i

NoOrigin == [file |-> FALSE, dir |-> FALSE, sep |-> 0]
NoUndo   == [existed |-> FALSE, dir |-> FALSE, previous |-> None]
Down     == [pc |-> "down", code |-> None]

\* What the plan makes of the resource; the origin is how it came to be
\* (profile) or the value before the installation (environment).
Operation(does, value, origin) == [does |-> does, value |-> value, origin |-> origin]
NoOperation == Operation("none", None, None)
Writes(op)  == op.does \in {"put", "remove"}

Init ==
  /\ kind \in Kinds /\ place \in Firsts[kind]
  /\ row = [i \in Installations |-> None] /\ txn = [i \in Installations |-> None]
  /\ backup = [i \in Installations |-> None] /\ mem = [i \in Installations |-> Down]
  /\ history = [found |-> <<place>>, events |-> 0, ran |-> {},
                before |-> [i \in Installations |-> None]]

----------------------------------------------------------------------------
(* The text of a profile: lines, line breaks, and blocks, each a token. A  *)
(* block is from its start marker to the end of its end marker's line.     *)

IsText(t)  == t \in Texts
IsBlock(t) == t # NewLine /\ t \notin Texts
Breaks(n)  == [k \in 1..n |-> NewLine]

\* The lines of a text, in order, and its blocks.
LinesUpTo(text) ==
  LET upTo[n \in 0..Len(text)] ==
        IF n = 0 THEN <<>>
        ELSE IF IsText(text[n]) THEN Append(upTo[n - 1], text[n]) ELSE upTo[n - 1]
  IN  upTo
Lines(text)    == LinesUpTo(text)[Len(text)]
BlocksIn(text) == {t \in ToSet(text) : IsBlock(t)}

BlankAtEnd(text) == IsSuffix(Breaks(2), text)

\* The line breaks an append puts in front of a block.
separator_for(text) ==
  IF text = <<>> \/ BlankAtEnd(text) THEN 0
  ELSE IF Last(text) = NewLine THEN 1 ELSE 2

Positions(text, marker) == {k \in DOMAIN text : IsBlock(text[k]) /\ text[k].marker = marker}
Position(text, marker)  == CHOOSE k \in Positions(text, marker) : TRUE

\* The block the text holds for the marker: its text, Damaged, or None.
find(text, marker) ==
  IF Positions(text, marker) = {} THEN None ELSE text[Position(text, marker)].text

with_block(text, marker, content) ==
  LET block == [marker |-> marker, text |-> content]
  IN  IF find(text, marker) # None
      THEN [text EXCEPT ![Position(text, marker)] = block]
      ELSE text \o Breaks(separator_for(text)) \o <<block, NewLine>>

\* Mutant: the recorded breaks go wherever they stand.
StandsAnywhere(before, sep) == IsSuffix(Breaks(sep), before)

\* A separator goes with the block only while it is a blank line before it.
SeparatorStands(before, sep) ==
  IsSuffix(Breaks(sep), before) /\ (BlankAtEnd(before) \/ Len(before) = sep)

\* The text without the block, its line break, and its separator.
without_block(text, marker, sep) ==
  LET k      == Position(text, marker)
      before == SubSeq(text, 1, k - 1)
      rest   == SubSeq(text, k + 1, Len(text))
  IN  (IF SeparatorStands(before, sep) THEN SubSeq(before, 1, k - 1 - sep) ELSE before)
        \o (IF rest # <<>> /\ rest[1] = NewLine THEN Tail(rest) ELSE rest)

----------------------------------------------------------------------------
(* The profile on disk: its directory, its file, and whether the file can  *)
(* be read and written.                                                    *)

TextOf(p) == IF p.file = None THEN <<>> ELSE p.file
Locked(p)   == p.file # None /\ p.access = "locked"
Readonly(p) == p.file # None /\ p.access = "readonly"

\* What a plan sees: the block, None, Damaged, or Unreadable.
profile_state(p, marker) == IF Locked(p) THEN Unreadable ELSE find(TextOf(p), marker)

Outcome(p, code) == [place |-> p, code |-> code]

\* profile::add, once the directory is there.
AddBlock(p, marker, content) ==
  LET now == profile_state(p, marker)
  IN  CASE now \in {Unreadable, Damaged} -> Outcome(p, "skipped")
        [] now = content -> Outcome(p, None)
        [] OTHER -> IF Readonly(p) THEN Outcome(p, "skipped")
                    ELSE Outcome([p EXCEPT !.dir = TRUE, !.file = with_block(TextOf(p), marker, content)], None)

\* profile::remove.
RemoveBlock(p, marker, sep, deleteFile, deleteDir) ==
  LET now  == profile_state(p, marker)
      next == without_block(TextOf(p), marker, sep)
  IN  IF p.file = None \/ now = None THEN Outcome(p, None)
      ELSE IF now \in {Unreadable, Damaged} \/ Readonly(p) THEN Outcome(p, "skipped")
      ELSE Outcome(IF deleteFile /\ next = <<>>
                   THEN [dir |-> ~deleteDir, file |-> None, access |-> "free"]
                   ELSE [p EXCEPT !.file = next], None)

----------------------------------------------------------------------------
(* The plan: what a run makes of the place and of what it owns (plan.rs).  *)

Kept(r) == Operation("keep", r.value, r.origin)

PlanBlock(i, want) ==
  LET now == profile_state(place, Marker(i))
      r   == row[i]
      origin == IF r = None THEN None ELSE r.origin
  IN  IF want # None
      THEN CASE now = want -> Operation("keep", want, IF r = None THEN NoOrigin ELSE origin)
             [] now \in {Unreadable, Damaged} -> IF r = None THEN NoOperation ELSE Kept(r)
             [] OTHER -> Operation("put", want, origin)
      ELSE IF r # None /\ now = r.value THEN Operation("remove", r.value, r.origin)
      ELSE NoOperation

\* A link is the product's to remove while it points into the install root.
Removable(i) == place \in Own(i)

PlanShortcut(i, want) ==
  IF want # None THEN Operation(IF place = want THEN "keep" ELSE "put", want, None)
  ELSE IF row[i] # None /\ Removable(i) THEN Operation("remove", row[i].value, None)
  ELSE NoOperation

PlanRule(i, want, repair) ==
  LET r   == row[i]
      one == Len(place) = 1
      now == Head(place)
  IN  IF want # None
      THEN CASE place = <<>> -> Operation("put", want, None)
             [] one /\ now = want -> Operation("keep", want, None)
             [] one /\ r # None /\ now # want ->
                  IF now # r.value /\ ~repair THEN Kept(r) ELSE Operation("put", want, None)
             [] one /\ r = None /\ now # want -> NoOperation
             [] OTHER -> IF r = None THEN NoOperation ELSE Kept(r)
      ELSE IF r # None /\ place = <<r.value>> THEN Operation("remove", r.value, None)
      ELSE NoOperation

PlanVariable(i, want, repair) ==
  LET r == row[i]
  IN  IF want # None
      THEN CASE r # None /\ place = want -> Operation("keep", want, r.origin)
             [] r # None /\ place # want ->
                  IF place \in {None, r.value} \/ repair
                  THEN Operation("put", want, r.origin) ELSE Kept(r)
             [] OTHER -> IF place = want THEN Operation("keep", want, <<want>>)
                         ELSE Operation("put", want, None)
      ELSE IF r # None /\ place = r.value THEN Operation("remove", r.value, r.origin)
      ELSE NoOperation

PlanOf(i, want, repair) ==
  CASE IsProfile            -> PlanBlock(i, want)
    [] kind = "shortcut"    -> PlanShortcut(i, want)
    [] kind = "firewall"    -> PlanRule(i, want, repair)
    [] kind = "environment" -> PlanVariable(i, want, repair)

----------------------------------------------------------------------------
(* The executor's protocol over the one resource.                          *)

Busy(i) == mem[i].pc # "down" \/ txn[i] # None

\* Two products work on one profile with transactions that overlap, each with
\* its own block; on any other place one after the other, and on a variable
\* only while no other owns it. Of overlapping runs one acts at a time: the
\* other stands where it died, and its recovery goes on from there.
Alone(i) == \A j \in Installations \ {i} : mem[j].pc = "down"

MayStart(i) ==
  /\ ~Busy(i) /\ Alone(i)
  /\ history.events < MaxEvents
  /\ kind # "profile" => \A j \in Installations : ~Busy(j)
  /\ kind = "environment" => \A j \in Installations \ {i} : row[j] = None

\* Where an engine step leaves the place, for whoever looks on.
Touch(i, next) ==
  /\ place' = next
  /\ history' = IF next = place THEN history
                ELSE [history EXCEPT !.ran = IF history.found = None THEN {} ELSE @ \cup {i},
                                     !.before = [j \in Installations |-> IF j = i THEN @[i] ELSE None]]

\* A run plans to have the resource (an installation, upgrade or repair) or
\* not to (a version without it, an uninstall), and begins the transaction
\* with the planned operation; what earlier ones left in staging goes.
Begin(i) ==
  /\ MayStart(i)
  /\ \E want \in Own(i) \cup {None}, repair \in BOOLEAN :
       txn' = [txn EXCEPT ![i] = [op |-> PlanOf(i, want, repair), state |-> "running",
                                  at |-> "planned", undo |-> NoUndo, code |-> None]]
  /\ mem' = [mem EXCEPT ![i] = [Down EXCEPT !.pc = "walk"]]
  /\ backup' = [backup EXCEPT ![i] = None]
  /\ history' = [history EXCEPT !.before[i] = <<place>>, !.events = @ + 1]
  /\ UNCHANGED <<kind, place, row>>

Walking(i, state) == mem[i].pc = "walk" /\ txn[i].at = state

\* The undo record of the place as it is now.
UndoOf(i) ==
  CASE IsProfile ->
         LET now == profile_state(place, Marker(i))
         IN  [existed |-> place.file # None /\ now # Unreadable, dir |-> place.dir,
              previous |-> IF now \in {Unreadable, Damaged} THEN None ELSE now]
    [] kind = "firewall" ->
         [NoUndo EXCEPT !.existed = place # <<>>, !.previous = IF place = <<>> THEN None ELSE Head(place)]
    [] OTHER -> [NoUndo EXCEPT !.existed = place # None, !.previous = place]

\* Mutant: a block put over the one there forgets how that one came to be.
OriginLearntAnew(op, undo) ==
  IF ~IsProfile \/ op.does # "put" THEN op.origin
  ELSE IF undo.previous # None THEN NoOrigin
       ELSE [file |-> ~undo.existed, dir |-> ~undo.dir,
             sep |-> IF undo.existed THEN separator_for(place.file) ELSE 0]

\* The origin a put carries to its row: what the append is about to create
\* and the line breaks it puts in front.
OriginOf(op, undo) ==
  IF ~IsProfile \/ op.does # "put" THEN op.origin
  ELSE LET known == IF op.origin = None THEN NoOrigin ELSE op.origin
       IN  IF undo.previous # None THEN known
           ELSE [file |-> known.file \/ ~undo.existed, dir |-> known.dir \/ ~undo.dir,
                 sep |-> IF undo.existed THEN separator_for(place.file) ELSE 0]

\* The undo record and the state applying, durable before the mutation.
Prepare(i) ==
  /\ Walking(i, "planned") /\ Writes(txn[i].op)
  /\ txn' = [txn EXCEPT ![i].at = "applying", ![i].undo = UndoOf(i),
                        ![i].op.origin = OriginOf(txn[i].op, UndoOf(i))]
  /\ UNCHANGED <<kind, place, row, backup, mem, history>>

\* Mutant: a second attempt puts aside what the first one wrote.
ToBackUpAgain(i) == kind = "shortcut" /\ txn[i].undo.existed /\ place # None

\* A link that is about to go is moved into the staging area first.
ToBackUp(i) ==
  /\ kind = "shortcut" /\ txn[i].undo.existed /\ backup[i] = None /\ place # None
  /\ txn[i].op.does = "remove" => Removable(i)

KeepPrevious(i) ==
  /\ Walking(i, "applying") /\ ToBackUp(i)
  /\ backup' = [backup EXCEPT ![i] = place]
  /\ Touch(i, None)
  /\ UNCHANGED <<kind, row, txn, mem>>

\* What the mutation makes of the place, with the code of its result.
Mutated(i) ==
  LET op == txn[i].op
      origin == IF op.origin = None THEN NoOrigin ELSE op.origin
  IN  CASE IsProfile /\ op.does = "put" -> AddBlock(place, Marker(i), op.value)
        [] IsProfile /\ op.does = "remove" ->
             RemoveBlock(place, Marker(i), origin.sep, origin.file, origin.dir)
        [] kind = "shortcut" ->
             Outcome(IF op.does = "put" THEN op.value ELSE IF Removable(i) THEN None ELSE place, None)
        [] kind = "firewall" ->
             Outcome(IF op.does = "put"
                     THEN IF place = <<>> THEN <<op.value>> ELSE [place EXCEPT ![1] = op.value]
                     ELSE IF place = <<op.value>> THEN <<>> ELSE place, None)
        [] kind = "environment" ->
             Outcome(IF op.does = "put" THEN op.value
                     ELSE IF place = op.value THEN op.origin[1] ELSE place, None)

Mutate(i) ==
  /\ Walking(i, "applying") /\ ~ToBackUp(i)
  /\ Touch(i, Mutated(i).place)
  /\ mem' = [mem EXCEPT ![i].pc = "mutated", ![i].code = Mutated(i).code]
  /\ UNCHANGED <<kind, row, txn, backup>>

Mark(i) ==
  /\ mem[i].pc = "mutated"
  /\ txn' = [txn EXCEPT ![i].at = "applied", ![i].code = mem[i].code]
  /\ mem' = [mem EXCEPT ![i].pc = "walk", ![i].code = None]
  /\ UNCHANGED <<kind, place, row, backup, history>>

\* The row the commit writes from the operation (record_ownership).
RowOf(t) ==
  IF t.op.does \notin {"put", "keep"} \/ t.code = "skipped" THEN None
  ELSE [value |-> t.op.value,
        origin |-> IF kind = "environment" /\ t.op.origin = None
                   THEN <<t.undo.previous>> ELSE t.op.origin]

Closed(i) ==
  /\ txn' = [txn EXCEPT ![i] = None] /\ backup' = [backup EXCEPT ![i] = None]
  /\ mem' = [mem EXCEPT ![i] = Down]

Commit(i) ==
  /\ mem[i].pc = "walk" /\ (txn[i].at = "applied" \/ ~Writes(txn[i].op))
  /\ row' = [row EXCEPT ![i] = RowOf(txn[i])]
  /\ history' = [history EXCEPT !.before[i] = None,
                                !.found = IF backup[i] = Stranger THEN None ELSE @]
  /\ Closed(i)
  /\ UNCHANGED <<kind, place>>

----------------------------------------------------------------------------
(* The way back: a failed run, or a recovery that does not go forward.     *)

Fail(i) ==
  /\ mem[i].pc \in {"walk", "mutated"} /\ txn[i].state = "running"
  /\ txn' = [txn EXCEPT ![i].state = "rolling_back"]
  /\ mem' = [mem EXCEPT ![i] = [Down EXCEPT !.pc = "reverse"]]
  /\ UNCHANGED <<kind, place, row, backup, history>>

UndoneBlock(i) ==
  LET t == txn[i]
  IN  IF t.code = "skipped" THEN place
      ELSE IF t.undo.previous # None THEN AddBlock(place, Marker(i), t.undo.previous).place
      ELSE IF t.op.does = "put"
           THEN RemoveBlock(place, Marker(i), t.op.origin.sep, ~t.undo.existed, ~t.undo.dir).place
      ELSE place

UndoneLink(i) ==
  LET undo == txn[i].undo
  IN  IF ~undo.existed THEN None ELSE IF place = undo.previous THEN place ELSE backup[i]

UndoneRule(i) ==
  LET t == txn[i]
      previous == IF t.undo.previous = None THEN <<>> ELSE <<t.undo.previous>>
  IN  IF \/ place = <<>>
         \/ t.op.does = "put" /\ place = <<t.op.value>>
      THEN previous ELSE place

UndoneVariable(i) ==
  LET t == txn[i]
      written == IF t.op.does = "put" THEN t.op.value ELSE t.op.origin[1]
  IN  IF place \in {None, written} THEN t.undo.previous ELSE place

Undone(i) ==
  CASE IsProfile            -> UndoneBlock(i)
    [] kind = "shortcut"    -> UndoneLink(i)
    [] kind = "firewall"    -> UndoneRule(i)
    [] kind = "environment" -> UndoneVariable(i)

\* A backup that went back by a rename is gone from the staging area.
Undo(i) ==
  /\ mem[i].pc = "reverse" /\ txn[i].at # "planned"
  /\ Touch(i, Undone(i))
  /\ backup' = [backup EXCEPT ![i] = IF kind = "shortcut" /\ place = None THEN None ELSE @]
  /\ mem' = [mem EXCEPT ![i].pc = "undone"]
  /\ UNCHANGED <<kind, row, txn>>

FinishRollback(i) ==
  /\ \/ mem[i].pc = "undone"
     \/ mem[i].pc = "reverse" /\ txn[i].at = "planned"
  /\ history' = [history EXCEPT !.before[i] = None]
  /\ Closed(i)
  /\ UNCHANGED <<kind, place, row>>

Crash(i) ==
  /\ mem[i].pc # "down"
  /\ mem' = [mem EXCEPT ![i] = Down]
  /\ UNCHANGED <<kind, place, row, txn, backup, history>>

\* The next run of the product goes on with a running transaction that is its
\* own, and rolls back any other.
Recover(i) ==
  /\ mem[i].pc = "down" /\ txn[i] # None /\ Alone(i)
  /\ \E forward \in {b \in BOOLEAN : b => txn[i].state = "running"} :
       /\ mem' = [mem EXCEPT ![i].pc = IF forward THEN "walk" ELSE "reverse"]
       /\ txn' = IF forward THEN txn ELSE [txn EXCEPT ![i].state = "rolling_back"]
  /\ UNCHANGED <<kind, place, row, backup, history>>

EngineStep(i) ==
  \/ Begin(i) \/ Prepare(i) \/ KeepPrevious(i) \/ Mutate(i) \/ Mark(i)
  \/ Commit(i) \/ Fail(i) \/ Undo(i) \/ FinishRollback(i) \/ Crash(i) \/ Recover(i)

----------------------------------------------------------------------------
(* The people and products around it. *)

\* Away from a profile nobody else acts between a plan's look at the place
\* and its own write, nor, for links, before the transaction ends.
Exposed ==
  ~IsProfile =>
    \A i \in Installations :
      /\ mem[i].pc # "mutated"
      /\ txn[i] # None => (kind # "shortcut" /\ txn[i].at = "applied")

Change(next) ==
  /\ history.events < MaxEvents /\ next # place
  /\ place' = next
  /\ history' = [history EXCEPT !.found = None, !.events = @ + 1, !.ran = {},
                                !.before = [i \in Installations |-> None]]
  /\ UNCHANGED <<kind, row, txn, backup, mem>>

Unbroken(p) == p.file # None /\ p.file # <<>> /\ Last(p.file) # NewLine

\* A profile gains a line at its end, or one line, break or block changes.
EditProfile ==
  LET text == TextOf(place)
      Now(next) == Change([dir |-> TRUE, file |-> next, access |-> place.access])
  IN  \/ /\ ~Unbroken(place)
         /\ \E line \in Texts : Now(text \o <<line, NewLine>>)
      \/ \E k \in DOMAIN text :
           \/ /\ IsBlock(text[k])
              /\ \E what \in {Edited, Damaged} : Now([text EXCEPT ![k].text = what])
           \/ IsBlock(text[k]) /\ Now(SubSeq(text, 1, k - 1) \o SubSeq(text, k + 2, Len(text)))
           \/ /\ k > 1 /\ text[k] = NewLine /\ text[k - 1] = NewLine
              /\ Now(SubSeq(text, 1, k - 1) \o SubSeq(text, k + 1, Len(text)))
      \/ place.file # None /\ Change([dir |-> place.dir, file |-> None, access |-> "free"])
      \/ /\ place.file # None
         /\ \E access \in {"free", "readonly", "locked"} : Change([place EXCEPT !.access = access])

Others ==
  /\ Exposed
  /\ (IsProfile /\ history.found # None) => (Unended \/ ~Unbroken(history.found[1]))
  /\ CASE IsProfile -> EditProfile
       [] kind = "firewall" ->
            \/ Change(Append(place, Stranger))
            \/ place # <<>> /\ Change(Tail(place))
            \/ place # <<>> /\ place[1] # Stranger /\ Change([place EXCEPT ![1] = Edited])
       [] OTHER -> \E next \in {None, Stranger} : Change(next)

Next == (\E i \in Installations : EngineStep(i)) \/ Others

Spec == Init /\ [][Next]_vars

----------------------------------------------------------------------------
(* Properties. *)

TextsOf(p)   == Lines(TextOf(p))
BlocksOf(p)  == BlocksIn(TextOf(p))
Strangers(p) == Cardinality({k \in DOMAIN p : p[k] = Stranger})

\* What is not the product's outlasts every step of the engine: the user's
\* lines in a profile stay, in order and each on its own line, whatever
\* blocks come and go around them and whoever edits in between; a rule the
\* product does not own stays; a link or a value that gives way is in the
\* staging area, an undo record or the row, from where it comes back
\* (resource/profile.rs 13-24, win/firewall.rs 10, executor.rs keep_previous).
\* It does not hold of a profile found ending inside a line (Unended).
StrangersKept ==
  [][(\E i \in Installations : EngineStep(i)) =>
       CASE IsProfile ->
              /\ TextsOf(place') = TextsOf(place)
              /\ Separate(TextOf(place)) => Separate(TextOf(place'))
         [] kind = "firewall" ->
              \/ Strangers(place') >= Strangers(place)
              \/ Len(place) = 1 /\ \E i \in Installations : row[i] # None
         [] OTHER ->
              (place = Stranger /\ place' # Stranger) =>
                \E i \in Installations :
                  \/ backup'[i] = Stranger
                  \/ /\ kind = "environment"
                     /\ \/ txn'[i] # None /\ txn'[i].undo.previous = Stranger
                        \/ row[i] # None /\ row[i].origin = <<Stranger>>]_vars

\* A rolled back transaction leaves the place as it was when it began, unless
\* somebody else touched it meanwhile, whichever crashes and resumed attempts
\* lie between; a block put back after its removal may stand elsewhere in the
\* profile (rollback.rs 138-236).
UndoneAsBefore ==
  [][\A i \in Installations :
       FinishRollback(i) /\ history.before[i] # None =>
         LET before == history.before[i][1]
         IN  IF IsProfile /\ txn[i].op.does = "remove"
             THEN /\ TextsOf(place) = TextsOf(before) /\ BlocksOf(place) = BlocksOf(before)
                  /\ place.dir = before.dir
             ELSE place = before]_vars

\* Once no installation owns the resource and nobody else touched it, it is
\* as it was found: exactly, where one installation worked on it; where two
\* did, without a block and with every line, rule or value there was. Only a
\* link that a committed shortcut replaced does not come back
\* (resource/profile.rs 21-24, resource/environment.rs, plan.rs).
LeftAsFound ==
  (history.found # None /\ \A i \in Installations : row[i] = None /\ txn[i] = None) =>
    IF IsProfile /\ Cardinality(history.ran) > 1
    THEN TextsOf(place) = TextsOf(history.found[1]) /\ BlocksOf(place) = {}
    ELSE place = history.found[1]
=============================================================================
