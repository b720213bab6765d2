------------------------- MODULE Integrations_proofs -------------------------
(***************************************************************************)
(* For any products, packages, data and group size: data others gave the   *)
(* value is never lost (DataKept) and the product takes no PATH entry but  *)
(* its own while that is there (TakesItsOwn), where nobody writes what an  *)
(* operation is about to write; and, whoever writes when, a rolled back    *)
(* transaction leaves the machine as its plan found it (RollbackRestores)  *)
(* and a product that is gone leaves it as its first plan did              *)
(* (LeftAsFound), if nobody edited it meanwhile. The first invariant       *)
(* follows the value's operation from the plan to the commit or the undo;  *)
(* the second, Faithful, ties the machine to the snapshot the transaction  *)
(* was planned on, and that snapshot and the rows to the first one; the    *)
(* third, Claimed, follows whose the entry is that a row or an operation   *)
(* stands for.                                                             *)
(***************************************************************************)
EXTENDS Integrations, FiniteSetTheorems, TLAPS

K == kind["value"]
S == opState["value"]
W == undo["value"]

Planning == pc = "planned" \/ Open

\* Where the process is against the state of the transaction.
Control ==
  /\ pc \in {"down", "planned", "walk", "mutate", "rollback", "reverse", "undo"}
  /\ txnState \in {"none", "running", "committed", "rolling_back", "rolled_back",
                   "rollback_failed"}
  /\ pc = "planned" => ~Open
  /\ pc \in {"walk", "mutate"} => txnState = "running"
  /\ pc = "rollback" => Open
  /\ pc \in {"reverse", "undo"} => txnState = "rolling_back"
  /\ unit \subseteq Resources /\ todo \subseteq unit
  /\ pc \notin {"mutate", "undo"} => unit = {}

\* The value's row in the journal against the transaction and the walk.
Journalled ==
  /\ kind \in [Resources -> {"none", "keep", "put", "take"}]
  /\ opState \in [Resources -> {"planned", "applying", "applied",
                                "rolling_back", "rolled_back", "rollback_failed"}]
  /\ DOMAIN undo = Resources
  /\ ~Planning => K = "none"
  /\ ~Open => S = "planned" /\ W = None
  /\ txnState = "running" => S \in {"planned", "applying", "applied"}
  /\ K \in {"put", "take"} => (S = "planned" <=> W = None)
  /\ K \in {"none", "keep"} => S \in {"planned", "applied"}
  /\ pc = "mutate" /\ "value" \in unit => K \in {"put", "take"} /\ S = "applying"
  /\ pc = "undo" /\ "value" \in unit => K \in {"put", "take"} /\ S = "rolling_back"

\* The data the columns hold.
Typed ==
  /\ product \in Products
  /\ val \in Data \cup {Absent}
  /\ theirs \in Data \cup {Absent}
  /\ valRow \in Rows /\ (Owned => valRow.data \in PackageData)
  /\ W \in Data \cup {Absent, None}
  /\ purpose \in {"install", "repair", "uninstall"}

\* What the plan made of the ownership row.
Planned ==
  /\ valOp \in ValueOps
  /\ K # "none" => valOp.data \in PackageData
  /\ K = "take" => Owned /\ valOp = valRow
  /\ K = "put" => valOp.restore = IF Owned THEN valRow.restore ELSE None
  /\ K = "keep" => valOp.restore # None

\* Data others gave a package's own value to is what its row restores.
Adopted == theirs \in PackageData /\ Owned => valRow.restore = theirs

\* The value as a closed transaction leaves it: theirs, or written over what
\* the row restores.
Sound(x) == x = theirs \/ (Owned /\ x = valRow.data /\ valRow.restore = theirs)

\* The operation may have mutated the value.
Touched == K \in {"put", "take"} /\ S \notin {"planned", "rolled_back"}

\* Nobody else wrote the value since the undo record was taken ...
Untouched ==
  /\ Sound(W) /\ val \in {W, Written}
  /\ K = "take" => W = valOp.data
  /\ K = "put" /\ Owned /\ purpose # "repair" => W = valRow.data

\* ... or somebody did, and wrote what the undo will not mistake.
Overwritten ==
  /\ val = theirs /\ theirs \in UserData
  /\ theirs # Written \/ theirs = W

\* The operation has done what it will do.
Done ==
  IF K = "put" THEN val = theirs \/ (Untouched /\ val = Written) ELSE val = theirs

Tracked ==
  theirs # Absent =>
    /\ ~Touched => Sound(val)
    /\ Planning /\ K = "none" => val = theirs
    /\ Planning /\ K = "keep" =>
         /\ val = theirs \/ (val = valOp.data /\ valOp.restore = theirs)
         /\ theirs \in PackageData => valOp.restore = theirs
    /\ K = "put" /\ Owned /\ purpose # "repair" /\ S = "planned"
         /\ (pc = "planned" \/ txnState = "running") => val = valRow.data
    /\ K = "take" /\ S = "planned" => val = valOp.data \/ (val = theirs /\ theirs \in UserData)
    /\ Touched => Untouched \/ Overwritten
    /\ txnState = "running" /\ K = "put" /\ S = "applying" => Untouched
    /\ txnState = "running" /\ K \in {"put", "take"} /\ S = "applied" => Done
    /\ pc = "mutate" /\ "value" \in unit \ todo => Done
    /\ pc = "undo" /\ "value" \in unit \ todo => Sound(val)

IInv == Control /\ Journalled /\ Typed /\ Planned /\ Adopted /\ Tracked

----------------------------------------------------------------------------

USE IntegrationsAssumption

ValueState == <<product, val, theirs, valRow, kind, opState, undo, valOp, purpose, txnState>>

LEMMA InitInvariant == Init => IInv
  <1> SUFFICES ASSUME Init PROVE IInv OBVIOUS
  <1>1. K = "none" /\ S = "planned" /\ W = None
    BY DEF Init, K, S, W, NoPlan, NoUndo, Resources
  <1>2. ~Owned /\ ~Open /\ val \in Data \cup {Absent} BY DEF Init, Owned, Open
  <1>3. Control BY DEF Init, Control, Open
  <1>4. Journalled BY <1>1, <1>2 DEF Init, Journalled, NoPlan, NoUndo, Resources
  <1>5. Typed BY <1>1, <1>2 DEF Init, Typed, Rows
  <1>6. Planned BY <1>1 DEF Init, Planned, NoOp, ValueOps
  <1>7. Adopted BY <1>2 DEF Adopted
  <1>8. Tracked BY <1>1, <1>2 DEF Init, Tracked, Touched, Sound, Planning
  <1> QED BY <1>3, <1>4, <1>5, <1>6, <1>7, <1>8 DEF IInv

\* A step that leaves the value, its row and its operation alone.
LEMMA ValueLeftAlone ==
  ASSUME IInv, UNCHANGED <<ValueState, pc, unit>>, todo' \subseteq todo,
         "value" \in todo' <=> "value" \in todo
  PROVE  IInv'
  <1>1. K' = K /\ S' = S /\ W' = W /\ Owned' = Owned /\ Open' = Open /\ Planning' = Planning
    BY DEF ValueState, K, S, W, Owned, Open, Planning
  <1>2. Control' /\ Journalled' /\ Typed' /\ Planned' /\ Adopted'
    BY <1>1 DEF IInv, ValueState, Control, Journalled, Typed, Planned, Adopted, Open
  <1>3. Written' = Written /\ Touched' = Touched /\ Overwritten' = Overwritten
    BY <1>1 DEF ValueState, Written, Touched, Overwritten
  <1>4. \A x : Sound(x)' <=> Sound(x) BY <1>1 DEF ValueState, Sound
  <1>5. Untouched' = Untouched BY <1>1, <1>3 DEF ValueState, Untouched, Sound
  <1>6. Done' = Done BY <1>1, <1>3, <1>5 DEF ValueState, Done
  <1>7. Tracked' BY <1>1, <1>3, <1>5, <1>6 DEF IInv, ValueState, Tracked, Sound
  <1> QED BY <1>2, <1>7 DEF IInv

\* The plan becomes the journal.
LEMMA BeginStep ==
  ASSUME IInv, Begin
  PROVE  IInv'
  <1>1. /\ txnState' = "running"
        /\ pc' = "walk"
        /\ UNCHANGED <<product, val, theirs, valRow, valOp, purpose, unit, todo>>
    BY DEF Begin, rows, journal, process, machine, history, Resources
  <1>2. Written = (IF K = "put" THEN valOp.data ELSE valOp.restore)
        /\ Written' = (IF K' = "put" THEN valOp'.data ELSE valOp'.restore)
    BY DEF Written, K
  <1>3. pc = "planned" /\ K' = K /\ W' = W BY DEF Begin, K, W
  <1>4. S' = IF K = "keep" THEN "applied" ELSE "planned" BY DEF Begin, K, S, Resources
  <1>5. Control' BY <1>1, <1>2, <1>3, <1>4 DEF IInv, Control, Open, Journalled
  <1>6. kind' \in [Resources -> {"none", "keep", "put", "take"}] /\ DOMAIN undo' = Resources
        /\ opState' \in [Resources -> {"planned", "applying", "applied",
                                       "rolling_back", "rolled_back", "rollback_failed"}]
    BY DEF IInv, Journalled, Begin, rows, journal, process, machine, history, Resources
  <1>7. Journalled'
    BY <1>1, <1>2, <1>3, <1>4, <1>6 DEF IInv, Control, Journalled, Planning, Open, Typed
  <1>8. Typed'
     BY <1>1, <1>2, <1>3, <1>4 DEF IInv, Control, Journalled, Planning, Open, Typed,
       Planned, Rows, ValueOps, Data, NoOp, Owned
  <1>9. Planned'
     BY <1>1, <1>2, <1>3, <1>4 DEF IInv, Control, Journalled, Planning, Planned, ValueOps,
       NoOp, Owned
  <1>10. Adopted'
     BY <1>1, <1>2, <1>3, <1>4 DEF IInv, Control, Journalled, Planning, Typed, Planned,
       Adopted, Owned, Data
  <1>11. Tracked'
     BY <1>1, <1>2, <1>3, <1>4 DEF IInv, Control, Journalled, Typed, Planned, Adopted,
       Tracked, Sound, Untouched,
                  Overwritten, Done, Touched, Planning, Owned, Open
  <1> QED BY <1>5, <1>7, <1>8, <1>9, <1>10, <1>11 DEF IInv

\* The undo record is taken as the value stands.
LEMMA StartGroupStep ==
  ASSUME IInv, StartGroup
  PROVE  IInv'
  <1>1. /\ pc' = "mutate"
        /\ unit' = NextGroup
        /\ todo' = NextGroup
        /\ UNCHANGED <<product, val, theirs, valRow, valOp, purpose, txnState>>
    BY DEF StartGroup, rows, journal, process, machine, history, Resources
  <1>2. Written = (IF K = "put" THEN valOp.data ELSE valOp.restore)
        /\ Written' = (IF K' = "put" THEN valOp'.data ELSE valOp'.restore)
    BY DEF Written, K
  <1>3. pc = "walk" /\ K' = K BY DEF StartGroup, K
  <1>4. /\ S' = IF "value" \in NextGroup THEN "applying" ELSE S
        /\ W' = IF "value" \in NextGroup /\ S = "planned" THEN val ELSE W
    BY DEF StartGroup, Marked, Unprepared, Found, S, W, Resources
  <1>5. /\ NextGroup \subseteq Resources
        /\ "value" \in NextGroup => K \in {"put", "take"} /\ S \in {"planned", "applying"}
    BY DEF NextGroup, Pending, Operations, K, S
  <1>6. Control' BY <1>1, <1>2, <1>3, <1>4, <1>5 DEF IInv, Control, Open, Journalled
  <1>7. kind' \in [Resources -> {"none", "keep", "put", "take"}] /\ DOMAIN undo' = Resources
        /\ opState' \in [Resources -> {"planned", "applying", "applied",
                                       "rolling_back", "rolled_back", "rollback_failed"}]
     BY DEF IInv, Journalled, StartGroup, Marked, rows, journal, process, machine, history,
       Resources
  <1>8. Journalled'
     BY <1>1, <1>2, <1>3, <1>4, <1>5, <1>7 DEF IInv, Control, Journalled, Planning, Open,
       Typed
  <1>9. Typed'
     BY <1>1, <1>2, <1>3, <1>4, <1>5 DEF IInv, Control, Journalled, Planning, Open, Typed,
       Planned, Rows, ValueOps, Data, NoOp, Owned
  <1>10. Planned'
     BY <1>1, <1>2, <1>3, <1>4, <1>5 DEF IInv, Control, Journalled, Planning, Planned,
       ValueOps, NoOp, Owned
  <1>11. Adopted'
     BY <1>1, <1>2, <1>3, <1>4, <1>5 DEF IInv, Control, Journalled, Planning, Typed,
       Planned, Adopted, Owned, Data
  <1>12. Tracked'
     BY <1>1, <1>2, <1>3, <1>4, <1>5 DEF IInv, Control, Journalled, Typed, Planned, Adopted,
       Tracked, Sound, Untouched,
                  Overwritten, Done, Touched, Planning, Owned, Open
  <1> QED BY <1>6, <1>8, <1>9, <1>10, <1>11, <1>12 DEF IInv

\* The write leaves what the undo recognises as its own.
LEMMA SetValueStep ==
  ASSUME IInv, SetRegistryValue
  PROVE  IInv'
  <1>1. /\ val' = valOp.data
        /\ todo' = todo \ {"value"}
        /\ UNCHANGED <<product, theirs, valRow, valOp, purpose, txnState, pc, unit>>
     BY DEF SetRegistryValue, Mutating, Walked, rows, journal, process, machine, history,
       Resources
  <1>2. Written = (IF K = "put" THEN valOp.data ELSE valOp.restore)
        /\ Written' = (IF K' = "put" THEN valOp'.data ELSE valOp'.restore)
    BY DEF Written, K
  <1>3. pc = "mutate" /\ "value" \in todo /\ K = "put"
    BY DEF SetRegistryValue, Mutating, FirstOf, K
  <1>4. K' = K /\ S' = S /\ W' = W BY DEF SetRegistryValue, Walked, K, S, W, journal
  <1>5. Control' BY <1>1, <1>2, <1>3, <1>4 DEF IInv, Control, Open, Journalled
  <1>6. kind' \in [Resources -> {"none", "keep", "put", "take"}] /\ DOMAIN undo' = Resources
        /\ opState' \in [Resources -> {"planned", "applying", "applied",
                                       "rolling_back", "rolled_back", "rollback_failed"}]
     BY DEF IInv, Journalled, SetRegistryValue, Mutating, Walked, rows, journal, process,
       machine, history, Resources
  <1>7. Journalled'
    BY <1>1, <1>2, <1>3, <1>4, <1>6 DEF IInv, Control, Journalled, Planning, Open, Typed
  <1>8. Typed'
     BY <1>1, <1>2, <1>3, <1>4 DEF IInv, Control, Journalled, Planning, Open, Typed,
       Planned, Rows, ValueOps, Data, NoOp, Owned
  <1>9. Planned'
     BY <1>1, <1>2, <1>3, <1>4 DEF IInv, Control, Journalled, Planning, Planned, ValueOps,
       NoOp, Owned
  <1>10. Adopted'
     BY <1>1, <1>2, <1>3, <1>4 DEF IInv, Control, Journalled, Planning, Typed, Planned,
       Adopted, Owned, Data
  <1>11. Tracked'
     BY <1>1, <1>2, <1>3, <1>4 DEF IInv, Control, Journalled, Typed, Planned, Adopted,
       Tracked, Sound, Untouched,
                  Overwritten, Done, Touched, Planning, Owned, Open
  <1> QED BY <1>5, <1>7, <1>8, <1>9, <1>10, <1>11 DEF IInv

\* A removal puts back what the row restores, or finds theirs.
LEMMA RemoveValueStep ==
  ASSUME IInv, RemoveRegistryValue
  PROVE  IInv'
  <1>1. /\ val' = Taken
        /\ todo' = todo \ {"value"}
        /\ UNCHANGED <<product, theirs, valRow, valOp, purpose, txnState, pc, unit>>
     BY DEF RemoveRegistryValue, Mutating, Walked, rows, journal, process, machine, history,
       Resources
  <1>2. Written = (IF K = "put" THEN valOp.data ELSE valOp.restore)
        /\ Written' = (IF K' = "put" THEN valOp'.data ELSE valOp'.restore)
    BY DEF Written, K
  <1>3. pc = "mutate" /\ "value" \in todo /\ K = "take"
    BY DEF RemoveRegistryValue, Mutating, FirstOf, K
  <1>4. K' = K /\ S' = S /\ W' = W BY DEF RemoveRegistryValue, Walked, K, S, W, journal
  <1>5. Taken = IF val = valOp.data THEN valOp.restore ELSE val BY DEF Taken
  <1>6. Control' BY <1>1, <1>2, <1>3, <1>4, <1>5 DEF IInv, Control, Open, Journalled
  <1>7. kind' \in [Resources -> {"none", "keep", "put", "take"}] /\ DOMAIN undo' = Resources
        /\ opState' \in [Resources -> {"planned", "applying", "applied",
                                       "rolling_back", "rolled_back", "rollback_failed"}]
     BY DEF IInv, Journalled, RemoveRegistryValue, Mutating, Walked, rows, journal, process,
       machine, history, Resources
  <1>8. Journalled'
     BY <1>1, <1>2, <1>3, <1>4, <1>5, <1>7 DEF IInv, Control, Journalled, Planning, Open,
       Typed
  <1>9. Typed'
     BY <1>1, <1>2, <1>3, <1>4, <1>5 DEF IInv, Control, Journalled, Planning, Open, Typed,
       Planned, Rows, ValueOps, Data, NoOp, Owned
  <1>10. Planned'
     BY <1>1, <1>2, <1>3, <1>4, <1>5 DEF IInv, Control, Journalled, Planning, Planned,
       ValueOps, NoOp, Owned
  <1>11. Adopted'
     BY <1>1, <1>2, <1>3, <1>4, <1>5 DEF IInv, Control, Journalled, Planning, Typed,
       Planned, Adopted, Owned, Data
  <1>12. Tracked'
     BY <1>1, <1>2, <1>3, <1>4, <1>5 DEF IInv, Control, Journalled, Typed, Planned, Adopted,
       Tracked, Sound, Untouched,
                  Overwritten, Done, Touched, Planning, Owned, Open
  <1> QED BY <1>6, <1>8, <1>9, <1>10, <1>11, <1>12 DEF IInv

\* The group was walked to its end.
LEMMA FinishGroupStep ==
  ASSUME IInv, FinishGroup
  PROVE  IInv'
  <1>1. /\ pc' = "walk"
        /\ unit' = {}
        /\ UNCHANGED <<product, val, theirs, valRow, valOp, purpose, txnState, todo>>
    BY DEF FinishGroup, Marked, rows, journal, process, machine, history, Resources
  <1>2. Written = (IF K = "put" THEN valOp.data ELSE valOp.restore)
        /\ Written' = (IF K' = "put" THEN valOp'.data ELSE valOp'.restore)
    BY DEF Written, K
  <1>3. pc = "mutate" /\ todo = {} /\ K' = K /\ W' = W BY DEF FinishGroup, K, W
  <1>4. S' = IF "value" \in unit THEN "applied" ELSE S
    BY DEF FinishGroup, Marked, S, Resources
  <1>5. Control' BY <1>1, <1>2, <1>3, <1>4 DEF IInv, Control, Open, Journalled
  <1>6. kind' \in [Resources -> {"none", "keep", "put", "take"}] /\ DOMAIN undo' = Resources
        /\ opState' \in [Resources -> {"planned", "applying", "applied",
                                       "rolling_back", "rolled_back", "rollback_failed"}]
     BY DEF IInv, Journalled, FinishGroup, Marked, rows, journal, process, machine, history,
       Resources
  <1>7. Journalled'
    BY <1>1, <1>2, <1>3, <1>4, <1>6 DEF IInv, Control, Journalled, Planning, Open, Typed
  <1>8. Typed'
     BY <1>1, <1>2, <1>3, <1>4 DEF IInv, Control, Journalled, Planning, Open, Typed,
       Planned, Rows, ValueOps, Data, NoOp, Owned
  <1>9. Planned'
     BY <1>1, <1>2, <1>3, <1>4 DEF IInv, Control, Journalled, Planning, Planned, ValueOps,
       NoOp, Owned
  <1>10. Adopted'
     BY <1>1, <1>2, <1>3, <1>4 DEF IInv, Control, Journalled, Planning, Typed, Planned,
       Adopted, Owned, Data
  <1>11. Tracked'
     BY <1>1, <1>2, <1>3, <1>4 DEF IInv, Control, Journalled, Typed, Planned, Adopted,
       Tracked, Sound, Untouched,
                  Overwritten, Done, Touched, Planning, Owned, Open
  <1> QED BY <1>5, <1>7, <1>8, <1>9, <1>10, <1>11 DEF IInv

\* The walk is left.
LEMMA FailForwardStep ==
  ASSUME IInv, FailForward
  PROVE  IInv'
  <1>1. /\ pc' = "rollback"
        /\ unit' = {}
        /\ todo' = {}
        /\ UNCHANGED <<product, val, theirs, valRow, valOp, purpose, txnState>>
    BY DEF FailForward, rows, journal, process, machine, history, Resources
  <1>2. Written = (IF K = "put" THEN valOp.data ELSE valOp.restore)
        /\ Written' = (IF K' = "put" THEN valOp'.data ELSE valOp'.restore)
    BY DEF Written, K
  <1>3. pc \in {"walk", "mutate"} BY DEF FailForward
  <1>4. K' = K /\ S' = S /\ W' = W BY DEF FailForward, K, S, W, journal
  <1>5. Control' BY <1>1, <1>2, <1>3, <1>4 DEF IInv, Control, Open, Journalled
  <1>6. kind' \in [Resources -> {"none", "keep", "put", "take"}] /\ DOMAIN undo' = Resources
        /\ opState' \in [Resources -> {"planned", "applying", "applied",
                                       "rolling_back", "rolled_back", "rollback_failed"}]
     BY DEF IInv, Journalled, FailForward, rows, journal, process, machine, history,
       Resources
  <1>7. Journalled'
    BY <1>1, <1>2, <1>3, <1>4, <1>6 DEF IInv, Control, Journalled, Planning, Open, Typed
  <1>8. Typed'
     BY <1>1, <1>2, <1>3, <1>4 DEF IInv, Control, Journalled, Planning, Open, Typed,
       Planned, Rows, ValueOps, Data, NoOp, Owned
  <1>9. Planned'
     BY <1>1, <1>2, <1>3, <1>4 DEF IInv, Control, Journalled, Planning, Planned, ValueOps,
       NoOp, Owned
  <1>10. Adopted'
     BY <1>1, <1>2, <1>3, <1>4 DEF IInv, Control, Journalled, Planning, Typed, Planned,
       Adopted, Owned, Data
  <1>11. Tracked'
     BY <1>1, <1>2, <1>3, <1>4 DEF IInv, Control, Journalled, Typed, Planned, Adopted,
       Tracked, Sound, Untouched,
                  Overwritten, Done, Touched, Planning, Owned, Open
  <1> QED BY <1>5, <1>7, <1>8, <1>9, <1>10, <1>11 DEF IInv

\* The rollback is announced.
LEMMA BeginRollbackStep ==
  ASSUME IInv, BeginRollback
  PROVE  IInv'
  <1>1. /\ txnState' = "rolling_back"
        /\ pc' = "reverse"
        /\ UNCHANGED <<product, val, theirs, valRow, valOp, purpose, unit, todo>>
    BY DEF BeginRollback, rows, journal, process, machine, history, Resources
  <1>2. Written = (IF K = "put" THEN valOp.data ELSE valOp.restore)
        /\ Written' = (IF K' = "put" THEN valOp'.data ELSE valOp'.restore)
    BY DEF Written, K
  <1>3. pc = "rollback" BY DEF BeginRollback
  <1>4. K' = K /\ S' = S /\ W' = W BY DEF BeginRollback, K, S, W, journal
  <1>5. Control' BY <1>1, <1>2, <1>3, <1>4 DEF IInv, Control, Open, Journalled
  <1>6. kind' \in [Resources -> {"none", "keep", "put", "take"}] /\ DOMAIN undo' = Resources
        /\ opState' \in [Resources -> {"planned", "applying", "applied",
                                       "rolling_back", "rolled_back", "rollback_failed"}]
     BY DEF IInv, Journalled, BeginRollback, rows, journal, process, machine, history,
       Resources
  <1>7. Journalled'
    BY <1>1, <1>2, <1>3, <1>4, <1>6 DEF IInv, Control, Journalled, Planning, Open, Typed
  <1>8. Typed'
     BY <1>1, <1>2, <1>3, <1>4 DEF IInv, Control, Journalled, Planning, Open, Typed,
       Planned, Rows, ValueOps, Data, NoOp, Owned
  <1>9. Planned'
     BY <1>1, <1>2, <1>3, <1>4 DEF IInv, Control, Journalled, Planning, Planned, ValueOps,
       NoOp, Owned
  <1>10. Adopted'
     BY <1>1, <1>2, <1>3, <1>4 DEF IInv, Control, Journalled, Planning, Typed, Planned,
       Adopted, Owned, Data
  <1>11. Tracked'
     BY <1>1, <1>2, <1>3, <1>4 DEF IInv, Control, Journalled, Typed, Planned, Adopted,
       Tracked, Sound, Untouched,
                  Overwritten, Done, Touched, Planning, Owned, Open
  <1> QED BY <1>5, <1>7, <1>8, <1>9, <1>10, <1>11 DEF IInv

\* One operation is about to be undone.
LEMMA StartUnitStep ==
  ASSUME IInv, NEW r \in Resources, StartUnit(r)
  PROVE  IInv'
  <1>1. /\ pc' = "undo"
        /\ unit' = {r}
        /\ todo' = {r}
        /\ UNCHANGED <<product, val, theirs, valRow, valOp, purpose, txnState>>
    BY DEF StartUnit, Marked, rows, journal, process, machine, history, Resources
  <1>2. Written = (IF K = "put" THEN valOp.data ELSE valOp.restore)
        /\ Written' = (IF K' = "put" THEN valOp'.data ELSE valOp'.restore)
    BY DEF Written, K
  <1>3. pc = "reverse" /\ K' = K /\ W' = W BY DEF StartUnit, K, W
  <1>4. S' = IF r = "value" THEN "rolling_back" ELSE S
    BY DEF StartUnit, Marked, S, Resources
  <1>5. r = "value" => K \in {"put", "take"} /\ S \notin {"planned", "rolled_back"}
    BY DEF StartUnit, LastOf, Undoable, Operations, K, S
  <1>6. Control' BY <1>1, <1>2, <1>3, <1>4, <1>5 DEF IInv, Control, Open, Journalled
  <1>7. kind' \in [Resources -> {"none", "keep", "put", "take"}] /\ DOMAIN undo' = Resources
        /\ opState' \in [Resources -> {"planned", "applying", "applied",
                                       "rolling_back", "rolled_back", "rollback_failed"}]
     BY DEF IInv, Journalled, StartUnit, Marked, rows, journal, process, machine, history,
       Resources
  <1>8. Journalled'
     BY <1>1, <1>2, <1>3, <1>4, <1>5, <1>7 DEF IInv, Control, Journalled, Planning, Open,
       Typed
  <1>9. Typed'
     BY <1>1, <1>2, <1>3, <1>4, <1>5 DEF IInv, Control, Journalled, Planning, Open, Typed,
       Planned, Rows, ValueOps, Data, NoOp, Owned
  <1>10. Planned'
     BY <1>1, <1>2, <1>3, <1>4, <1>5 DEF IInv, Control, Journalled, Planning, Planned,
       ValueOps, NoOp, Owned
  <1>11. Adopted'
     BY <1>1, <1>2, <1>3, <1>4, <1>5 DEF IInv, Control, Journalled, Planning, Typed,
       Planned, Adopted, Owned, Data
  <1>12. Tracked'
     BY <1>1, <1>2, <1>3, <1>4, <1>5 DEF IInv, Control, Journalled, Typed, Planned, Adopted,
       Tracked, Sound, Untouched,
                  Overwritten, Done, Touched, Planning, Owned, Open
  <1> QED BY <1>6, <1>8, <1>9, <1>10, <1>11, <1>12 DEF IInv

\* The undo brings back what was sound, or leaves theirs.
LEMMA UndoValueStep ==
  ASSUME IInv, UndoValue
  PROVE  IInv'
  <1>1. /\ val' = Restored
        /\ todo' = todo \ {"value"}
        /\ UNCHANGED <<product, theirs, valRow, valOp, purpose, txnState, pc, unit>>
    BY DEF UndoValue, Undoing, Walked, rows, journal, process, machine, history, Resources
  <1>2. Written = (IF K = "put" THEN valOp.data ELSE valOp.restore)
        /\ Written' = (IF K' = "put" THEN valOp'.data ELSE valOp'.restore)
    BY DEF Written, K
  <1>3. pc = "undo" /\ "value" \in todo BY DEF UndoValue, Undoing
  <1>4. K' = K /\ S' = S /\ W' = W BY DEF UndoValue, Walked, K, S, W, journal
  <1>5. Restored = IF val \in {Absent, Written} THEN W ELSE val BY DEF Restored, W
  <1>6. Control' BY <1>1, <1>2, <1>3, <1>4, <1>5 DEF IInv, Control, Open, Journalled
  <1>7. kind' \in [Resources -> {"none", "keep", "put", "take"}] /\ DOMAIN undo' = Resources
        /\ opState' \in [Resources -> {"planned", "applying", "applied",
                                       "rolling_back", "rolled_back", "rollback_failed"}]
     BY DEF IInv, Journalled, UndoValue, Undoing, Walked, rows, journal, process, machine,
       history, Resources
  <1>8. Journalled'
     BY <1>1, <1>2, <1>3, <1>4, <1>5, <1>7 DEF IInv, Control, Journalled, Planning, Open,
       Typed
  <1>9. Typed'
     BY <1>1, <1>2, <1>3, <1>4, <1>5 DEF IInv, Control, Journalled, Planning, Open, Typed,
       Planned, Rows, ValueOps, Data, NoOp, Owned
  <1>10. Planned'
     BY <1>1, <1>2, <1>3, <1>4, <1>5 DEF IInv, Control, Journalled, Planning, Planned,
       ValueOps, NoOp, Owned
  <1>11. Adopted'
     BY <1>1, <1>2, <1>3, <1>4, <1>5 DEF IInv, Control, Journalled, Planning, Typed,
       Planned, Adopted, Owned, Data
  <1>12. Tracked'
     BY <1>1, <1>2, <1>3, <1>4, <1>5 DEF IInv, Control, Journalled, Typed, Planned, Adopted,
       Tracked, Sound, Untouched,
                  Overwritten, Done, Touched, Planning, Owned, Open
  <1> QED BY <1>6, <1>8, <1>9, <1>10, <1>11, <1>12 DEF IInv

\* The unit was undone.
LEMMA FinishUnitStep ==
  ASSUME IInv, FinishUnit
  PROVE  IInv'
  <1>1. /\ pc' = "reverse"
        /\ unit' = {}
        /\ UNCHANGED <<product, val, theirs, valRow, valOp, purpose, txnState, todo>>
    BY DEF FinishUnit, Marked, rows, journal, process, machine, history, Resources
  <1>2. Written = (IF K = "put" THEN valOp.data ELSE valOp.restore)
        /\ Written' = (IF K' = "put" THEN valOp'.data ELSE valOp'.restore)
    BY DEF Written, K
  <1>3. pc = "undo" /\ todo = {} /\ K' = K /\ W' = W BY DEF FinishUnit, K, W
  <1>4. S' = IF "value" \in unit THEN "rolled_back" ELSE S
    BY DEF FinishUnit, Marked, S, Resources
  <1>5. Control' BY <1>1, <1>2, <1>3, <1>4 DEF IInv, Control, Open, Journalled
  <1>6. kind' \in [Resources -> {"none", "keep", "put", "take"}] /\ DOMAIN undo' = Resources
        /\ opState' \in [Resources -> {"planned", "applying", "applied",
                                       "rolling_back", "rolled_back", "rollback_failed"}]
     BY DEF IInv, Journalled, FinishUnit, Marked, rows, journal, process, machine, history,
       Resources
  <1>7. Journalled'
    BY <1>1, <1>2, <1>3, <1>4, <1>6 DEF IInv, Control, Journalled, Planning, Open, Typed
  <1>8. Typed'
     BY <1>1, <1>2, <1>3, <1>4 DEF IInv, Control, Journalled, Planning, Open, Typed,
       Planned, Rows, ValueOps, Data, NoOp, Owned
  <1>9. Planned'
     BY <1>1, <1>2, <1>3, <1>4 DEF IInv, Control, Journalled, Planning, Planned, ValueOps,
       NoOp, Owned
  <1>10. Adopted'
     BY <1>1, <1>2, <1>3, <1>4 DEF IInv, Control, Journalled, Planning, Typed, Planned,
       Adopted, Owned, Data
  <1>11. Tracked'
     BY <1>1, <1>2, <1>3, <1>4 DEF IInv, Control, Journalled, Typed, Planned, Adopted,
       Tracked, Sound, Untouched,
                  Overwritten, Done, Touched, Planning, Owned, Open
  <1> QED BY <1>5, <1>7, <1>8, <1>9, <1>10, <1>11 DEF IInv

\* An undo fails and stops the rollback.
LEMMA UndoErrorStep ==
  ASSUME IInv, NEW r \in Resources, UndoError(r)
  PROVE  IInv'
  <1>1. /\ txnState' = "rollback_failed"
        /\ pc' = "down"
        /\ unit' = {}
        /\ todo' = {}
        /\ UNCHANGED <<product, val, theirs, valRow, valOp, purpose>>
    BY DEF UndoError, Marked, rows, journal, process, machine, history, Resources
  <1>2. Written = (IF K = "put" THEN valOp.data ELSE valOp.restore)
        /\ Written' = (IF K' = "put" THEN valOp'.data ELSE valOp'.restore)
    BY DEF Written, K
  <1>3. pc = "undo" /\ r \in todo /\ K' = K /\ W' = W BY DEF UndoError, Undoing, K, W
  <1>4. S' = IF r = "value" THEN "rollback_failed" ELSE S
    BY DEF UndoError, Marked, S, Resources
  <1>5. Control' BY <1>1, <1>2, <1>3, <1>4 DEF IInv, Control, Open, Journalled
  <1>6. kind' \in [Resources -> {"none", "keep", "put", "take"}] /\ DOMAIN undo' = Resources
        /\ opState' \in [Resources -> {"planned", "applying", "applied",
                                       "rolling_back", "rolled_back", "rollback_failed"}]
     BY DEF IInv, Journalled, UndoError, Marked, rows, journal, process, machine, history,
       Resources
  <1>7. Journalled'
    BY <1>1, <1>2, <1>3, <1>4, <1>6 DEF IInv, Control, Journalled, Planning, Open, Typed
  <1>8. Typed'
     BY <1>1, <1>2, <1>3, <1>4 DEF IInv, Control, Journalled, Planning, Open, Typed,
       Planned, Rows, ValueOps, Data, NoOp, Owned
  <1>9. Planned'
     BY <1>1, <1>2, <1>3, <1>4 DEF IInv, Control, Journalled, Planning, Planned, ValueOps,
       NoOp, Owned
  <1>10. Adopted'
     BY <1>1, <1>2, <1>3, <1>4 DEF IInv, Control, Journalled, Planning, Typed, Planned,
       Adopted, Owned, Data
  <1>11. Tracked'
     BY <1>1, <1>2, <1>3, <1>4 DEF IInv, Control, Journalled, Typed, Planned, Adopted,
       Tracked, Sound, Untouched,
                  Overwritten, Done, Touched, Planning, Owned, Open
  <1> QED BY <1>5, <1>7, <1>8, <1>9, <1>10, <1>11 DEF IInv

\* Nothing is left to undo.
LEMMA FinishRollbackStep ==
  ASSUME IInv, FinishRollback
  PROVE  IInv'
  <1>1. /\ valOp' = NoOp
        /\ purpose' = "install"
        /\ txnState' = "rolled_back"
        /\ pc' = "down"
        /\ UNCHANGED <<product, val, theirs, valRow, unit, todo>>
     BY DEF FinishRollback, Closed, NoPlan, NoUndo, rows, journal, process, machine,
       history, Resources
  <1>2. Written = (IF K = "put" THEN valOp.data ELSE valOp.restore)
        /\ Written' = (IF K' = "put" THEN valOp'.data ELSE valOp'.restore)
    BY DEF Written, K
  <1>3. pc = "reverse" BY DEF FinishRollback
  <1>4. K' = "none" /\ S' = "planned" /\ W' = None
    BY DEF FinishRollback, Closed, NoPlan, NoUndo, K, S, W, Resources
  <1>5. K \in {"put", "take"} => S \in {"planned", "rolled_back"}
    BY DEF FinishRollback, Undoable, Operations, K, S, Resources
  <1>6. Control' BY <1>1, <1>2, <1>3, <1>4, <1>5 DEF IInv, Control, Open, Journalled
  <1>7. kind' \in [Resources -> {"none", "keep", "put", "take"}] /\ DOMAIN undo' = Resources
        /\ opState' \in [Resources -> {"planned", "applying", "applied",
                                       "rolling_back", "rolled_back", "rollback_failed"}]
     BY DEF IInv, Journalled, FinishRollback, Closed, NoPlan, NoUndo, rows, journal,
       process, machine, history, Resources
  <1>8. Journalled'
     BY <1>1, <1>2, <1>3, <1>4, <1>5, <1>7 DEF IInv, Control, Journalled, Planning, Open,
       Typed
  <1>9. Typed'
     BY <1>1, <1>2, <1>3, <1>4, <1>5 DEF IInv, Control, Journalled, Planning, Open, Typed,
       Planned, Rows, ValueOps, Data, NoOp, Owned
  <1>10. Planned'
     BY <1>1, <1>2, <1>3, <1>4, <1>5 DEF IInv, Control, Journalled, Planning, Planned,
       ValueOps, NoOp, Owned
  <1>11. Adopted'
     BY <1>1, <1>2, <1>3, <1>4, <1>5 DEF IInv, Control, Journalled, Planning, Typed,
       Planned, Adopted, Owned, Data
  <1>12. Tracked'
     BY <1>1, <1>2, <1>3, <1>4, <1>5 DEF IInv, Control, Journalled, Typed, Planned, Adopted,
       Tracked, Sound, Untouched,
                  Overwritten, Done, Touched, Planning, Owned, Open
  <1> QED BY <1>6, <1>8, <1>9, <1>10, <1>11, <1>12 DEF IInv

\* The next run takes the transaction up.
LEMMA RecoverStep ==
  ASSUME IInv, Recover
  PROVE  IInv'
  <1>1. UNCHANGED <<product, val, theirs, valRow, valOp, purpose, txnState, unit, todo>>
    BY DEF Recover, rows, journal, process, machine, history, Resources
  <1>2. Written = (IF K = "put" THEN valOp.data ELSE valOp.restore)
        /\ Written' = (IF K' = "put" THEN valOp'.data ELSE valOp'.restore)
    BY DEF Written, K
  <1>3. pc = "down" /\ Open /\ (pc' = "rollback" \/ (pc' = "walk" /\ txnState = "running"))
    BY DEF Recover
  <1>4. K' = K /\ S' = S /\ W' = W BY DEF Recover, K, S, W, journal
  <1>5. Control' BY <1>1, <1>2, <1>3, <1>4 DEF IInv, Control, Open, Journalled
  <1>6. kind' \in [Resources -> {"none", "keep", "put", "take"}] /\ DOMAIN undo' = Resources
        /\ opState' \in [Resources -> {"planned", "applying", "applied",
                                       "rolling_back", "rolled_back", "rollback_failed"}]
    BY DEF IInv, Journalled, Recover, rows, journal, process, machine, history, Resources
  <1>7. Journalled'
    BY <1>1, <1>2, <1>3, <1>4, <1>6 DEF IInv, Control, Journalled, Planning, Open, Typed
  <1>8. Typed'
     BY <1>1, <1>2, <1>3, <1>4 DEF IInv, Control, Journalled, Planning, Open, Typed,
       Planned, Rows, ValueOps, Data, NoOp, Owned
  <1>9. Planned'
     BY <1>1, <1>2, <1>3, <1>4 DEF IInv, Control, Journalled, Planning, Planned, ValueOps,
       NoOp, Owned
  <1>10. Adopted'
     BY <1>1, <1>2, <1>3, <1>4 DEF IInv, Control, Journalled, Planning, Typed, Planned,
       Adopted, Owned, Data
  <1>11. Tracked'
     BY <1>1, <1>2, <1>3, <1>4 DEF IInv, Control, Journalled, Typed, Planned, Adopted,
       Tracked, Sound, Untouched,
                  Overwritten, Done, Touched, Planning, Owned, Open
  <1> QED BY <1>5, <1>7, <1>8, <1>9, <1>10, <1>11 DEF IInv

\* The rows are rewritten from the operations.
LEMMA CommitStep ==
  ASSUME IInv, Commit
  PROVE  IInv'
  <1>1. /\ theirs' = IF purpose = "repair" /\ theirs \notin {val, valRow'.restore} THEN Absent ELSE theirs
        /\ valRow' = IF K \in {"put", "keep"} THEN [data |-> valOp.data, restore |-> PreInstallation] ELSE NoOp
        /\ valOp' = NoOp
        /\ purpose' = "install"
        /\ txnState' = "committed"
        /\ pc' = "down"
        /\ UNCHANGED <<product, val, unit, todo>>
     BY DEF ValueRecorded, K, Commit, Closed, NoPlan, NoUndo, rows, journal, process,
       machine, history, Resources
  <1>2. Written = (IF K = "put" THEN valOp.data ELSE valOp.restore)
        /\ Written' = (IF K' = "put" THEN valOp'.data ELSE valOp'.restore)
    BY DEF Written, K
  <1>3. pc = "walk" BY DEF Commit
  <1>4. K' = "none" /\ S' = "planned" /\ W' = None
    BY DEF Commit, Closed, NoPlan, NoUndo, K, S, W, Resources
  <1>5. K \in {"put", "take"} => S = "applied"
    BY DEF IInv, Control, Journalled, Commit, Pending, Operations, K, S, Resources
  <1>6. PreInstallation = IF valOp.restore = None THEN W ELSE valOp.restore
    BY DEF PreInstallation, W
  <1>7. theirs' # Absent => theirs' = theirs BY <1>1
  <1>8. K \in {"none", "take"} /\ theirs # Absent => val = theirs
    BY <1>3, <1>5 DEF IInv, Control, Journalled, Tracked, Done, Planning, Open
  <1>9. K = "keep" /\ theirs # Absent =>
        /\ val = theirs \/ (val = valOp.data /\ PreInstallation = theirs)
        /\ theirs \in PackageData => PreInstallation = theirs
    BY <1>3, <1>6 DEF IInv, Control, Tracked, Planned, Planning, Open
  <1>10. K = "put" /\ theirs # Absent =>
         /\ val = theirs \/ (Untouched /\ val = valOp.data)
         /\ theirs \in PackageData => Untouched
    BY <1>2, <1>3, <1>5 DEF IInv, Control, Tracked, Done, Touched, Overwritten
  <1>11. K = "put" /\ theirs # Absent /\ Untouched /\ theirs \in PackageData => PreInstallation = theirs
    BY <1>6 DEF IInv, Typed, Planned, Adopted, Untouched, Sound, Data
  <1>12. K = "put" /\ theirs # Absent /\ Untouched /\ purpose # "repair" => PreInstallation = theirs
    BY <1>6, <1>11 DEF IInv, Typed, Planned, Adopted, Untouched, Sound, Rows, Data
  <1>13. K = "put" /\ theirs # Absent /\ theirs' = theirs => val = theirs \/ (val = valOp.data /\ PreInstallation = theirs)
    BY <1>1, <1>10, <1>12
  <1>14. Open /\ ~Open' /\ (Owned' <=> K \in {"put", "keep"})
    BY <1>1, <1>3 DEF IInv, Control, Planned, Open, Owned, NoOp, Data
  <1>15. K \in {"none", "keep", "put", "take"} BY DEF IInv, Journalled, K, Resources
  <1>16. theirs' # Absent => Sound(val)'
    BY <1>1, <1>7, <1>8, <1>9, <1>13, <1>14, <1>15 DEF Sound
  <1>17. Control'
     BY <1>1, <1>2, <1>3, <1>4, <1>5, <1>6, <1>7, <1>8, <1>9, <1>10, <1>11, <1>12, <1>13,
       <1>14, <1>15, <1>16 DEF IInv, Control, Open, Journalled
  <1>18. kind' \in [Resources -> {"none", "keep", "put", "take"}] /\ DOMAIN undo' = Resources
        /\ opState' \in [Resources -> {"planned", "applying", "applied",
                                       "rolling_back", "rolled_back", "rollback_failed"}]
     BY DEF IInv, Journalled, ValueRecorded, K, Commit, Closed, NoPlan, NoUndo, rows,
       journal, process, machine, history, Resources
  <1>19. Journalled'
     BY <1>1, <1>2, <1>3, <1>4, <1>5, <1>6, <1>7, <1>8, <1>9, <1>10, <1>11, <1>12, <1>13,
       <1>14, <1>15, <1>16, <1>18 DEF IInv, Control, Journalled, Planning, Open, Typed
  <1>20. Typed'
     BY <1>1, <1>2, <1>3, <1>4, <1>5, <1>6, <1>7, <1>8, <1>9, <1>10, <1>11, <1>12, <1>13,
       <1>14, <1>15, <1>16 DEF IInv, Control, Journalled, Planning, Open, Typed, Planned,
       Rows, ValueOps, Data, NoOp, Owned
  <1>21. Planned'
     BY <1>1, <1>2, <1>3, <1>4, <1>5, <1>6, <1>7, <1>8, <1>9, <1>10, <1>11, <1>12, <1>13,
       <1>14, <1>15, <1>16 DEF IInv, Control, Journalled, Planning, Planned, ValueOps, NoOp,
       Owned
  <1>22. Adopted'
     BY <1>1, <1>2, <1>3, <1>4, <1>5, <1>6, <1>7, <1>8, <1>9, <1>10, <1>11, <1>12, <1>13,
       <1>14, <1>15, <1>16 DEF IInv, Control, Journalled, Planning, Typed, Planned, Adopted,
       Owned, Data
  <1>23. Tracked'
     BY <1>1, <1>2, <1>3, <1>4, <1>5, <1>6, <1>7, <1>8, <1>9, <1>10, <1>11, <1>12, <1>13,
       <1>14, <1>15, <1>16 DEF IInv, Control, Journalled, Typed, Planned, Adopted, Tracked,
       Sound, Untouched,
                  Overwritten, Done, Touched, Planning, Owned, Open
  <1> QED BY <1>17, <1>19, <1>20, <1>21, <1>22, <1>23 DEF IInv

\* Somebody sets the value.
LEMMA SetByOtherStep ==
  ASSUME IInv, ~LateEdits, NEW data \in UserData, SetByOther(data)
  PROVE  IInv'
  <1>1. /\ val' = data
        /\ theirs' = data
        /\ UNCHANGED <<product, valRow, valOp, purpose, txnState, pc, unit, todo>>
    BY DEF SetByOther, Edited, rows, journal, process, machine, history, Resources
  <1>2. Written = (IF K = "put" THEN valOp.data ELSE valOp.restore)
        /\ Written' = (IF K' = "put" THEN valOp'.data ELSE valOp'.restore)
    BY DEF Written, K
  <1>3. K' = K /\ S' = S /\ W' = W BY DEF SetByOther, Edited, K, S, W, journal
  <1>4. /\ Planning => ~(K = "put" /\ (pc = "planned" \/ (txnState = "running" /\ S \in {"planned", "applying"})))
        /\ ~(Open /\ K = "take" /\ data = valOp.restore)
    BY DEF SetByOther, Exposed, Echoes, K, S
  <1>5. Control' BY <1>1, <1>2, <1>3, <1>4 DEF IInv, Control, Open, Journalled
  <1>6. kind' \in [Resources -> {"none", "keep", "put", "take"}] /\ DOMAIN undo' = Resources
        /\ opState' \in [Resources -> {"planned", "applying", "applied",
                                       "rolling_back", "rolled_back", "rollback_failed"}]
     BY DEF IInv, Journalled, SetByOther, Edited, rows, journal, process, machine, history,
       Resources
  <1>7. Journalled'
    BY <1>1, <1>2, <1>3, <1>4, <1>6 DEF IInv, Control, Journalled, Planning, Open, Typed
  <1>8. Typed'
     BY <1>1, <1>2, <1>3, <1>4 DEF IInv, Control, Journalled, Planning, Open, Typed,
       Planned, Rows, ValueOps, Data, NoOp, Owned
  <1>9. Planned'
     BY <1>1, <1>2, <1>3, <1>4 DEF IInv, Control, Journalled, Planning, Planned, ValueOps,
       NoOp, Owned
  <1>10. Adopted'
     BY <1>1, <1>2, <1>3, <1>4 DEF IInv, Control, Journalled, Planning, Typed, Planned,
       Adopted, Owned, Data
  <1>11. Tracked'
     BY <1>1, <1>2, <1>3, <1>4 DEF IInv, Control, Journalled, Typed, Planned, Adopted,
       Tracked, Sound, Untouched,
                  Overwritten, Done, Touched, Planning, Owned, Open
  <1> QED BY <1>5, <1>7, <1>8, <1>9, <1>10, <1>11 DEF IInv

\* Somebody deletes the value.
LEMMA DeletedByOtherStep ==
  ASSUME IInv, DeletedByOther
  PROVE  IInv'
  <1>1. /\ val' = Absent
        /\ theirs' = Absent
        /\ UNCHANGED <<product, valRow, valOp, purpose, txnState, pc, unit, todo>>
    BY DEF DeletedByOther, Edited, rows, journal, process, machine, history, Resources
  <1>2. Written = (IF K = "put" THEN valOp.data ELSE valOp.restore)
        /\ Written' = (IF K' = "put" THEN valOp'.data ELSE valOp'.restore)
    BY DEF Written, K
  <1>3. K' = K /\ S' = S /\ W' = W BY DEF DeletedByOther, Edited, K, S, W, journal
  <1>4. Control' BY <1>1, <1>2, <1>3 DEF IInv, Control, Open, Journalled
  <1>5. kind' \in [Resources -> {"none", "keep", "put", "take"}] /\ DOMAIN undo' = Resources
        /\ opState' \in [Resources -> {"planned", "applying", "applied",
                                       "rolling_back", "rolled_back", "rollback_failed"}]
     BY DEF IInv, Journalled, DeletedByOther, Edited, rows, journal, process, machine,
       history, Resources
  <1>6. Journalled'
    BY <1>1, <1>2, <1>3, <1>5 DEF IInv, Control, Journalled, Planning, Open, Typed
  <1>7. Typed'
     BY <1>1, <1>2, <1>3 DEF IInv, Control, Journalled, Planning, Open, Typed, Planned,
       Rows, ValueOps, Data, NoOp, Owned
  <1>8. Planned'
     BY <1>1, <1>2, <1>3 DEF IInv, Control, Journalled, Planning, Planned, ValueOps, NoOp,
       Owned
  <1>9. Adopted'
     BY <1>1, <1>2, <1>3 DEF IInv, Control, Journalled, Planning, Typed, Planned, Adopted,
       Owned, Data
  <1>10. Tracked'
     BY <1>1, <1>2, <1>3 DEF IInv, Control, Journalled, Typed, Planned, Adopted, Tracked,
       Sound, Untouched,
                  Overwritten, Done, Touched, Planning, Owned, Open
  <1> QED BY <1>4, <1>6, <1>7, <1>8, <1>9, <1>10 DEF IInv

\* Somebody deletes the key, with the value.
LEMMA KeyDeletedByOtherStep ==
  ASSUME IInv, KeyDeletedByOther
  PROVE  IInv'
  <1>1. /\ val' = Absent
        /\ theirs' = Absent
        /\ UNCHANGED <<product, valRow, valOp, purpose, txnState, pc, unit, todo>>
    BY DEF KeyDeletedByOther, Edited, rows, journal, process, machine, history, Resources
  <1>2. Written = (IF K = "put" THEN valOp.data ELSE valOp.restore)
        /\ Written' = (IF K' = "put" THEN valOp'.data ELSE valOp'.restore)
    BY DEF Written, K
  <1>3. K' = K /\ S' = S /\ W' = W BY DEF KeyDeletedByOther, Edited, K, S, W, journal
  <1>4. Control' BY <1>1, <1>2, <1>3 DEF IInv, Control, Open, Journalled
  <1>5. kind' \in [Resources -> {"none", "keep", "put", "take"}] /\ DOMAIN undo' = Resources
        /\ opState' \in [Resources -> {"planned", "applying", "applied",
                                       "rolling_back", "rolled_back", "rollback_failed"}]
     BY DEF IInv, Journalled, KeyDeletedByOther, Edited, rows, journal, process, machine,
       history, Resources
  <1>6. Journalled'
    BY <1>1, <1>2, <1>3, <1>5 DEF IInv, Control, Journalled, Planning, Open, Typed
  <1>7. Typed'
     BY <1>1, <1>2, <1>3 DEF IInv, Control, Journalled, Planning, Open, Typed, Planned,
       Rows, ValueOps, Data, NoOp, Owned
  <1>8. Planned'
     BY <1>1, <1>2, <1>3 DEF IInv, Control, Journalled, Planning, Planned, ValueOps, NoOp,
       Owned
  <1>9. Adopted'
     BY <1>1, <1>2, <1>3 DEF IInv, Control, Journalled, Planning, Typed, Planned, Adopted,
       Owned, Data
  <1>10. Tracked'
     BY <1>1, <1>2, <1>3 DEF IInv, Control, Journalled, Typed, Planned, Adopted, Tracked,
       Sound, Untouched,
                  Overwritten, Done, Touched, Planning, Owned, Open
  <1> QED BY <1>4, <1>6, <1>7, <1>8, <1>9, <1>10 DEF IInv

\* The process dies; a plan not begun dies with it.
LEMMA CrashStep ==
  ASSUME IInv, Crash
  PROVE  IInv'
  <1>1. /\ valOp' = IF pc = "planned" THEN NoOp ELSE valOp
        /\ purpose' = IF pc = "planned" THEN "install" ELSE purpose
        /\ pc' = "down"
        /\ unit' = {}
        /\ todo' = {}
        /\ UNCHANGED <<product, val, theirs, valRow, txnState>>
     BY DEF Crash, Closed, NoPlan, NoUndo, rows, journal, process, machine, history,
       Resources
  <1>2. Written = (IF K = "put" THEN valOp.data ELSE valOp.restore)
        /\ Written' = (IF K' = "put" THEN valOp'.data ELSE valOp'.restore)
    BY DEF Written, K
  <1>3. pc # "down" BY DEF Crash
  <1>4. pc = "planned" => K' = "none" /\ S' = "planned" /\ W' = None
    BY DEF Crash, Closed, NoPlan, NoUndo, K, S, W, Resources
  <1>5. pc # "planned" => K' = K /\ S' = S /\ W' = W BY DEF Crash, K, S, W
  <1>6. Control' BY <1>1, <1>2, <1>3, <1>4, <1>5 DEF IInv, Control, Open, Journalled
  <1>7. kind' \in [Resources -> {"none", "keep", "put", "take"}] /\ DOMAIN undo' = Resources
        /\ opState' \in [Resources -> {"planned", "applying", "applied",
                                       "rolling_back", "rolled_back", "rollback_failed"}]
     BY DEF IInv, Journalled, Crash, Closed, NoPlan, NoUndo, rows, journal, process,
       machine, history, Resources
  <1>8. Journalled'
     BY <1>1, <1>2, <1>3, <1>4, <1>5, <1>7 DEF IInv, Control, Journalled, Planning, Open,
       Typed
  <1>9. Typed'
     BY <1>1, <1>2, <1>3, <1>4, <1>5 DEF IInv, Control, Journalled, Planning, Open, Typed,
       Planned, Rows, ValueOps, Data, NoOp, Owned
  <1>10. Planned'
     BY <1>1, <1>2, <1>3, <1>4, <1>5 DEF IInv, Control, Journalled, Planning, Planned,
       ValueOps, NoOp, Owned
  <1>11. Adopted'
     BY <1>1, <1>2, <1>3, <1>4, <1>5 DEF IInv, Control, Journalled, Planning, Typed,
       Planned, Adopted, Owned, Data
  <1>12. Tracked'
     BY <1>1, <1>2, <1>3, <1>4, <1>5 DEF IInv, Control, Journalled, Typed, Planned, Adopted,
       Tracked, Sound, Untouched,
                  Overwritten, Done, Touched, Planning, Owned, Open
  <1> QED BY <1>6, <1>8, <1>9, <1>10, <1>11, <1>12 DEF IInv

\* The plan, from a row and a machine a closed transaction left.
LEMMA PlanStep ==
  ASSUME IInv, NEW why \in {"install", "repair", "uninstall"},
         NEW v, why # "uninstall" => v \in Versions, Plan(why, v)
  PROVE  IInv'
  <1> DEFINE wanted == IF why = "uninstall" THEN Absent ELSE Wants[product][v]
             repairs == why = "repair"
  <1>1. /\ product' = product /\ val' = val /\ theirs' = theirs /\ valRow' = valRow
        /\ purpose' = why /\ txnState' = txnState /\ pc' = "planned"
        /\ unit' = unit /\ todo' = todo /\ opState' = opState /\ undo' = undo
        /\ pc = "down" /\ ~Open /\ (why # "install" => installed # None)
    BY DEF Plan, machine, rows
  <1>2. K' = ValuePlan(wanted, repairs) /\ valOp' = ValueColumns(wanted, repairs)
    BY DEF Plan, K
  <1>3. kind' \in [Resources -> {"none", "keep", "put", "take"}]
    BY DEF Plan, Resources, KeyPlan, ValuePlan, EntryPlan
  <1>4. S' = "planned" /\ W' = None /\ S = "planned" /\ W = None /\ K = "none"
    BY <1>1 DEF IInv, Journalled, Planning, S, W
  <1>5. Open' = Open /\ Owned' = Owned BY <1>1 DEF Open, Owned
  <1>6. wanted \in PackageData \cup {Absent}
    <2>1. CASE why = "uninstall" BY <2>1
    <2>2. CASE why # "uninstall"
      BY <2>2, Wants[product][v] \in Data \cup {Absent} DEF IInv, Typed, PackageData
    <2> QED BY <2>1, <2>2
  <1>6a. repairs <=> purpose' = "repair" BY <1>1
  <1> HIDE DEF wanted, repairs
  <1>7. Control' BY <1>1, <1>5 DEF IInv, Control
  <1>8. Journalled'
    BY <1>1, <1>2, <1>3, <1>4, <1>5 DEF IInv, Control, Journalled, Planning, ValuePlan, Open
  <1>9. Typed' BY <1>1, <1>4, <1>5 DEF IInv, Typed
  <1>10. Planned'
     BY <1>1, <1>2, <1>5, <1>6 DEF IInv, Typed, Planned, ValuePlan, ValueColumns,
       RestoreColumn,
                                  Overwrites, ValueOps, NoOp, Rows, Data, Owned
  <1>11. Adopted' BY <1>1, <1>5 DEF IInv, Adopted
  <1>12. ASSUME theirs # Absent PROVE Sound(val) BY <1>4, <1>12 DEF IInv, Tracked, Touched
  <1>13. Tracked'
    BY <1>1, <1>2, <1>4, <1>5, <1>6, <1>6a, <1>12
       DEF IInv, Typed, Adopted, Tracked, Sound, Touched, Planning, ValuePlan, ValueColumns,
           RestoreColumn, Overwrites, NoOp, Data, Owned
  <1> QED BY <1>7, <1>8, <1>9, <1>10, <1>11, <1>13 DEF IInv

\* What only the key or the PATH entry sees.
LEMMA OtherResources ==
  ASSUME IInv,
         \/ CreateRegistryKey \/ RemoveRegistryKey \/ AddPathEntry \/ RemovePathEntry
         \/ UndoKey \/ UndoEntry \/ KeySharedByOther
         \/ \E s \in {"mine", "alike", "other"} : EntryAddedByOther(s)
         \/ \E s \in {"mine", "alike"} : EntryRemovedByOther(s)
  PROVE  IInv'
  <1>1. CASE CreateRegistryKey \/ RemoveRegistryKey \/ UndoKey
    <2>1. UNCHANGED <<ValueState, pc, unit>> /\ todo' = todo \ {"key"}
       BY <1>1 DEF CreateRegistryKey, RemoveRegistryKey, UndoKey, Walked, ValueState, rows,
         journal
    <2> QED BY <2>1, ValueLeftAlone
  <1>2. CASE AddPathEntry \/ RemovePathEntry \/ UndoEntry
    <2>1. UNCHANGED <<ValueState, pc, unit>> /\ todo' = todo \ {"entry"}
       BY <1>2 DEF AddPathEntry, RemovePathEntry, UndoEntry, Walked, ValueState, rows,
         journal
    <2> QED BY <2>1, ValueLeftAlone
  <1>3. CASE \/ KeySharedByOther
             \/ \E s \in {"mine", "alike", "other"} : EntryAddedByOther(s)
             \/ \E s \in {"mine", "alike"} : EntryRemovedByOther(s)
    <2>1. UNCHANGED <<ValueState, pc, unit, todo>>
       BY <1>3 DEF KeySharedByOther, EntryAddedByOther, EntryRemovedByOther, Edited,
         ValueState,
                  rows, journal, process
    <2> QED BY <2>1, ValueLeftAlone
  <1> QED BY <1>1, <1>2, <1>3

LEMMA StepInvariant == ~LateEdits /\ IInv /\ [Next]_vars => IInv'
  <1> SUFFICES ASSUME ~LateEdits, IInv, [Next]_vars PROVE IInv' OBVIOUS
  <1>1. CASE \E why \in {"install", "repair"}, v \in Versions : Plan(why, v)
    BY <1>1, PlanStep
  <1>2. CASE Plan("uninstall", installed) BY <1>2, PlanStep
  <1>3. CASE Begin \/ Recover BY <1>3, BeginStep, RecoverStep
  <1>4. CASE Forward
    BY <1>4, StartGroupStep, SetValueStep, RemoveValueStep, FinishGroupStep, CommitStep,
       OtherResources DEF Forward
  <1>5. CASE Backward
     BY <1>5, BeginRollbackStep, UndoValueStep, FinishUnitStep, FinishRollbackStep,
       StartUnitStep,
       OtherResources DEF Backward
  <1>6. CASE Fault BY <1>6, CrashStep, FailForwardStep, UndoErrorStep DEF Fault
  <1>7. CASE Others
     BY <1>7, SetByOtherStep, DeletedByOtherStep, KeyDeletedByOtherStep, OtherResources DEF
       Others
  <1>8. CASE UNCHANGED vars
    <2>1. UNCHANGED <<ValueState, pc, unit, todo>>
      BY <1>8 DEF vars, ValueState, rows, journal, process, machine, history
    <2> QED BY <2>1, ValueLeftAlone
  <1> QED BY <1>1, <1>2, <1>3, <1>4, <1>5, <1>6, <1>7, <1>8 DEF Next

----------------------------------------------------------------------------
(* PATH as a sequence: what Appended and Without make of it. *)

\* A set of numbers that is not empty has a least one.
LEMMA Least ==
  ASSUME NEW T, T \subseteq Nat, T # {}
  PROVE  \E x \in T : \A y \in T : x <= y
  <1> DEFINE R == OpToRel(<, Nat)
  <1>1. IsWellFoundedOn(R, Nat) BY NatLessThanWellFounded
  <1>2. \A x, y \in Nat : y < x => <<y, x>> \in R BY DEF OpToRel
  <1> HIDE DEF R
  <1>3. PICK x \in T : \A y \in T : ~ (<<y, x>> \in R) BY <1>1, WFMin, Zenon
  <1>4. \A y \in T : ~ (y < x) BY <1>2, <1>3
  <1> QED BY <1>4

\* One segment goes and the others stay as they are.
Closes(t, k, s) ==
  /\ s \in Seq(Segments) /\ Len(t) = Len(s) + 1
  /\ \A i \in 1..Len(s) : s[i] = IF i < k THEN t[i] ELSE t[i + 1]

\* RemoveAt closes the gap it leaves.
LEMMA RemovedAt ==
  ASSUME NEW t \in Seq(Segments), NEW k \in 1..Len(t)
  PROVE  Closes(t, k, RemoveAt(t, k))
  <1> DEFINE a == SubSeq(t, 1, k - 1)
             b == SubSeq(t, k + 1, Len(t))
  <1>1. /\ a \in Seq(Segments) /\ Len(a) = k - 1
        /\ \A i \in 1..(k - 1) : a[i] = t[i]
    OBVIOUS
  <1>2. /\ b \in Seq(Segments) /\ Len(b) = Len(t) - k
        /\ \A i \in 1..(Len(t) - k) : b[i] = t[k + i]
    OBVIOUS
  <1>3. RemoveAt(t, k) = a \o b BY DEF RemoveAt
  <1> HIDE DEF a, b
  <1>4. /\ a \o b \in Seq(Segments) /\ Len(a \o b) = Len(t) - 1
        /\ \A i \in 1..(Len(t) - 1) : (a \o b)[i] = IF i < k THEN a[i] ELSE b[i - (k - 1)]
    BY <1>1, <1>2
  <1>5. \A i \in 1..(Len(t) - 1) : (a \o b)[i] = IF i < k THEN t[i] ELSE t[i + 1]
    <2> TAKE i \in 1..(Len(t) - 1)
    <2>1. CASE i < k BY <2>1, <1>1, <1>4
    <2>2. CASE ~(i < k)
      <3>1. i - (k - 1) \in 1..(Len(t) - k) /\ k + (i - (k - 1)) = i + 1 BY <2>2
      <3> QED BY <2>2, <3>1, <1>2, <1>4
    <2> QED BY <2>1, <2>2
  <1>6. Len(a \o b) \in Nat /\ Len(t) = Len(a \o b) + 1 BY <1>4
  <1>7. \A i \in 1..Len(a \o b) : (a \o b)[i] = IF i < k THEN t[i] ELSE t[i + 1]
    BY <1>4, <1>5
  <1> QED BY <1>3, <1>4, <1>6, <1>7 DEF Closes

\* RemoveFirst takes the first of the segments it looks for.
LEMMA FirstRemoved ==
  ASSUME NEW t \in Seq(Segments), NEW e, \E i \in 1..Len(t) : t[i] = e
  PROVE  \E k \in 1..Len(t) :
           /\ t[k] = e /\ (\A i \in 1..(k - 1) : t[i] # e)
           /\ Closes(t, k, RemoveFirst(t, e))
  <1> DEFINE I == {i \in 1..Len(t) : t[i] = e}
  <1>1. I \subseteq Nat /\ I # {} OBVIOUS
  <1>2. \E x \in I : \A y \in I : x <= y BY <1>1, Least
  <1>3. Min(I) \in I /\ \A y \in I : Min(I) <= y BY <1>2 DEF Min
  <1>4. RemoveFirst(t, e) = RemoveAt(t, Min(I)) BY <1>1 DEF RemoveFirst, SelectInSeq
  <1>5. PICK k \in I : RemoveFirst(t, e) = RemoveAt(t, k) /\ \A y \in I : k <= y
    BY <1>3, <1>4
  <1>6. k \in 1..Len(t) /\ t[k] = e BY <1>5
  <1>7. ASSUME NEW i \in 1..(k - 1) PROVE t[i] # e BY <1>5, <1>6
  <1> QED BY <1>5, <1>6, <1>7, RemovedAt

LEMMA TextType == ASSUME NEW p \in Paths PROVE Text(p) \in Seq(Segments)
  BY DEF Text, Paths

LEMMA SameReflexive == ASSUME NEW p PROVE SameStrangers(p, p)
  <1>1. [i \in Strangers(p) |-> i] \in [Strangers(p) -> Strangers(p)] OBVIOUS
  <1> QED BY <1>1 DEF SameStrangers

\* SameStrangers is an order-preserving match, so it composes.
LEMMA SameTransitive ==
  ASSUME NEW p, NEW q, NEW r, SameStrangers(p, q), SameStrangers(q, r)
  PROVE  SameStrangers(p, r)
  <1>1. PICK f \in [Strangers(p) -> Strangers(q)] :
          /\ \A i \in Strangers(p) : Text(q)[f[i]] = Text(p)[i]
          /\ \A i, j \in Strangers(p) : i < j => f[i] < f[j]
          /\ \A j \in Strangers(q) : \E i \in Strangers(p) : f[i] = j
    BY DEF SameStrangers
  <1>2. PICK g \in [Strangers(q) -> Strangers(r)] :
          /\ \A i \in Strangers(q) : Text(r)[g[i]] = Text(q)[i]
          /\ \A i, j \in Strangers(q) : i < j => g[i] < g[j]
          /\ \A j \in Strangers(r) : \E i \in Strangers(q) : g[i] = j
    BY DEF SameStrangers
  <1> DEFINE h == [i \in Strangers(p) |-> g[f[i]]]
  <1>3. h \in [Strangers(p) -> Strangers(r)] BY <1>1, <1>2
  <1>4. /\ \A i \in Strangers(p) : Text(r)[h[i]] = Text(p)[i]
        /\ \A i, j \in Strangers(p) : i < j => h[i] < h[j]
    BY <1>1, <1>2
  <1>5. ASSUME NEW j \in Strangers(r) PROVE \E i \in Strangers(p) : h[i] = j BY <1>1, <1>2
  <1> HIDE DEF h
  <1> QED BY <1>3, <1>4, <1>5 DEF SameStrangers

\* A segment of the entry's that goes, or comes, leaves the others the same.
LEMMA ClosingKeeps ==
  ASSUME NEW p \in Paths, NEW q \in Paths, NEW k \in 1..Len(Text(p)),
         Ours(Text(p)[k]), Closes(Text(p), k, Text(q))
  PROVE  SameStrangers(q, p) /\ SameStrangers(p, q)
  <1> DEFINE n == Len(Text(q))
             opened == [i \in Strangers(q) |-> IF i < k THEN i ELSE i + 1]
             closed == [i \in Strangers(p) |-> IF i < k THEN i ELSE i - 1]
  <1>1. /\ n \in Nat /\ Len(Text(p)) = n + 1
        /\ \A i \in 1..n : Text(q)[i] = IF i < k THEN Text(p)[i] ELSE Text(p)[i + 1]
    BY TextType DEF Closes
  <1>2. Strangers(p) = {i \in 1..(n + 1) : ~Ours(Text(p)[i])}
    BY <1>1, TextType DEF Strangers
  <1>3. Strangers(q) = {i \in 1..n : ~Ours(Text(q)[i])} BY <1>1, TextType DEF Strangers
  <1>4. k \in 1..(n + 1) /\ k \notin Strangers(p) BY <1>1, <1>2
  <1> HIDE DEF n
  <1>5. ASSUME NEW i \in Strangers(q)
        PROVE  opened[i] \in Strangers(p) /\ Text(p)[opened[i]] = Text(q)[i]
    BY <1>1, <1>2, <1>3
  <1>6. ASSUME NEW i \in Strangers(p)
        PROVE  closed[i] \in Strangers(q) /\ Text(q)[closed[i]] = Text(p)[i]
    <2>1. i \in 1..(n + 1) /\ i # k BY <1>2, <1>4
    <2>2. CASE i < k BY <2>1, <2>2, <1>1, <1>2, <1>3, <1>4
    <2>3. CASE i > k
      <3>1. i - 1 \in 1..n /\ ~(i - 1 < k) /\ (i - 1) + 1 = i BY <2>1, <2>3, <1>4, <1>1
      <3>2. Text(q)[i - 1] = Text(p)[i] BY <3>1, <1>1
      <3>3. ~(i < k) BY <2>1, <2>3, <1>1, <1>4
      <3>4. closed[i] = i - 1 BY <3>3
      <3>5. i - 1 \in Strangers(q) BY <3>1, <3>2, <1>2, <1>3
      <3> QED BY <3>2, <3>4, <3>5
    <2> QED BY <2>1, <2>2, <2>3, <1>4
  <1>7. /\ \A i, j \in Strangers(q) : i < j => opened[i] < opened[j]
        /\ \A i, j \in Strangers(p) : i < j => closed[i] < closed[j]
    BY <1>2, <1>3, <1>4
  <1>8. /\ \A i \in Strangers(q) : closed[opened[i]] = i
        /\ \A i \in Strangers(p) : opened[closed[i]] = i
    BY <1>2, <1>3, <1>4, <1>5, <1>6
  <1>9. /\ opened \in [Strangers(q) -> Strangers(p)]
        /\ closed \in [Strangers(p) -> Strangers(q)]
    BY <1>5, <1>6
  <1> HIDE DEF opened, closed
  <1>10. SameStrangers(q, p) BY <1>5, <1>6, <1>7, <1>8, <1>9 DEF SameStrangers
  <1>11. SameStrangers(p, q) BY <1>5, <1>6, <1>7, <1>8, <1>9 DEF SameStrangers
  <1> QED BY <1>10, <1>11

\* An empty segment is never alone.
Padded(p) ==
  (\E i \in DOMAIN Text(p) : Text(p)[i] = "blank")
    => \E i \in DOMAIN Text(p) : Text(p)[i] = "other"

\* And an empty segment keeps its company.
LEMMA ClosingPads ==
  ASSUME NEW p \in Paths, NEW q \in Paths, NEW k \in 1..Len(Text(p)),
         Ours(Text(p)[k]), Closes(Text(p), k, Text(q))
  PROVE  Padded(p) <=> Padded(q)
  <1>1. ASSUME NEW e, ~Ours(e)
        PROVE  (\E i \in DOMAIN Text(p) : Text(p)[i] = e) <=> \E i \in DOMAIN Text(q) : Text(q)[i] = e
    <2>1. PICK f \in [Strangers(p) -> Strangers(q)] : \A i \in Strangers(p) : Text(q)[f[i]] = Text(p)[i]
      BY ClosingKeeps DEF SameStrangers
    <2>2. PICK g \in [Strangers(q) -> Strangers(p)] : \A i \in Strangers(q) : Text(p)[g[i]] = Text(q)[i]
      BY ClosingKeeps DEF SameStrangers
    <2> QED BY <1>1, <2>1, <2>2 DEF Strangers
  <1> QED BY <1>1 DEF Padded, Ours

\* Without takes one segment, the exact text before an equivalent.
LEMMA WithoutCloses ==
  ASSUME NEW p \in Paths, Padded(p), Present(p)
  PROVE  /\ Text(p) = p /\ Without(p) \in Seq(Segments)
         /\ \E k \in 1..Len(p) :
              /\ Ours(p[k]) /\ Closes(p, k, Without(p))
              /\ (\E i \in 1..Len(p) : p[i] = "mine") => p[k] = "mine"
  <1>1. Text(p) = p /\ p \in Seq(Segments) BY DEF Present, Text, Paths
  <1> DEFINE e == IF \E i \in DOMAIN p : p[i] = "mine" THEN "mine" ELSE "alike"
  <1>2. Ours(e) /\ \E i \in 1..Len(p) : p[i] = e BY <1>1 DEF Present, Ours
  <1>3. PICK k \in 1..Len(p) : p[k] = e /\ Closes(p, k, RemoveFirst(p, e))
    BY <1>1, <1>2, FirstRemoved
  <1>4. RemoveFirst(p, e) \in Seq(Segments) /\ Len(p) = Len(RemoveFirst(p, e)) + 1
    BY <1>3 DEF Closes
  <1>5. RemoveFirst(p, e) # <<"blank">>
    <2> SUFFICES ASSUME RemoveFirst(p, e) = <<"blank">> PROVE FALSE OBVIOUS
    <2>1. RemoveFirst(p, e) \in Paths /\ Text(RemoveFirst(p, e)) = <<"blank">>
      BY <1>4 DEF Paths, Text
    <2>2. Padded(RemoveFirst(p, e)) BY <1>1, <1>2, <1>3, <2>1, ClosingPads
    <2>3. \E i \in DOMAIN <<"blank">> : <<"blank">>[i] = "blank" OBVIOUS
    <2>4. ~ \E i \in DOMAIN <<"blank">> : <<"blank">>[i] = "other" OBVIOUS
    <2> QED BY <2>1, <2>2, <2>3, <2>4 DEF Padded
  <1>6. Without(p) = RemoveFirst(p, e) BY <1>5 DEF Without
  <1>7. (\E i \in 1..Len(p) : p[i] = "mine") => e = "mine" BY <1>1
  <1> HIDE DEF e
  <1> QED BY <1>1, <1>2, <1>3, <1>4, <1>6, <1>7

\* What is removed of a PATH is at most a segment of the entry's.
LEMMA RemovedKeeps ==
  ASSUME NEW p \in Paths, Padded(p), NEW d
  PROVE  /\ EntryRemoved(p, d) \in Paths /\ Padded(EntryRemoved(p, d))
         /\ SameStrangers(EntryRemoved(p, d), p)
  <1>1. CASE ~Present(p) BY <1>1, SameReflexive DEF EntryRemoved
  <1>2. CASE Present(p)
    <2>1. PICK k \in 1..Len(p) : Ours(p[k]) /\ Closes(p, k, Without(p))
      BY <1>2, WithoutCloses
    <2>2. Text(p) = p /\ Without(p) \in Seq(Segments) BY <1>2, WithoutCloses
    <2>3. EntryRemoved(p, d) \in Paths /\ Text(EntryRemoved(p, d)) = Without(p)
      BY <1>2, <2>2 DEF EntryRemoved, Paths, Text
    <2> QED BY <2>1, <2>2, <2>3, ClosingKeeps, ClosingPads
  <1> QED BY <1>1, <1>2

\* Appended puts the entry at one place and keeps the rest.
LEMMA AppendedCloses ==
  ASSUME NEW p \in Paths
  PROVE  /\ Appended(p) \in Paths /\ Text(Appended(p)) = Appended(p)
         /\ \E k \in 1..Len(Appended(p)) :
              Appended(p)[k] = "mine" /\ Closes(Appended(p), k, Text(p))
  <1> DEFINE t == Text(p)
  <1>1. t \in Seq(Segments) BY TextType
  <1>2. "mine" \in Segments /\ "blank" \in Segments BY DEF Segments
  <1>3. CASE t # <<>> /\ Last(t) = "blank"
    <2>1. Appended(p) = Front(t) \o <<"mine", "blank">> BY <1>3 DEF Appended
    <2> HIDE DEF t
    <2>2. Len(t) \in Nat \ {0} /\ t[Len(t)] = "blank" BY <1>1, <1>3 DEF Last
    <2>3. Front(t) \in Seq(Segments) /\ Len(Front(t)) = Len(t) - 1
          /\ \A i \in 1..(Len(t) - 1) : Front(t)[i] = t[i]
      <3>1. PICK k \in 1..Len(t) : k = Len(t) BY <2>2
      <3>2. /\ SubSeq(t, 1, k - 1) \in Seq(Segments) /\ Len(SubSeq(t, 1, k - 1)) = k - 1
            /\ \A i \in 1..(k - 1) : SubSeq(t, 1, k - 1)[i] = t[i]
        BY <1>1
      <3> QED BY <3>1, <3>2 DEF Front
    <2>4. <<"mine", "blank">> \in Seq(Segments) /\ Len(<<"mine", "blank">>) = 2 BY <1>2
    <2>5. /\ Appended(p) \in Seq(Segments) /\ Len(Appended(p)) = Len(t) + 1
          /\ \A i \in 1..(Len(t) - 1) : Appended(p)[i] = t[i]
          /\ Appended(p)[Len(t)] = "mine" /\ Appended(p)[Len(t) + 1] = "blank"
      BY <2>1, <2>2, <2>3, <2>4
    <2>6. ASSUME NEW i \in 1..Len(t)
          PROVE  t[i] = IF i < Len(t) THEN Appended(p)[i] ELSE Appended(p)[i + 1]
      <3>1. CASE i = Len(t) BY <3>1, <2>2, <2>5
      <3>2. CASE i # Len(t) BY <3>2, <2>2, <2>5
      <3> QED BY <3>1, <3>2
    <2>7. Closes(Appended(p), Len(t), t) BY <1>1, <2>5, <2>6 DEF Closes
    <2>8. Len(t) \in 1..Len(Appended(p)) BY <2>2, <2>5
    <2>9. Appended(p) \in Paths /\ Text(Appended(p)) = Appended(p) BY <2>5 DEF Paths, Text
    <2> QED BY <2>5, <2>7, <2>8, <2>9 DEF t
  <1>4. CASE ~(t # <<>> /\ Last(t) = "blank")
    <2>1. Appended(p) = Append(t, "mine") BY <1>4 DEF Appended
    <2> HIDE DEF t
    <2>2. /\ Appended(p) \in Seq(Segments) /\ Len(Appended(p)) = Len(t) + 1
          /\ \A i \in 1..Len(t) : Appended(p)[i] = t[i]
          /\ Appended(p)[Len(t) + 1] = "mine"
      BY <1>1, <1>2, <2>1
    <2>3. Closes(Appended(p), Len(t) + 1, t) BY <1>1, <2>2 DEF Closes
    <2>4. Len(t) + 1 \in 1..Len(Appended(p)) BY <1>1, <2>2
    <2>5. Appended(p) \in Paths /\ Text(Appended(p)) = Appended(p) BY <2>2 DEF Paths, Text
    <2> QED BY <2>2, <2>3, <2>4, <2>5 DEF t
  <1> QED BY <1>3, <1>4

\* What is added to a PATH is at most the entry.
LEMMA AddedKeeps ==
  ASSUME NEW p \in Paths, Padded(p)
  PROVE  /\ EntryAdded(p) \in Paths /\ Padded(EntryAdded(p)) /\ Present(EntryAdded(p))
         /\ SameStrangers(EntryAdded(p), p)
  <1>1. CASE Present(p) BY <1>1, SameReflexive DEF EntryAdded
  <1>2. CASE ~Present(p)
    <2>1. EntryAdded(p) = Appended(p) BY <1>2 DEF EntryAdded
    <2>2. PICK k \in 1..Len(Appended(p)) :
            Appended(p)[k] = "mine" /\ Closes(Appended(p), k, Text(p))
      BY AppendedCloses
    <2>3. Appended(p) \in Paths /\ Text(Appended(p)) = Appended(p) BY AppendedCloses
    <2>4. SameStrangers(Appended(p), p) /\ Padded(Appended(p))
      BY <2>2, <2>3, ClosingKeeps, ClosingPads DEF Ours
    <2>5. Present(Appended(p))
      <3>1. Appended(p) \in Seq(Segments) BY <2>3, TextType
      <3> QED BY <2>2, <2>3, <3>1 DEF Present, Ours
    <2> QED BY <2>1, <2>3, <2>4, <2>5
  <1> QED BY <1>1, <1>2

\* Taking the appended entry away again leaves the PATH there was.
LEMMA AppendedRemoved ==
  ASSUME NEW p \in Paths, Padded(p), ~Present(p)
  PROVE  /\ Appended(p) \in Paths /\ Present(Appended(p)) /\ Padded(Appended(p))
         /\ EntryAdded(p) = Appended(p) /\ EntryAdded(Appended(p)) = Appended(p)
         /\ \A d : Text(EntryRemoved(Appended(p), d)) = Text(p)
         /\ EntryRemoved(Appended(p), ~(p # Absent)) = p
  <1> DEFINE a == Appended(p)
  <1>1. EntryAdded(p) = a BY DEF EntryAdded
  <1>2. a \in Paths /\ Present(a) /\ Padded(a) BY <1>1, AddedKeeps
  <1>3. PICK k \in 1..Len(a) : a[k] = "mine" /\ Closes(a, k, Text(p)) BY AppendedCloses
  <1>4. /\ Text(a) = a /\ Without(a) \in Seq(Segments)
        /\ \E j \in 1..Len(a) :
             /\ Closes(a, j, Without(a))
             /\ (\E i \in 1..Len(a) : a[i] = "mine") => a[j] = "mine"
    BY <1>2, WithoutCloses
  <1>5. PICK j \in 1..Len(a) : a[j] = "mine" /\ Closes(a, j, Without(a)) BY <1>3, <1>4
  <1>6. a \in Seq(Segments) BY <1>2, <1>4, TextType
  <1> HIDE DEF a
  <1>7. Text(p) \in Seq(Segments) /\ \A i \in 1..Len(Text(p)) : ~Ours(Text(p)[i])
    BY TextType DEF Present
  <1>8. j = k
    <2>1. CASE j < k
      <3>1. j \in 1..Len(Text(p)) /\ Text(p)[j] = a[j]
        BY <2>1, <1>3, <1>5, <1>6, <1>7 DEF Closes
      <3> QED BY <3>1, <1>5, <1>7 DEF Ours
    <2>2. CASE k < j
      <3>1. j - 1 \in 1..Len(Text(p)) /\ ~(j - 1 < k) /\ (j - 1) + 1 = j
        BY <2>2, <1>3, <1>5, <1>6, <1>7 DEF Closes
      <3>2. Text(p)[j - 1] = a[j] BY <3>1, <1>3 DEF Closes
      <3> QED BY <3>1, <3>2, <1>5, <1>7 DEF Ours
    <2> QED BY <2>1, <2>2, <1>6
  <1>9. Without(a) = Text(p)
    <2>1. Len(Without(a)) = Len(Text(p)) BY <1>3, <1>4, <1>5, <1>6, <1>7 DEF Closes
    <2>2. ASSUME NEW i \in 1..Len(Text(p)) PROVE Without(a)[i] = Text(p)[i]
      BY <2>1, <1>3, <1>5, <1>8 DEF Closes
    <2> QED BY <2>1, <2>2, <1>4, <1>7
  <1>10. ASSUME NEW d
         PROVE  EntryRemoved(a, d) = IF Text(p) = <<>> /\ d THEN Absent ELSE Text(p)
    BY <1>2, <1>9 DEF EntryRemoved
  <1>11. ASSUME NEW d PROVE Text(EntryRemoved(a, d)) = Text(p) BY <1>10, <1>7 DEF Text
  <1>12. EntryRemoved(a, ~(p # Absent)) = p BY <1>10 DEF Text, Paths
  <1>13. EntryAdded(a) = a BY <1>2 DEF EntryAdded
  <1> QED BY <1>1, <1>2, <1>11, <1>12, <1>13 DEF a

----------------------------------------------------------------------------
(* A machine nobody else changes: the transaction against the machine it   *)
(* was planned on, and the rows against the machine the installation was   *)
(* planned on. Late writes of others do no harm here: an edit ends what    *)
(* these invariants follow.                                                *)

Mutations == {"put", "take"}

\* The process against the journal.
Journals ==
  /\ Control
  /\ kind \in [Resources -> {"none", "keep", "put", "take"}]
  /\ opState \in [Resources -> {"planned", "applying", "applied",
                                "rolling_back", "rolled_back", "rollback_failed"}]
  /\ DOMAIN undo = Resources
  /\ \A r \in Resources :
       /\ ~Planning => kind[r] = "none"
       /\ ~Open => opState[r] = "planned"
       /\ txnState = "running" => opState[r] \in {"planned", "applying", "applied"}
       /\ kind[r] \notin Mutations => opState[r] \in {"planned", "applied"}
       /\ r \in unit => kind[r] \in Mutations
       /\ pc = "mutate" /\ r \in unit => opState[r] = "applying"
       /\ pc = "undo" /\ r \in unit => opState[r] = "rolling_back"

LEMMA InitJournals == Init => Journals
  BY DEF Init, Journals, Control, Open, Planning, NoPlan, NoUndo, Resources

LEMMA PlanJournals ==
  ASSUME Journals, NEW why, NEW v, Plan(why, v) PROVE Journals'
  <1>1. kind' \in [Resources -> {"none", "keep", "put", "take"}]
    BY DEF Plan, Resources, KeyPlan, ValuePlan, EntryPlan
  <1>2. /\ pc = "down" /\ ~Open /\ pc' = "planned"
        /\ UNCHANGED <<opState, undo, txnState, unit, todo>>
    BY DEF Plan
  <1> QED BY <1>1, <1>2 DEF Journals, Control, Open, Planning

LEMMA BeginJournals ==
  ASSUME Journals, Begin PROVE Journals'
  <1>1. /\ pc = "planned" /\ pc' = "walk" /\ txnState' = "running"
        /\ UNCHANGED <<kind, undo, unit, todo>>
    BY DEF Begin
  <1>2. \A r \in Resources : opState'[r] = IF kind[r] = "keep" THEN "applied" ELSE "planned"
    BY DEF Begin
  <1>3. opState' \in [Resources -> {"planned", "applying", "applied",
                                    "rolling_back", "rolled_back", "rollback_failed"}]
    BY DEF Begin
  <1> QED BY <1>1, <1>2, <1>3 DEF Journals, Control, Open, Planning, Mutations

\* Marking sets the states of its members and no others.
LEMMA MarkedFacts ==
  ASSUME NEW G, NEW state, opState' = Marked(G, state),
         state \in {"planned", "applying", "applied", "rolling_back", "rolled_back", "rollback_failed"},
         Journals
  PROVE  /\ \A r \in Resources : opState'[r] = IF r \in G THEN state ELSE opState[r]
         /\ opState' \in [Resources -> {"planned", "applying", "applied",
                                        "rolling_back", "rolled_back", "rollback_failed"}]
  BY DEF Marked, Journals

LEMMA StartGroupJournals ==
  ASSUME Journals, StartGroup PROVE Journals'
  <1>1. /\ pc = "walk" /\ pc' = "mutate" /\ unit' = NextGroup /\ todo' = NextGroup
        /\ UNCHANGED <<kind, txnState>> /\ DOMAIN undo' = Resources
    BY DEF StartGroup
  <1>2. /\ \A r \in Resources : opState'[r] = IF r \in NextGroup THEN "applying" ELSE opState[r]
        /\ opState' \in [Resources -> {"planned", "applying", "applied",
                                       "rolling_back", "rolled_back", "rollback_failed"}]
    BY MarkedFacts DEF StartGroup
  <1>3. NextGroup \subseteq Resources /\ \A r \in NextGroup : kind[r] \in Mutations
    BY DEF NextGroup, Pending, Operations, Mutations
  <1> QED BY <1>1, <1>2, <1>3 DEF Journals, Control, Open, Planning

LEMMA WalkedJournals ==
  ASSUME Journals, NEW r, Walked(r) PROVE Journals'
  <1>1. todo' = todo \ {r} /\ UNCHANGED <<pc, unit, txnState, kind, opState, undo>>
    BY DEF Walked, journal
  <1> QED BY <1>1 DEF Journals, Control, Open, Planning

LEMMA FinishGroupJournals ==
  ASSUME Journals, FinishGroup PROVE Journals'
  <1>1. /\ pc = "mutate" /\ pc' = "walk" /\ unit' = {} /\ todo = {}
        /\ UNCHANGED <<kind, txnState, undo, todo>>
    BY DEF FinishGroup
  <1>2. /\ \A r \in Resources : opState'[r] = IF r \in unit THEN "applied" ELSE opState[r]
        /\ opState' \in [Resources -> {"planned", "applying", "applied",
                                       "rolling_back", "rolled_back", "rollback_failed"}]
    BY MarkedFacts DEF FinishGroup
  <1> QED BY <1>1, <1>2 DEF Journals, Control, Open, Planning

LEMMA ClosedJournals ==
  ASSUME Journals, Closed, pc' = "down", unit' = {}, todo' = {},
         txnState' \in {"none", "committed", "rolled_back"}
  PROVE  Journals'
  <1>1. /\ kind' = [r \in Resources |-> "none"]
        /\ opState' = [r \in Resources |-> "planned"]
        /\ undo' = [r \in Resources |-> None]
    BY DEF Closed, NoPlan, NoUndo
  <1>2. /\ kind' \in [Resources -> {"none", "keep", "put", "take"}]
        /\ opState' \in [Resources -> {"planned", "applying", "applied",
                                       "rolling_back", "rolled_back", "rollback_failed"}]
        /\ DOMAIN undo' = Resources
    BY <1>1
  <1>3. \A r \in Resources : kind'[r] = "none" /\ opState'[r] = "planned" BY <1>1
  <1> QED BY <1>2, <1>3 DEF Journals, Control, Open, Planning

\* Commit, the end of a rollback, a crash, a failure and the next run.
LEMMA TurnJournals ==
  ASSUME Journals, \/ Commit \/ FinishRollback \/ Crash \/ FailForward \/ Recover \/ BeginRollback
  PROVE  Journals'
  <1>1. CASE Commit \/ FinishRollback
    <2>1. unit = {} /\ todo = {} BY <1>1 DEF Commit, FinishRollback, Journals, Control
    <2> QED BY <1>1, <2>1, ClosedJournals DEF Commit, FinishRollback
  <1>2. CASE Crash
    <2>1. CASE pc = "planned"
      <3>1. txnState' \in {"none", "committed", "rolled_back"}
        BY <1>2, <2>1 DEF Crash, Journals, Control, Open
      <3> QED BY <1>2, <2>1, <3>1, ClosedJournals DEF Crash
    <2>2. CASE pc # "planned"
      <3>1. /\ pc' = "down" /\ unit' = {} /\ todo' = {} /\ pc # "down"
            /\ UNCHANGED <<kind, opState, undo, txnState>>
        BY <1>2, <2>2 DEF Crash
      <3> QED BY <2>2, <3>1 DEF Journals, Control, Open, Planning
    <2> QED BY <2>1, <2>2
  <1>3. CASE FailForward
    <2>1. /\ pc' = "rollback" /\ unit' = {} /\ todo' = {} /\ pc \in {"walk", "mutate"}
          /\ UNCHANGED <<kind, opState, undo, txnState>>
      BY <1>3 DEF FailForward, journal
    <2> QED BY <2>1 DEF Journals, Control, Open, Planning
  <1>4. CASE Recover
    <2>1. /\ pc' \in {"rollback"} \cup (IF txnState = "running" THEN {"walk"} ELSE {})
          /\ pc = "down" /\ Open /\ UNCHANGED <<kind, opState, undo, txnState, unit, todo>>
      BY <1>4 DEF Recover, journal
    <2> QED BY <2>1 DEF Journals, Control, Open, Planning
  <1>5. CASE BeginRollback
    <2>1. /\ pc = "rollback" /\ pc' = "reverse" /\ txnState' = "rolling_back"
          /\ UNCHANGED <<kind, opState, undo, unit, todo>>
      BY <1>5 DEF BeginRollback
    <2> QED BY <2>1 DEF Journals, Control, Open, Planning
  <1> QED BY <1>1, <1>2, <1>3, <1>4, <1>5

LEMMA ReverseJournals ==
  ASSUME Journals, NEW r \in Resources, StartUnit(r) \/ FinishUnit \/ UndoError(r)
  PROVE  Journals'
  <1>1. CASE StartUnit(r)
    <2>1. /\ pc = "reverse" /\ pc' = "undo" /\ unit' = {r} /\ todo' = {r}
          /\ UNCHANGED <<kind, txnState, undo>>
      BY <1>1 DEF StartUnit
    <2>2. kind[r] \in Mutations
      BY <1>1 DEF StartUnit, LastOf, Undoable, Operations, Mutations
    <2>3. /\ \A q \in Resources : opState'[q] = IF q \in {r} THEN "rolling_back" ELSE opState[q]
          /\ opState' \in [Resources -> {"planned", "applying", "applied",
                                         "rolling_back", "rolled_back", "rollback_failed"}]
      BY <1>1, MarkedFacts DEF StartUnit
    <2> QED BY <2>1, <2>2, <2>3 DEF Journals, Control, Open, Planning
  <1>2. CASE FinishUnit
    <2>1. /\ pc = "undo" /\ pc' = "reverse" /\ unit' = {} /\ todo = {}
          /\ UNCHANGED <<kind, txnState, undo, todo>>
      BY <1>2 DEF FinishUnit
    <2>2. /\ \A q \in Resources : opState'[q] = IF q \in unit THEN "rolled_back" ELSE opState[q]
          /\ opState' \in [Resources -> {"planned", "applying", "applied",
                                         "rolling_back", "rolled_back", "rollback_failed"}]
      BY <1>2, MarkedFacts DEF FinishUnit
    <2> QED BY <2>1, <2>2 DEF Journals, Control, Open, Planning
  <1>3. CASE UndoError(r)
    <2>1. /\ pc = "undo" /\ pc' = "down" /\ unit' = {} /\ todo' = {} /\ txnState' = "rollback_failed"
          /\ r \in unit /\ UNCHANGED <<kind, undo>>
      BY <1>3 DEF UndoError, Undoing, Journals, Control
    <2>2. /\ \A q \in Resources : opState'[q] = IF q \in {r} THEN "rollback_failed" ELSE opState[q]
          /\ opState' \in [Resources -> {"planned", "applying", "applied",
                                         "rolling_back", "rolled_back", "rollback_failed"}]
      BY <1>3, MarkedFacts DEF UndoError
    <2> QED BY <2>1, <2>2 DEF Journals, Control, Open, Planning
  <1> QED BY <1>1, <1>2, <1>3

LEMMA StepJournals == Journals /\ [Next]_vars => Journals'
  <1> SUFFICES ASSUME Journals, [Next]_vars PROVE Journals' OBVIOUS
  <1>1. CASE Others \/ UNCHANGED vars
    <2>1. UNCHANGED <<pc, unit, todo, txnState, kind, opState, undo>>
      BY <1>1 DEF Others, SetByOther, DeletedByOther, KeyDeletedByOther, KeySharedByOther,
         EntryAddedByOther, EntryRemovedByOther, Edited, vars, journal, process
    <2> QED BY <2>1 DEF Journals, Control, Open, Planning
  <1>2. CASE Forward
    BY <1>2, StartGroupJournals, WalkedJournals, FinishGroupJournals, TurnJournals
       DEF Forward, CreateRegistryKey, RemoveRegistryKey, SetRegistryValue, RemoveRegistryValue,
           AddPathEntry, RemovePathEntry
  <1>3. CASE Backward
    BY <1>3, TurnJournals, WalkedJournals, ReverseJournals
       DEF Backward, UndoKey, UndoValue, UndoEntry, Resources
  <1>4. CASE Fault \/ Begin \/ Recover
    BY <1>4, TurnJournals, ReverseJournals, BeginJournals DEF Fault
  <1>5. CASE \/ \E why \in {"install", "repair"}, v \in Versions : Plan(why, v)
             \/ Plan("uninstall", installed)
    BY <1>5, PlanJournals
  <1> QED BY <1>1, <1>2, <1>3, <1>4, <1>5 DEF Next

----------------------------------------------------------------------------

\* The operation on r may have been carried out and is not undone.
Begun(r)  == kind[r] \in Mutations /\ opState[r] \notin {"planned", "rolled_back"}

\* Nothing of it is there: not begun, or undone and not yet journalled so.
Back(r)   == ~Begun(r) \/ (pc = "undo" /\ r \in unit \ todo)

\* Its mutation is done, and no undo begun.
Made(r)   == \/ pc = "mutate" /\ r \in unit \ todo
             \/ txnState = "running" /\ kind[r] \in Mutations /\ opState[r] = "applied"

\* The key and the value are what they can be, an empty segment is not alone
\* in PATH, and an undo record of the value is one.
Tidy ==
  /\ hasKey \in BOOLEAN /\ foreign \in BOOLEAN
  /\ val \in Data \cup {Absent} /\ path \in Paths
  /\ ~hasKey => ~foreign /\ val = Absent
  /\ Padded(path)
  /\ Begun("value") => undo["value"] \in Data \cup {Absent}

\* What the rows, the plan and the installation have to do with each other.
Formed ==
  /\ product \in Products /\ installed \in Versions \cup {None}
  /\ keyRow \in {"none", "created", "found"} /\ entryRow \in {"none", "added", "found"}
  /\ valRow \in Rows /\ valOp \in ValueOps
  /\ installed = None => keyRow = "none" /\ ~Owned /\ entryRow = "none"
  /\ Planning /\ purpose # "uninstall" => version \in Versions
  /\ Planning /\ purpose = "uninstall" => \A r \in Resources : kind[r] \in {"none", "take"}
  /\ Planning /\ kind["key"] = "none" => keyRow # "created"
  /\ kind["key"] = "take" => keyRow = "created" /\ kind["value"] \in {"none", "take"}
  /\ kind["value"] = "take" => Owned /\ valOp = valRow
  /\ kind["value"] \in {"put", "keep"} => valOp.data \in Data
  /\ kind["value"] = "keep" => valOp.restore # None
  /\ kind["value"] = "put" => valOp.restore = IF Owned THEN valRow.restore ELSE None
  /\ kind["entry"] = "put" => entryRow # "found"
  /\ kind["entry"] = "take" => entryRow = "added"

\* The undo of the key's creation comes behind the value's, and so does the
\* removal of the key behind that of the value.
Ordered ==
  /\ pc = "undo" /\ "key" \in unit /\ kind["key"] = "put" => ~Begun("value")
  /\ pc = "mutate" /\ "key" \in unit /\ kind["key"] = "take" /\ kind["value"] = "take"
       => "value" \in unit \/ opState["value"] = "applied"

SaneSnapshot(s) ==
  /\ s \in Snapshots
  /\ ~s[1] => ~s[2] /\ s[3] = Absent
  /\ Padded(s[4])

B == before

KeyRestorable ==
  /\ Back("key") => hasKey = B[1]
  /\ Begun("key") => undo["key"] = B[1]
  /\ kind["key"] = "put" => ~B[1]
  /\ kind["key"] = "put" /\ Made("key") => hasKey
  /\ kind["key"] = "take" => (hasKey => B[1])

ValueRestorable ==
  /\ Back("value") => val = B[3]
  /\ Begun("value") => undo["value"] = B[3] /\ val \in {B[3], Written}
  /\ Made("value") => val = Written
  /\ kind["value"] = "take" => B[3] = valOp.data
  /\ Planning /\ kind["value"] = "none" => ~Owned \/ B[3] # valRow.data
  /\ kind["value"] = "keep" => /\ B[3] = valOp.data \/ (Owned /\ B[3] # valRow.data)
                               /\ valOp.restore = IF Owned THEN valRow.restore ELSE B[3]

EntryRestorable ==
  /\ Begun("entry") => undo["entry"] = (B[4] # Absent)
  /\ ~Planning => SameStrangers(path, B[4]) /\ Present(path) = Present(B[4])
  /\ Planning /\ kind["entry"] \notin Mutations => path = B[4]
  /\ Planning /\ kind["entry"] = "none" => entryRow # "added" \/ ~Present(B[4])
  /\ kind["entry"] = "keep" => entryRow = "found" \/ Present(B[4])
  /\ kind["entry"] = "put" =>
       /\ ~Present(B[4]) /\ path \in {B[4], Appended(B[4])}
       /\ Back("entry") => path = B[4]
       /\ Made("entry") => path = Appended(B[4])
  /\ kind["entry"] = "take" =>
       /\ Present(B[4]) /\ SameStrangers(path, B[4])
       /\ Back("entry") => Present(path)

Restorable ==
  before # None =>
    /\ SaneSnapshot(B) /\ foreign = B[2]
    /\ KeyRestorable /\ ValueRestorable /\ EntryRestorable

\* The rows say what became of the machine the installation was planned on.
O == origin

Settled(there, shared, data, entries) ==
  /\ there = (keyRow = "created" \/ O[1]) /\ (keyRow = "created" => ~O[1])
  /\ shared = O[2]
  /\ IF Owned THEN data = valRow.data /\ valRow.restore = O[3] ELSE data = O[3]
  /\ Text(entries) = IF entryRow = "added" THEN Appended(O[4]) ELSE Text(O[4])
  /\ entryRow = "added" => ~Present(O[4])
  /\ entryRow = "found" => Present(O[4])

EntryAccounted ==
  kind["entry"] = "take" =>
    /\ Text(path) \in {Text(O[4]), Appended(O[4])}
    /\ Back("entry") => Text(path) = Appended(O[4])
    /\ Made("entry") => Text(path) = Text(O[4])

Accounted ==
  origin # None =>
    /\ SaneSnapshot(O)
    /\ ~Planning => Settled(hasKey, foreign, val, path)
    /\ Planning => before # None /\ Settled(B[1], B[2], B[3], B[4])
    /\ kind["key"] = "take" /\ Made("key") => ~hasKey
    /\ EntryAccounted

Faithful == Journals /\ Tidy /\ Formed /\ Ordered /\ Restorable /\ Accounted

----------------------------------------------------------------------------
(* What the steps make of the operations. *)

\* A step that changes nothing but where the process and the journal are.
Quiet ==
  /\ UNCHANGED <<product, machine, rows, purpose, version, kind, valOp, undo, origin, before>>
  /\ Planning' <=> Planning
  /\ \A r \in Resources : (Begun(r)' => Begun(r)) /\ (Back(r)' => Back(r)) /\ (Made(r)' => Made(r))

LEMMA QuietStep ==
  ASSUME Faithful, Quiet, Journals', Ordered' PROVE Faithful'
  <1>1. /\ UNCHANGED <<product, hasKey, foreign, val, path, installed, keyRow, valRow, entryRow,
                       purpose, version, kind, valOp, undo, origin, before>>
    BY DEF Quiet, machine, rows
  <1>2. /\ Owned' = Owned /\ Written' = Written /\ (Planning' <=> Planning)
        /\ Text(path)' = Text(path)
    BY <1>1 DEF Owned, Written, Quiet, Text
  <1>3. \A r \in {"key", "value", "entry"} :
          (Begun(r)' => Begun(r)) /\ (Back(r)' => Back(r)) /\ (Made(r)' => Made(r))
    BY DEF Quiet, Resources
  <1>4. Tidy' BY <1>1, <1>3 DEF Faithful, Tidy
  <1>5. Formed' BY <1>1, <1>2 DEF Faithful, Formed
  <1>6. Restorable'
    BY <1>1, <1>2, <1>3
       DEF Faithful, Restorable, KeyRestorable, ValueRestorable, EntryRestorable, B
  <1>7. Accounted'
    BY <1>1, <1>2, <1>3 DEF Faithful, Accounted, EntryAccounted, Settled, B, O
  <1> QED BY <1>4, <1>5, <1>6, <1>7 DEF Faithful

LEMMA BeginQuiet ==
  ASSUME Journals, Begin PROVE Quiet
  <1>1. \A r \in Resources : opState'[r] = IF kind[r] = "keep" THEN "applied" ELSE "planned"
    BY DEF Begin
  <1>2. \A r \in Resources : ~Begun(r) /\ ~Begun(r)' /\ ~Made(r)'
    BY <1>1 DEF Begin, Journals, Control, Begun, Made, Mutations
  <1>3. Planning' <=> Planning BY DEF Begin, Planning, Open
  <1> QED BY <1>2, <1>3 DEF Begin, Quiet, Back, history

LEMMA FinishGroupQuiet ==
  ASSUME Journals, FinishGroup PROVE Quiet
  <1>1. \A r \in Resources : opState'[r] = IF r \in unit THEN "applied" ELSE opState[r]
    BY MarkedFacts DEF FinishGroup
  <1>2. ASSUME NEW r \in Resources
        PROVE  (Begun(r)' => Begun(r)) /\ (Back(r)' => Back(r)) /\ (Made(r)' => Made(r))
    BY <1>1 DEF FinishGroup, Journals, Begun, Back, Made
  <1>3. Planning' <=> Planning BY DEF FinishGroup, Planning, Open, Journals, Control
  <1> QED BY <1>2, <1>3 DEF FinishGroup, Quiet, history

LEMMA TurnQuiet ==
  ASSUME Journals, FailForward \/ Recover \/ BeginRollback \/ (Crash /\ pc # "planned") PROVE Quiet
  <1>1. /\ UNCHANGED <<product, machine, rows, purpose, version, kind, opState, valOp, undo,
                       origin, before>>
        /\ pc' \notin {"mutate", "undo"}
        /\ txnState' = "running" => txnState = "running"
    BY DEF FailForward, Recover, BeginRollback, Crash, journal, history
  <1>2. Planning' <=> Planning
    BY DEF FailForward, Recover, BeginRollback, Crash, journal, Planning, Open, Journals, Control
  <1>3. ASSUME NEW r \in Resources
        PROVE  (Begun(r)' => Begun(r)) /\ (Back(r)' => Back(r)) /\ (Made(r)' => Made(r))
    BY <1>1 DEF Begun, Back, Made
  <1> QED BY <1>1, <1>2, <1>3 DEF Quiet

LEMMA ReverseQuiet ==
  ASSUME Journals, NEW r \in Resources, StartUnit(r) \/ FinishUnit \/ UndoError(r)
  PROVE  Quiet
  <1>1. /\ UNCHANGED <<product, machine, rows, purpose, version, kind, valOp, undo, origin, before>>
        /\ pc \in {"reverse", "undo"} /\ pc' # "mutate" /\ txnState' \in {txnState, "rollback_failed"}
    BY DEF StartUnit, FinishUnit, UndoError, Undoing, history
  <1>2. txnState' # "running" /\ (Planning' <=> Planning)
    BY <1>1 DEF Planning, Open, Journals, Control, StartUnit, FinishUnit, UndoError, Undoing
  <1>3. ASSUME NEW q \in Resources
        PROVE  (Begun(q)' => Begun(q)) /\ (Back(q)' => Back(q))
    <2>1. CASE StartUnit(r)
      <3>1. opState'[q] = IF q \in {r} THEN "rolling_back" ELSE opState[q]
        BY <2>1, MarkedFacts DEF StartUnit
      <3> QED
        BY <2>1, <3>1 DEF StartUnit, LastOf, Undoable, Operations, Mutations, Begun, Back
    <2>2. CASE FinishUnit
      <3>1. opState'[q] = IF q \in unit THEN "rolled_back" ELSE opState[q]
        BY <2>2, MarkedFacts DEF FinishUnit
      <3> QED BY <2>2, <3>1 DEF FinishUnit, Begun, Back
    <2>3. CASE UndoError(r)
      <3>1. opState'[q] = IF q \in {r} THEN "rollback_failed" ELSE opState[q]
        BY <2>3, MarkedFacts DEF UndoError
      <3> QED BY <2>3, <3>1 DEF UndoError, Undoing, Journals, Control, Begun, Back
    <2> QED BY <2>1, <2>2, <2>3
  <1>4. \A q \in Resources : ~Made(q)' BY <1>1, <1>2 DEF Made
  <1> QED BY <1>1, <1>2, <1>3, <1>4 DEF Quiet

\* A mutation or an undo, and what else it leaves alone.
LEMMA WalkedFacts ==
  ASSUME Journals, NEW r \in Resources, Walked(r), pc \in {"mutate", "undo"}, r \in todo
  PROVE  /\ UNCHANGED <<product, rows, purpose, version, kind, opState, valOp, undo, origin, before>>
         /\ UNCHANGED <<pc, unit, txnState>>
         /\ Planning' /\ Planning
         /\ Begun(r) /\ Begun(r)'
         /\ \A q \in Resources : Begun(q)' <=> Begun(q)
         /\ \A q \in Resources \ {r} : (Back(q)' <=> Back(q)) /\ (Made(q)' <=> Made(q))
         /\ pc = "mutate" => ~Back(r) /\ ~Back(r)'
         /\ pc = "undo" => Back(r)' /\ \A q \in Resources : ~Made(q) /\ ~Made(q)'
  <1>1. /\ UNCHANGED <<product, rows, purpose, version, kind, opState, valOp, undo, origin, before>>
        /\ UNCHANGED <<pc, unit, txnState>>
        /\ todo' = todo \ {r}
    BY DEF Walked, journal
  <1>2. Planning' /\ Planning BY <1>1 DEF Planning, Open, Journals, Control
  <1>3. Begun(r) /\ r \in unit BY <1>1 DEF Journals, Control, Begun
  <1>4. \A q \in Resources : Begun(q)' <=> Begun(q) BY <1>1 DEF Begun
  <1>5. \A q \in Resources \ {r} : (Back(q)' <=> Back(q)) /\ (Made(q)' <=> Made(q))
    BY <1>1, <1>4 DEF Back, Made
  <1>6. pc = "mutate" => ~Back(r) /\ ~Back(r)' BY <1>1, <1>3, <1>4 DEF Back
  <1>7. pc = "undo" => Back(r)' /\ \A q \in Resources : ~Made(q) /\ ~Made(q)'
    BY <1>1, <1>3 DEF Back, Made, Journals, Control
  <1> QED BY <1>1, <1>2, <1>3, <1>4, <1>5, <1>6, <1>7

----------------------------------------------------------------------------
(* The order of the walk. *)

LEMMA StepOrdered ==
  ASSUME Journals, Ordered, [Next]_vars PROVE Ordered'
  <1>1. CASE pc' \notin {"mutate", "undo"} BY <1>1 DEF Ordered
  <1>2. CASE pc' = pc /\ UNCHANGED <<kind, unit, opState>> BY <1>2 DEF Ordered, Begun
  <1>3. CASE StartGroup
    <2>1. "key" \in NextGroup /\ kind["key"] = "take" /\ kind["value"] = "take"
            /\ opState["value"] # "applied"
          => "value" \in NextGroup
      <3> SUFFICES ASSUME "key" \in NextGroup, kind["key"] = "take", kind["value"] = "take",
                          opState["value"] # "applied"
                   PROVE  "value" \in NextGroup
        OBVIOUS
      <3> DEFINE Upto(r) == {q \in Pending : Position(q) <= Position(r)}
      <3>1. "value" \in Pending /\ Pending \subseteq Resources
        BY <1>3 DEF StartGroup, Journals, Control, Pending, Operations, Resources
      <3>2. /\ Position("value") = 5 /\ Position("key") = 6
            /\ \A q \in Resources : Position(q) \in Nat
        BY DEF Position, Resources
      <3>3. Upto("value") \subseteq Upto("key") BY <3>1, <3>2
      <3>4. IsFiniteSet(Resources)
        <4>1. Resources = {"key"} \cup {"value"} \cup {"entry"} BY DEF Resources
        <4> QED BY <4>1, FS_Singleton, FS_Union
      <3>5. IsFiniteSet(Upto("key")) /\ IsFiniteSet(Upto("value")) BY <3>1, <3>4, FS_Subset
      <3>6. Cardinality(Upto("value")) <= Cardinality(Upto("key")) BY <3>3, <3>5, FS_Subset
      <3>7. Cardinality(Upto("value")) \in Nat /\ Cardinality(Upto("key")) \in Nat
        BY <3>5, FS_CardinalityType
      <3>8. Cardinality(Upto("key")) <= GroupBatches BY DEF NextGroup
      <3>9. Cardinality(Upto("value")) <= GroupBatches
        BY <3>6, <3>7, <3>8, IntegrationsAssumption
      <3> QED BY <3>1, <3>9 DEF NextGroup
    <2>2. pc' = "mutate" /\ unit' = NextGroup /\ kind' = kind BY <1>3 DEF StartGroup
    <2>3. \A r \in Resources : opState'[r] = IF r \in NextGroup THEN "applying" ELSE opState[r]
      BY <1>3, MarkedFacts DEF StartGroup
    <2> QED BY <2>1, <2>2, <2>3 DEF Ordered, Resources
  <1>4. ASSUME NEW r \in Resources, StartUnit(r) PROVE Ordered'
    <2>1. pc' = "undo" /\ unit' = {r} /\ kind' = kind BY <1>4 DEF StartUnit
    <2>2. ASSUME r = "key", kind["key"] = "put" PROVE "value" \notin Undoable
      BY <1>4, <2>2 DEF StartUnit, LastOf, Position, Resources
    <2>3. \A q \in Resources : opState'[q] = IF q \in {r} THEN "rolling_back" ELSE opState[q]
      BY <1>4, MarkedFacts DEF StartUnit
    <2> QED
      BY <2>1, <2>2, <2>3 DEF Ordered, Undoable, Operations, Mutations, Begun, Resources
  <1>5. \/ pc' \notin {"mutate", "undo"} \/ (pc' = pc /\ UNCHANGED <<kind, unit, opState>>)
        \/ StartGroup \/ \E r \in Resources : StartUnit(r)
    <2>1. CASE Others \/ UNCHANGED vars
      BY <2>1 DEF Others, SetByOther, DeletedByOther, KeyDeletedByOther, KeySharedByOther,
         EntryAddedByOther, EntryRemovedByOther, Edited, vars, journal, process
    <2>2. CASE Forward
      BY <2>2 DEF Forward, CreateRegistryKey, RemoveRegistryKey, SetRegistryValue,
         RemoveRegistryValue, AddPathEntry, RemovePathEntry, FinishGroup, Commit, Walked, journal
    <2>3. CASE Backward
      BY <2>3 DEF Backward, UndoKey, UndoValue, UndoEntry, FinishUnit, FinishRollback,
         BeginRollback, Walked, journal
    <2>4. CASE \/ Fault \/ Begin \/ Recover \/ Plan("uninstall", installed)
               \/ \E why \in {"install", "repair"}, v \in Versions : Plan(why, v)
      BY <2>4 DEF Fault, Crash, FailForward, UndoError, Begin, Recover, Plan
    <2> QED BY <2>1, <2>2, <2>3, <2>4 DEF Next
  <1> QED BY <1>1, <1>2, <1>3, <1>4, <1>5

----------------------------------------------------------------------------
(* The steps that change the machine. *)

\* Each resource only sees the steps that are about it.
LEMMA KeyKept ==
  ASSUME KeyRestorable, UNCHANGED <<hasKey, kind, undo, before>>,
         (Begun("key")' => Begun("key")), (Back("key")' => Back("key")), (Made("key")' => Made("key"))
  PROVE  KeyRestorable'
  BY DEF KeyRestorable, B

LEMMA ValueKept ==
  ASSUME ValueRestorable, UNCHANGED <<val, kind, undo, before, valOp, valRow>>, Planning' <=> Planning,
         (Begun("value")' => Begun("value")), (Back("value")' => Back("value")),
         (Made("value")' => Made("value"))
  PROVE  ValueRestorable'
  <1>1. Written' = Written /\ Owned' = Owned BY DEF Written, Owned
  <1> QED BY <1>1 DEF ValueRestorable, B

LEMMA EntryKept ==
  ASSUME UNCHANGED <<path, kind, undo, before, origin, entryRow>>, Planning' <=> Planning,
         (Begun("entry")' => Begun("entry")), (Back("entry")' => Back("entry")),
         (Made("entry")' => Made("entry"))
  PROVE  /\ EntryRestorable => EntryRestorable'
         /\ EntryAccounted => EntryAccounted'
  <1>1. EntryRestorable => EntryRestorable' BY DEF EntryRestorable, B
  <1>2. EntryAccounted => EntryAccounted' BY DEF EntryAccounted, O, Text
  <1> QED BY <1>1, <1>2

LEMMA RowsKept ==
  ASSUME UNCHANGED <<product, rows, purpose, version, kind, valOp, origin, before>>,
         Planning', Planning
  PROVE  /\ Formed => Formed'
         /\ \A a, b, c, d : Settled(a, b, c, d) => Settled(a, b, c, d)'
         /\ Owned' = Owned /\ O' = O /\ B' = B
  <1>1. UNCHANGED <<product, installed, keyRow, valRow, entryRow, purpose, version, kind, valOp,
                    origin, before>>
    BY DEF rows
  <1>2. Owned' = Owned /\ O' = O /\ B' = B BY <1>1 DEF Owned, O, B
  <1>3. Formed => Formed' BY <1>1, <1>2 DEF Formed
  <1>4. \A a, b, c, d : Settled(a, b, c, d) => Settled(a, b, c, d)'
    BY <1>1, <1>2 DEF Settled
  <1> QED BY <1>2, <1>3, <1>4

\* What the origin says where a product owns the key: there was none.
LEMMA CreatedKey ==
  ASSUME Faithful, origin # None, Planning, keyRow = "created"
  PROVE  /\ before # None /\ Settled(B[1], B[2], B[3], B[4])
         /\ foreign = FALSE /\ O[3] = Absent /\ O[2] = FALSE
  <1>1. before # None /\ Settled(B[1], B[2], B[3], B[4]) /\ SaneSnapshot(O)
    BY DEF Faithful, Accounted
  <1>2. ~O[1] /\ B[2] = O[2] BY <1>1 DEF Settled
  <1>3. O[2] \in BOOLEAN BY <1>1 DEF SaneSnapshot, Snapshots
  <1>4. O[2] = FALSE /\ O[3] = Absent BY <1>1, <1>2, <1>3 DEF SaneSnapshot
  <1>5. foreign = B[2] BY <1>1 DEF Faithful, Restorable
  <1> QED BY <1>1, <1>2, <1>4, <1>5

LEMMA KeySteps ==
  ASSUME Faithful, CreateRegistryKey \/ RemoveRegistryKey \/ UndoKey
  PROVE  Tidy' /\ Formed' /\ Restorable' /\ Accounted'
  <1>1. /\ Walked("key") /\ pc \in {"mutate", "undo"} /\ "key" \in todo
        /\ UNCHANGED <<foreign, val, path>>
        /\ CreateRegistryKey => pc = "mutate" /\ kind["key"] = "put" /\ hasKey' = TRUE
        /\ RemoveRegistryKey => pc = "mutate" /\ kind["key"] = "take" /\ hasKey' = Emptied
        /\ UndoKey => /\ pc = "undo"
                      /\ hasKey' = CASE kind["key"] = "put" /\ undo["key"] = FALSE -> Emptied
                                     [] kind["key"] = "take" /\ undo["key"] -> TRUE
                                     [] OTHER -> hasKey
    BY DEF CreateRegistryKey, RemoveRegistryKey, UndoKey, Mutating, FirstOf, Undoing
  <1>2. /\ UNCHANGED <<product, rows, purpose, version, kind, opState, valOp, undo, origin, before>>
        /\ UNCHANGED <<pc, unit, txnState>>
        /\ Planning' /\ Planning /\ Begun("key")
        /\ \A q \in {"key", "value", "entry"} : Begun(q)' <=> Begun(q)
        /\ \A q \in {"value", "entry"} : (Back(q)' <=> Back(q)) /\ (Made(q)' <=> Made(q))
        /\ pc = "mutate" => ~Back("key")'
        /\ pc = "undo" => Back("key")' /\ ~Made("key")'
    BY <1>1, WalkedFacts DEF Faithful, Resources
  <1>3. UNCHANGED <<valRow, entryRow, keyRow>> BY <1>2 DEF rows
  <1>4. kind["key"] \in Mutations /\ "key" \in unit
    BY <1>1, <1>2 DEF Begun, Faithful, Journals, Control
  <1>5. Emptied \in BOOLEAN /\ (Emptied => hasKey) BY DEF Emptied, Faithful, Tidy
  <1>6. Tidy'
    <2>1. hasKey' \in BOOLEAN BY <1>1, <1>5 DEF Faithful, Tidy, Mutations
    <2>2. ~hasKey' => ~hasKey \/ hasKey' = Emptied BY <1>1
    <2>3. ~hasKey' => foreign = FALSE /\ val = Absent BY <2>2 DEF Emptied, Faithful, Tidy
    <2> QED BY <1>1, <1>2, <2>1, <2>3 DEF Faithful, Tidy, Padded, Text
  <1>7. Formed' BY <1>2, RowsKept DEF Faithful
  <1>8. ASSUME before # None PROVE KeyRestorable'
    <2>1. SaneSnapshot(B) /\ foreign = B[2] /\ KeyRestorable /\ ValueRestorable
      BY <1>8 DEF Faithful, Restorable
    <2>2. B[1] \in BOOLEAN BY <2>1 DEF SaneSnapshot, Snapshots
    <2>3. B' = B BY <1>2 DEF B
    <2>4. CASE CreateRegistryKey BY <1>1, <1>2, <2>1, <2>3, <2>4 DEF KeyRestorable
    <2>5. CASE RemoveRegistryKey BY <1>1, <1>2, <1>5, <2>1, <2>3, <2>5 DEF KeyRestorable
    <2>6. CASE UndoKey
      <3>1. undo["key"] = B[1] BY <1>2, <2>1 DEF KeyRestorable
      <3>2. ASSUME kind["key"] = "put" PROVE hasKey' = B[1]
        <4>1. B[1] = FALSE BY <2>1, <2>2, <3>2 DEF KeyRestorable
        <4>2. ~foreign /\ B[3] = Absent BY <4>1, <2>1 DEF SaneSnapshot
        <4>3. ~Begun("value") BY <1>1, <1>4, <2>6, <3>2 DEF Faithful, Ordered
        <4>4. val = Absent BY <4>2, <4>3, <2>1 DEF ValueRestorable, Back
        <4>5. Emptied = FALSE BY <4>2, <4>4 DEF Emptied
        <4> QED BY <1>1, <2>6, <3>1, <3>2, <4>1, <4>5
      <3>3. ASSUME kind["key"] = "take" PROVE hasKey' = B[1]
        <4>1. hasKey => B[1] BY <2>1, <3>3 DEF KeyRestorable
        <4>2. hasKey' = IF undo["key"] THEN TRUE ELSE hasKey BY <1>1, <2>6, <3>3
        <4> QED BY <2>2, <3>1, <4>1, <4>2 DEF Faithful, Tidy
      <3> QED
        BY <1>2, <1>4, <2>1, <2>3, <2>6, <1>1, <3>1, <3>2, <3>3 DEF KeyRestorable, Mutations
    <2> QED BY <2>4, <2>5, <2>6
  <1>9. Restorable'
    BY <1>1, <1>2, <1>3, <1>8, ValueKept, EntryKept DEF Faithful, Restorable, B
  <1>10. ASSUME origin # None, kind["key"] = "take", Made("key")' PROVE ~hasKey'
    <2>1. RemoveRegistryKey BY <1>1, <1>2, <1>10
    <2>2. keyRow = "created" /\ kind["value"] \in {"none", "take"}
      BY <1>10 DEF Faithful, Formed
    <2>3. /\ before # None /\ Settled(B[1], B[2], B[3], B[4])
          /\ foreign = FALSE /\ O[3] = Absent
      BY <1>2, <1>10, <2>2, CreatedKey
    <2>4. ValueRestorable BY <2>3 DEF Faithful, Restorable
    <2>5. ASSUME kind["value"] = "none" PROVE val = Absent
      <3>1. val = B[3] /\ (~Owned \/ B[3] # valRow.data)
        BY <1>2, <2>4, <2>5 DEF ValueRestorable, Back, Begun, Mutations
      <3> QED BY <2>3, <3>1 DEF Settled
    <2>6. ASSUME kind["value"] = "take" PROVE val = Absent
      <3>1. "value" \notin todo
        BY <2>1, <2>6, <1>10 DEF RemoveRegistryKey, Mutating, FirstOf, Position
      <3>2. txnState = "running" BY <1>1, <2>1 DEF Faithful, Journals, Control
      <3>3. "value" \in unit \/ opState["value"] = "applied"
        BY <1>1, <1>4, <1>10, <2>1, <2>6 DEF Faithful, Ordered
      <3>4. Made("value") BY <1>1, <2>1, <2>6, <3>1, <3>2, <3>3 DEF Made, Mutations
      <3>5. val = valOp.restore /\ Owned /\ valOp = valRow
        BY <2>4, <2>6, <3>4 DEF ValueRestorable, Written, Faithful, Formed
      <3> QED BY <2>3, <3>5 DEF Settled
    <2>7. Emptied = FALSE BY <2>2, <2>3, <2>5, <2>6 DEF Emptied
    <2> QED BY <1>1, <2>1, <2>7
  <1>11. Accounted' BY <1>1, <1>2, <1>3, <1>10, RowsKept, EntryKept DEF Faithful, Accounted
  <1> QED BY <1>6, <1>7, <1>9, <1>11

LEMMA ValueSteps ==
  ASSUME Faithful, SetRegistryValue \/ RemoveRegistryValue \/ UndoValue
  PROVE  Tidy' /\ Formed' /\ Restorable' /\ Accounted'
  <1>1. /\ Walked("value") /\ pc \in {"mutate", "undo"} /\ "value" \in todo
        /\ UNCHANGED <<foreign, hasKey, path>>
        /\ SetRegistryValue => pc = "mutate" /\ kind["value"] = "put" /\ val' = valOp.data /\ hasKey
        /\ RemoveRegistryValue => pc = "mutate" /\ kind["value"] = "take" /\ val' = Taken
        /\ UndoValue => pc = "undo" /\ val' = Restored /\ (Restored # Absent => hasKey)
    BY DEF SetRegistryValue, RemoveRegistryValue, UndoValue, Mutating, FirstOf, Undoing
  <1>2. /\ UNCHANGED <<product, rows, purpose, version, kind, opState, valOp, undo, origin, before>>
        /\ UNCHANGED <<pc, unit, txnState>>
        /\ Planning' /\ Planning /\ Begun("value")
        /\ \A q \in {"key", "value", "entry"} : Begun(q)' <=> Begun(q)
        /\ \A q \in {"key", "entry"} : (Back(q)' <=> Back(q)) /\ (Made(q)' <=> Made(q))
        /\ pc = "mutate" => ~Back("value")'
        /\ pc = "undo" => Back("value")' /\ ~Made("value")'
    BY <1>1, WalkedFacts DEF Faithful, Resources
  <1>3. UNCHANGED <<valRow, entryRow, keyRow>> BY <1>2 DEF rows
  <1>4. kind["value"] \in Mutations /\ Written' = Written BY <1>2 DEF Begun, Written
  <1>5. kind["value"] = "put" => valOp.data \in Data BY DEF Faithful, Formed
  <1>6. kind["value"] = "take" => valOp.data \in Data /\ valOp.restore \in Data \cup {Absent}
    BY DEF Faithful, Formed, Owned, Rows
  <1>7. undo["value"] \in Data \cup {Absent} /\ val \in Data \cup {Absent}
    BY <1>2 DEF Faithful, Tidy
  <1>8. Tidy'
    <2>1. val' \in Data \cup {Absent} BY <1>1, <1>5, <1>6, <1>7 DEF Taken, Restored
    <2>2. ~hasKey => val' = Absent BY <1>1, <1>6 DEF Taken, Faithful, Tidy
    <2> QED BY <1>1, <1>2, <2>1, <2>2 DEF Faithful, Tidy, Padded, Text
  <1>9. Formed' BY <1>2, RowsKept DEF Faithful
  <1>10. ASSUME before # None PROVE ValueRestorable'
    <2>1. ValueRestorable /\ B' = B /\ Owned' = Owned
      BY <1>2, <1>3, <1>10 DEF Faithful, Restorable, B, Owned
    <2>2. val \in {B[3], Written} /\ undo["value"] = B[3] BY <1>2, <2>1 DEF ValueRestorable
    <2>3. pc = "mutate" => val' = Written
      BY <1>1, <2>1, <2>2 DEF Taken, Written, ValueRestorable
    <2>4. pc = "undo" => val' = B[3] BY <1>1, <2>2 DEF Restored
    <2> QED BY <1>1, <1>2, <1>3, <1>4, <2>1, <2>2, <2>3, <2>4 DEF ValueRestorable, Mutations
  <1>11. Restorable'
    BY <1>1, <1>2, <1>3, <1>10, KeyKept, EntryKept DEF Faithful, Restorable, B
  <1>12. Accounted' BY <1>1, <1>2, <1>3, RowsKept, EntryKept DEF Faithful, Accounted
  <1> QED BY <1>8, <1>9, <1>11, <1>12

\* What is said of a PATH depends on its text alone.
LEMMA TextAlone ==
  ASSUME NEW p, NEW q, Text(p) = Text(q)
  PROVE  (Present(p) <=> Present(q)) /\ Appended(p) = Appended(q)
  BY DEF Present, Appended

LEMMA EntrySteps ==
  ASSUME Faithful, AddPathEntry \/ RemovePathEntry \/ UndoEntry
  PROVE  Tidy' /\ Formed' /\ Restorable' /\ Accounted'
  <1>1. /\ Walked("entry") /\ pc \in {"mutate", "undo"} /\ "entry" \in todo
        /\ UNCHANGED <<foreign, hasKey, val>>
        /\ AddPathEntry => pc = "mutate" /\ kind["entry"] = "put" /\ path' = EntryAdded(path)
        /\ RemovePathEntry => /\ pc = "mutate" /\ kind["entry"] = "take"
                              /\ path' = EntryRemoved(path, TRUE)
        /\ UndoEntry => /\ pc = "undo"
                        /\ path' = IF kind["entry"] = "put" THEN EntryRemoved(path, ~undo["entry"])
                                   ELSE IF undo["entry"] THEN EntryAdded(path) ELSE path
    BY DEF AddPathEntry, RemovePathEntry, UndoEntry, Mutating, FirstOf, Undoing
  <1>2. /\ UNCHANGED <<product, rows, purpose, version, kind, opState, valOp, undo, origin, before>>
        /\ UNCHANGED <<pc, unit, txnState>>
        /\ Planning' /\ Planning /\ Begun("entry")
        /\ \A q \in {"key", "value", "entry"} : Begun(q)' <=> Begun(q)
        /\ \A q \in {"key", "value"} : (Back(q)' <=> Back(q)) /\ (Made(q)' <=> Made(q))
        /\ pc = "mutate" => ~Back("entry")'
        /\ pc = "undo" => Back("entry")' /\ ~Made("entry")'
    BY <1>1, WalkedFacts DEF Faithful, Resources
  <1>3. UNCHANGED <<valRow, entryRow, keyRow>> BY <1>2 DEF rows
  <1>4. kind["entry"] \in Mutations /\ path \in Paths /\ Padded(path)
    BY <1>2 DEF Begun, Faithful, Tidy
  <1>5. path' \in Paths /\ Padded(path')
    <2>1. EntryAdded(path) \in Paths /\ Padded(EntryAdded(path)) BY <1>4, AddedKeeps
    <2>2. \A d : EntryRemoved(path, d) \in Paths /\ Padded(EntryRemoved(path, d))
      BY <1>4, RemovedKeeps
    <2>3. \/ path' = EntryAdded(path) \/ path' = path
          \/ path' = EntryRemoved(path, TRUE) \/ path' = EntryRemoved(path, ~undo["entry"])
      BY <1>1
    <2> QED BY <1>4, <2>1, <2>2, <2>3
  <1>6. Tidy' BY <1>1, <1>2, <1>5 DEF Faithful, Tidy, Padded, Text
  <1>7. Formed' BY <1>2, RowsKept DEF Faithful
  <1>8. ASSUME before # None PROVE EntryRestorable'
    <2>1. SaneSnapshot(B) /\ EntryRestorable /\ B' = B
      BY <1>2, <1>8 DEF Faithful, Restorable, B
    <2>2. B[4] \in Paths /\ Padded(B[4]) /\ undo["entry"] = (B[4] # Absent)
      BY <1>2, <2>1 DEF SaneSnapshot, Snapshots, EntryRestorable
    <2>3. CASE kind["entry"] = "put"
      <3>1. ~Present(B[4]) /\ path \in {B[4], Appended(B[4])}
        BY <2>1, <2>3 DEF EntryRestorable
      <3>2. pc = "mutate" => path' = Appended(B[4])
        BY <1>1, <2>2, <2>3, <3>1, AppendedRemoved
      <3>3. pc = "undo" => path' = B[4]
        <4>1. EntryRemoved(B[4], ~undo["entry"]) = B[4] BY <3>1 DEF EntryRemoved
        <4>2. EntryRemoved(Appended(B[4]), ~undo["entry"]) = B[4]
          BY <2>2, <3>1, AppendedRemoved
        <4> QED BY <1>1, <2>3, <3>1, <4>1, <4>2
      <3>4. ~Present(B[4])' /\ (path \in {B[4], Appended(B[4])})'
        BY <1>1, <2>1, <3>1, <3>2, <3>3
      <3>5. (Back("entry")' => path' = B'[4]) /\ (Made("entry")' => path' = Appended(B[4])')
        BY <1>1, <1>2, <2>1, <3>2, <3>3
      <3> QED BY <1>2, <2>1, <2>2, <2>3, <3>4, <3>5 DEF EntryRestorable, Mutations
    <2>4. CASE kind["entry"] = "take"
      <3>1. Present(B[4]) /\ SameStrangers(path, B[4]) /\ undo["entry"]
        <4>1. ~Present(Absent) BY DEF Present, Text
        <4>2. Present(B[4]) /\ SameStrangers(path, B[4]) BY <2>1, <2>4 DEF EntryRestorable
        <4>3. B[4] # Absent BY <4>1, <4>2
        <4> QED BY <2>2, <4>2, <4>3
      <3>2. pc = "mutate" => SameStrangers(path', path)
        <4>1. \A d : SameStrangers(EntryRemoved(path, d), path) BY <1>4, RemovedKeeps
        <4>2. pc = "mutate" => path' = EntryRemoved(path, TRUE) BY <1>1, <2>4
        <4> QED BY <4>1, <4>2
      <3>3. pc = "undo" => SameStrangers(path', path) /\ Present(path')
        BY <1>1, <1>4, <2>4, <3>1, AddedKeeps
      <3>4. SameStrangers(path', B[4]) BY <1>1, <3>1, <3>2, <3>3, SameTransitive
      <3>5. SameStrangers(path, B[4])' /\ (pc = "undo" => Present(path)')
        BY <3>3, <3>4, <2>1
      <3> QED BY <1>1, <1>2, <2>1, <2>2, <2>4, <3>1, <3>5 DEF EntryRestorable, Mutations
    <2> QED BY <1>4, <2>3, <2>4 DEF Mutations
  <1>9. Restorable'
    BY <1>1, <1>2, <1>3, <1>8, KeyKept, ValueKept DEF Faithful, Restorable, B
  <1>10. ASSUME origin # None PROVE EntryAccounted'
    <2> SUFFICES ASSUME kind["entry"] = "take"
                 PROVE  /\ Text(path') \in {Text(O[4]), Appended(O[4])}
                        /\ pc = "undo" => Text(path') = Appended(O[4])
                        /\ pc = "mutate" => Text(path') = Text(O[4])
      BY <1>1, <1>2 DEF EntryAccounted, O, Text
    <2>1. /\ SaneSnapshot(O) /\ before # None /\ Settled(B[1], B[2], B[3], B[4]) /\ EntryAccounted
          /\ entryRow = "added"
      BY <1>2, <1>10 DEF Faithful, Accounted, Formed
    <2>2. O[4] \in Paths /\ Padded(O[4]) /\ ~Present(O[4])
      BY <2>1 DEF SaneSnapshot, Snapshots, Settled
    <2>3. Text(path) \in {Text(O[4]), Appended(O[4])} BY <2>1 DEF EntryAccounted
    <2>4. /\ Appended(O[4]) \in Paths /\ Present(Appended(O[4]))
          /\ EntryAdded(Appended(O[4])) = Appended(O[4])
          /\ Text(EntryRemoved(Appended(O[4]), TRUE)) = Text(O[4])
          /\ Text(Appended(O[4])) = Appended(O[4])
      BY <2>2, AppendedRemoved, AppendedCloses
    <2>5. CASE Text(path) = Text(O[4])
      <3>1. ~Present(path) /\ Appended(path) = Appended(O[4]) BY <2>2, <2>5, TextAlone
      <3>2. EntryRemoved(path, TRUE) = path /\ EntryAdded(path) = Appended(O[4])
        BY <3>1 DEF EntryRemoved, EntryAdded
      <3>3. pc = "undo" => undo["entry"]
        <4>1. undo["entry"] = (B[4] # Absent) /\ Present(B[4])
          BY <1>2, <2>1 DEF Faithful, Restorable, EntryRestorable
        <4>2. ~Present(Absent) BY DEF Present, Text
        <4> QED BY <4>1, <4>2
      <3>4. pc = "undo" => path' = Appended(O[4]) BY <1>1, <3>2, <3>3
      <3>5. pc = "mutate" => path' = path BY <1>1, <3>2
      <3>6. pc = "undo" \/ pc = "mutate" BY <1>1
      <3>7. Text(path') \in {Text(O[4]), Appended(O[4])} BY <2>4, <2>5, <3>4, <3>5, <3>6
      <3> QED BY <2>4, <2>5, <3>4, <3>5, <3>7
    <2>6. CASE Text(path) = Appended(O[4])
      <3>1. path = Appended(O[4])
        <4>1. Appended(O[4]) # <<>> BY <2>4 DEF Present
        <4> QED BY <2>6, <4>1 DEF Text
      <3>2. pc = "undo" => path' = Appended(O[4])
        <4>1. undo["entry"] = (B[4] # Absent) /\ Present(B[4])
          BY <1>2, <2>1 DEF Faithful, Restorable, EntryRestorable
        <4> QED BY <1>1, <2>4, <3>1
      <3>3. pc = "mutate" => Text(path') = Text(O[4]) BY <1>1, <2>4, <3>1
      <3> QED BY <1>1, <2>4, <3>2, <3>3
    <2> QED BY <2>3, <2>5, <2>6
  <1>11. Accounted' BY <1>1, <1>2, <1>3, <1>10, RowsKept DEF Faithful, Accounted
  <1> QED BY <1>6, <1>7, <1>9, <1>11

----------------------------------------------------------------------------
(* The steps that only change the journal, the plan or the rows. *)

LEMMA InitFaithful == Init => Faithful
  <1> SUFFICES ASSUME Init PROVE Faithful OBVIOUS
  <1>1. Journals BY InitJournals
  <1>2. path \in Paths /\ Padded(path)
    <2>1. <<>> \in Seq(Segments) /\ <<"other">> \in Seq(Segments) /\ <<"other", "blank">> \in Seq(Segments)
          /\ <<"alike", "other">> \in Seq(Segments)
      BY DEF Segments
    <2>2. path \in Paths /\ path \in InitialPaths BY <2>1 DEF Init, InitialPaths, Paths
    <2>3. CASE path \in {Absent, <<>>, <<"other">>, <<"alike", "other">>}
      <3>1. Text(path) \in {<<>>, <<"other">>, <<"alike", "other">>} BY <2>3 DEF Text
      <3>2. \A i \in DOMAIN Text(path) : Text(path)[i] # "blank" BY <3>1
      <3> QED BY <2>2, <3>2 DEF Padded
    <2>4. CASE path = <<"other", "blank">>
      <3>1. Text(path) = <<"other", "blank">> BY <2>1, <2>4 DEF Text
      <3>2. 1 \in DOMAIN Text(path) /\ Text(path)[1] = "other" BY <3>1
      <3> QED BY <2>2, <3>2 DEF Padded
    <2> QED BY <2>2, <2>3, <2>4 DEF InitialPaths
  <1>3. kind["key"] = "none" /\ kind["value"] = "none" /\ kind["entry"] = "none"
    BY DEF Init, NoPlan, Resources
  <1>4. Tidy
    <2>1. HasValue \in BOOLEAN BY DEF HasValue
    <2>2. val \in Data \cup {Absent} /\ hasKey \in BOOLEAN /\ (~hasKey => val = Absent)
      BY <2>1 DEF Init
    <2> QED BY <1>2, <1>3, <2>2 DEF Init, Tidy, Begun, Mutations
  <1>5. Formed BY <1>3 DEF Init, Formed, Owned, Rows, ValueOps, NoOp, Planning, Open
  <1>6. Ordered /\ Restorable /\ Accounted BY DEF Init, Ordered, Restorable, Accounted
  <1> QED BY <1>1, <1>4, <1>5, <1>6 DEF Faithful

\* The undo records are taken of the machine as the plan found it.
LEMMA StartGroupFaithful ==
  ASSUME Faithful, StartGroup PROVE Tidy' /\ Formed' /\ Restorable' /\ Accounted'
  <1>1. /\ UNCHANGED <<product, machine, rows, purpose, version, kind, valOp, origin, before, txnState>>
        /\ pc = "walk" /\ pc' = "mutate" /\ unit' = NextGroup /\ todo' = NextGroup
        /\ undo' = [r \in Resources |-> IF r \in Unprepared(NextGroup) THEN Found(r) ELSE undo[r]]
    BY DEF StartGroup, history
  <1>2. UNCHANGED <<product, hasKey, foreign, val, path, installed, keyRow, valRow, entryRow,
                    purpose, version, kind, valOp, origin, before, txnState>>
    BY <1>1 DEF machine, rows
  <1>3. txnState = "running" /\ Planning /\ Planning'
    BY <1>1 DEF Faithful, Journals, Control, Planning, Open
  <1>4. ASSUME NEW r \in Resources
        PROVE  /\ r \notin NextGroup => (Begun(r)' <=> Begun(r)) /\ undo'[r] = undo[r]
               /\ r \in NextGroup => undo'[r] = IF Begun(r) THEN undo[r] ELSE Found(r)
               /\ Begun(r)' => Begun(r) \/ r \in NextGroup
               /\ (Back(r)' => Back(r)) /\ (Made(r)' => Made(r))
    <2>1. opState'[r] = IF r \in NextGroup THEN "applying" ELSE opState[r]
      BY MarkedFacts DEF StartGroup, Faithful
    <2>2. r \in NextGroup => kind[r] \in Mutations /\ opState[r] \in {"planned", "applying"}
      BY DEF NextGroup, Pending, Operations, Mutations
    <2>3. r \in Unprepared(NextGroup) <=> r \in NextGroup /\ ~Begun(r)
      BY <2>2 DEF Unprepared, Begun
    <2>4. undo'[r] = IF r \in Unprepared(NextGroup) THEN Found(r) ELSE undo[r] BY <1>1
    <2>5. (Back(r)' => Back(r)) /\ (Made(r)' => Made(r))
      BY <1>1, <2>1, <2>2, <1>3 DEF Back, Made, Begun
    <2>6. /\ r \notin NextGroup => (Begun(r)' <=> Begun(r))
          /\ Begun(r)' => Begun(r) \/ r \in NextGroup
      BY <1>1, <2>1 DEF Begun
    <2> QED BY <2>3, <2>4, <2>5, <2>6
  <1>5. \A r \in {"key", "value", "entry"} :
          /\ (Back(r)' => Back(r)) /\ (Made(r)' => Made(r))
          /\ Begun(r)' => undo'[r] = IF Begun(r) THEN undo[r] ELSE Found(r)
    BY <1>4 DEF Resources
  <1>6. /\ Written' = Written /\ Owned' = Owned /\ Text(path)' = Text(path)
        /\ Found("key") = hasKey /\ Found("value") = val /\ Found("entry") = (path # Absent)
    BY <1>2 DEF Written, Owned, Text, Found
  <1>7. Tidy' BY <1>2, <1>5, <1>6 DEF Faithful, Tidy, Padded
  <1>8. Formed' BY <1>1, <1>3, RowsKept DEF Faithful
  <1>9. ASSUME before # None PROVE KeyRestorable' /\ ValueRestorable' /\ EntryRestorable'
    <2>1. /\ KeyRestorable /\ ValueRestorable /\ EntryRestorable /\ B' = B
      BY <1>2, <1>9 DEF Faithful, Restorable, B
    <2>2. KeyRestorable' BY <1>2, <1>5, <1>6, <2>1 DEF KeyRestorable, Back
    <2>3. ValueRestorable' BY <1>2, <1>3, <1>5, <1>6, <2>1 DEF ValueRestorable, Back
    <2>4. Begun("entry")' => undo'["entry"] = (B[4] # Absent)
      <3>1. CASE Begun("entry") \/ ~Begun("entry")' BY <1>5, <2>1, <3>1 DEF EntryRestorable
      <3>2. CASE ~Begun("entry") /\ Begun("entry")'
        <4>1. kind["entry"] \in Mutations /\ Back("entry") /\ undo'["entry"] = (path # Absent)
          BY <1>2, <1>5, <1>6, <3>2 DEF Begun, Back
        <4>2. ~Present(Absent) BY DEF Present, Text
        <4>3. kind["entry"] = "put" => path = B[4] BY <2>1, <4>1 DEF EntryRestorable
        <4>4. kind["entry"] = "take" => Present(B[4]) /\ Present(path)
          BY <2>1, <4>1 DEF EntryRestorable
        <4> QED BY <4>1, <4>2, <4>3, <4>4 DEF Mutations
      <3> QED BY <3>1, <3>2
    <2>5. EntryRestorable' BY <1>2, <1>3, <1>5, <2>1, <2>4 DEF EntryRestorable
    <2> QED BY <2>2, <2>3, <2>5
  <1>10. Restorable' BY <1>2, <1>9 DEF Faithful, Restorable, B
  <1>11. EntryAccounted => EntryAccounted' BY <1>2, <1>5, <1>6 DEF EntryAccounted, O
  <1>12. Accounted' BY <1>1, <1>2, <1>3, <1>5, <1>11, RowsKept DEF Faithful, Accounted
  <1> QED BY <1>7, <1>8, <1>10, <1>12

\* What a plan records of the machine is a snapshot of one.
LEMMA SnapshotSane ==
  ASSUME Tidy PROVE SaneSnapshot(Snapshot) /\ Snapshot # None
  <1>1. Snapshot \in Snapshots BY DEF Snapshot, Snapshots, Tidy
  <1>2. SaneSnapshot(Snapshot) BY <1>1 DEF SaneSnapshot, Snapshot, Tidy
  <1>3. None \notin Snapshots OBVIOUS
  <1> QED BY <1>1, <1>2, <1>3

LEMMA PlanFaithful ==
  ASSUME Faithful, NEW why, NEW v, Plan(why, v),
         (why \in {"install", "repair"} /\ v \in Versions) \/ why = "uninstall"
  PROVE  Tidy' /\ Formed' /\ Restorable' /\ Accounted'
  <1> DEFINE wanted == IF why = "uninstall" THEN Absent ELSE Wants[product][v]
             repairs == why = "repair"
             enters  == why # "uninstall" /\ v \in WantsEntry[product]
  <1>1. /\ pc = "down" /\ ~Open /\ pc' = "planned"
        /\ why # "install" => installed # None
        /\ purpose' = why /\ version' = v /\ before' = Snapshot
        /\ origin' = IF installed = None THEN Snapshot ELSE origin
        /\ UNCHANGED <<product, hasKey, foreign, val, path, installed, keyRow, valRow, entryRow,
                       txnState, opState, undo, unit, todo>>
    BY DEF Plan, machine, rows
  <1>2. /\ kind'["key"] = KeyPlan(wanted) /\ kind'["value"] = ValuePlan(wanted, repairs)
        /\ kind'["entry"] = EntryPlan(enters)
        /\ valOp' = ValueColumns(wanted, repairs)
    BY DEF Plan
  <1>3. wanted \in Data \cup {Absent}
    <2>1. CASE why = "uninstall" BY <2>1
    <2>2. CASE why # "uninstall" BY <2>2 DEF Faithful, Formed
    <2> QED BY <2>1, <2>2
  <1>4. why = "uninstall" => wanted = Absent /\ ~enters OBVIOUS
  <1> HIDE DEF wanted, repairs, enters
  <1>5. /\ Planning' /\ ~Planning /\ Owned' = Owned
        /\ \A r \in {"key", "value", "entry"} : ~Begun(r)' /\ Back(r)' /\ ~Made(r)' /\ kind[r] = "none"
    <2>1. \A r \in Resources : opState[r] = "planned" /\ kind[r] = "none"
      BY <1>1 DEF Faithful, Journals, Planning
    <2> QED BY <1>1, <2>1 DEF Planning, Open, Owned, Begun, Back, Made, Resources
  <1>6. Tidy' BY <1>1, <1>5 DEF Faithful, Tidy, Padded, Text
  <1>7. valOp' \in ValueOps
    BY <1>2, <1>3 DEF ValueColumns, ValuePlan, RestoreColumn, Overwrites, ValueOps, NoOp, Owned, Rows,
       Faithful, Formed
  <1>8. kind'["value"] = "take" => Owned /\ valOp' = valRow /\ val = valRow.data
    <2> SUFFICES ASSUME kind'["value"] = "take" PROVE Owned /\ valOp' = valRow /\ val = valRow.data
      OBVIOUS
    <2>1. wanted = Absent /\ Owned /\ val = valRow.data BY <1>2 DEF ValuePlan
    <2>2. valOp' = [data |-> valRow.data, restore |-> valRow.restore]
      BY <1>2, <2>1 DEF ValueColumns, ValuePlan, RestoreColumn
    <2>3. valRow \in [data : Data, restore : Data \cup {Absent}]
      BY <2>1 DEF Owned, Rows, Faithful, Formed
    <2> QED BY <2>1, <2>2, <2>3
  <1>9. /\ kind'["value"] = "none" => wanted = Absent /\ (~Owned \/ val # valRow.data)
        /\ kind'["value"] \in {"put", "keep"} => wanted # Absent
    BY <1>2 DEF ValuePlan
  <1>10. kind'["value"] = "put" => /\ valOp'.data = wanted
                                   /\ valOp'.restore = IF Owned THEN valRow.restore ELSE None
    BY <1>2 DEF ValuePlan, ValueColumns, RestoreColumn
  <1>11. kind'["value"] = "keep" =>
           /\ val = valOp'.data \/ (Owned /\ val # valRow.data)
           /\ valOp'.restore = IF Owned THEN valRow.restore ELSE val
           /\ valOp'.data \in Data /\ valOp'.restore # None
    <2> SUFFICES ASSUME kind'["value"] = "keep"
                 PROVE  /\ val = valOp'.data \/ (Owned /\ val # valRow.data)
                        /\ valOp'.restore = IF Owned THEN valRow.restore ELSE val
                        /\ valOp'.data \in Data /\ valOp'.restore # None
      OBVIOUS
    <2>1. wanted # Absent /\ (val = wanted \/ (Owned /\ ~Overwrites(repairs)))
      BY <1>2 DEF ValuePlan
    <2>2. valOp'.restore = IF Owned THEN valRow.restore ELSE IF val = wanted THEN wanted ELSE None
      BY <1>2 DEF ValueColumns, RestoreColumn
    <2>3. valOp'.data = IF val # wanted THEN valRow.data ELSE wanted
      BY <1>2, <2>1 DEF ValueColumns
    <2>4. Owned => valRow.data \in Data /\ valRow.restore \in Data \cup {Absent}
      BY DEF Owned, Rows, Faithful, Formed
    <2> QED BY <1>3, <2>1, <2>2, <2>3, <2>4 DEF Overwrites
  <1>12. /\ kind'["key"] = "none" => keyRow # "created"
         /\ kind'["key"] = "take" => keyRow = "created" /\ wanted = Absent
         /\ kind'["key"] = "put" => ~hasKey
         /\ kind'["key"] \in {"put", "keep"} => wanted # Absent
    BY <1>2 DEF KeyPlan
  <1>13. /\ kind'["entry"] = "put" => enters /\ entryRow # "found" /\ ~Present(path)
         /\ kind'["entry"] = "keep" => enters /\ (entryRow = "found" \/ Present(path))
         /\ kind'["entry"] = "take" => entryRow = "added" /\ Present(path)
         /\ kind'["entry"] = "none" => entryRow # "added" \/ ~Present(path)
         /\ kind'["entry"] \in {"put", "keep", "take", "none"}
    BY <1>2 DEF EntryPlan
  <1>14. wanted = Absent => kind'["value"] \in {"none", "take"} /\ kind'["key"] \in {"none", "take"}
    BY <1>2 DEF ValuePlan, KeyPlan
  <1>15. Formed'
    <2>1. why # "uninstall" => v \in Versions OBVIOUS
    <2>2. why = "uninstall" => \A r \in Resources : kind'[r] \in {"none", "take"}
      BY <1>4, <1>13, <1>14 DEF Resources
    <2> QED
      BY <1>1, <1>3, <1>5, <1>7, <1>8, <1>9, <1>10, <1>11, <1>12, <1>13, <1>14, <2>1, <2>2
         DEF Faithful, Formed
  <1>16. /\ B' = Snapshot /\ SaneSnapshot(Snapshot) /\ Snapshot # None
         /\ Snapshot[1] = hasKey /\ Snapshot[2] = foreign /\ Snapshot[3] = val /\ Snapshot[4] = path
    BY <1>1, SnapshotSane DEF B, Snapshot, Faithful
  <1>17. Restorable'
    <2>1. KeyRestorable' BY <1>1, <1>5, <1>12, <1>16 DEF KeyRestorable, Faithful, Tidy
    <2>2. ValueRestorable' BY <1>1, <1>5, <1>8, <1>9, <1>11, <1>16 DEF ValueRestorable
    <2>3. SameStrangers(path, path) BY SameReflexive
    <2>4. EntryRestorable' BY <1>1, <1>5, <1>13, <1>16, <2>3 DEF EntryRestorable, Mutations
    <2> QED BY <1>1, <1>16, <2>1, <2>2, <2>4 DEF Restorable
  <1>18. Accounted'
    <2> SUFFICES ASSUME origin' # None PROVE Accounted' BY DEF Accounted
    <2>1. CASE installed = None
      <3>1. O' = Snapshot /\ keyRow = "none" /\ ~Owned /\ entryRow = "none"
        BY <1>1, <2>1 DEF O, Faithful, Formed
      <3>2. Settled(B[1], B[2], B[3], B[4])'
        BY <1>1, <1>5, <1>16, <3>1 DEF Settled, Faithful, Tidy
      <3>3. kind'["entry"] # "take" BY <1>13, <3>1
      <3> QED BY <1>1, <1>5, <1>16, <3>1, <3>2, <3>3 DEF Accounted, EntryAccounted
    <2>2. CASE installed # None
      <3>1. origin' = origin /\ O' = O /\ SaneSnapshot(O) /\ Settled(hasKey, foreign, val, path)
        BY <1>1, <1>5, <2>2 DEF O, Faithful, Accounted
      <3>2. Settled(B[1], B[2], B[3], B[4])' BY <1>1, <1>5, <1>16, <3>1 DEF Settled
      <3>3. kind'["entry"] = "take" => Text(path) = Appended(O[4])
        BY <1>13, <3>1 DEF Settled
      <3>4. EntryAccounted' BY <1>1, <1>5, <3>1, <3>3 DEF EntryAccounted, Text
      <3> QED BY <1>1, <1>5, <1>16, <3>1, <3>2, <3>4 DEF Accounted
    <2> QED BY <2>1, <2>2
  <1> QED BY <1>6, <1>15, <1>17, <1>18

\* The operations are all done, and the rows are written from them.
LEMMA CommitFaithful ==
  ASSUME Faithful, Commit PROVE Tidy' /\ Formed' /\ Restorable' /\ Accounted'
  <1>1. /\ pc = "walk" /\ Pending = {} /\ txnState' = "committed" /\ pc' = "down"
        /\ installed' = IF purpose = "uninstall" THEN None ELSE version
        /\ keyRow' = KeyRecorded /\ valRow' = ValueRecorded /\ entryRow' = EntryRecorded
        /\ kind' = [r \in Resources |-> "none"] /\ valOp' = NoOp /\ purpose' = "install"
        /\ before' = None
        /\ UNCHANGED <<product, hasKey, foreign, val, path, origin>>
    BY DEF Commit, Closed, NoPlan, machine
  <1>2. txnState = "running" /\ Planning /\ ~Planning'
    BY <1>1 DEF Faithful, Journals, Control, Planning, Open
  <1>3. \A r \in {"key", "value", "entry"} :
          /\ kind[r] \in {"none", "keep", "put", "take"} /\ kind'[r] = "none" /\ ~Begun(r)'
          /\ kind[r] \in Mutations => Made(r) /\ Begun(r)
          /\ kind[r] \notin Mutations => Back(r)
    <2>1. \A r \in Resources : kind[r] \in {"none", "keep", "put", "take"}
      BY DEF Faithful, Journals
    <2>2. \A r \in Resources : kind[r] \in Mutations => opState[r] = "applied"
      BY <1>1, <1>2, <2>1 DEF Faithful, Journals, Pending, Operations, Mutations
    <2> QED BY <1>1, <1>2, <2>1, <2>2 DEF Made, Begun, Back, Resources, Mutations
  <1>4. valOp.restore \in Data \cup {Absent, None} /\ valRow \in Rows
    BY DEF Faithful, Formed, ValueOps
  <1>5. Owned => valRow.data \in Data /\ valRow.restore \in Data \cup {Absent}
    BY <1>4 DEF Owned, Rows
  <1>6. kind["value"] \in {"put", "keep"} =>
          /\ valOp.data \in Data /\ PreInstallation \in Data \cup {Absent}
          /\ valRow' = [data |-> valOp.data, restore |-> PreInstallation]
    BY <1>1, <1>3, <1>4, <1>5 DEF Faithful, Formed, Tidy, ValueRecorded, PreInstallation, Mutations
  <1>7. kind["value"] \notin {"put", "keep"} => valRow' = NoOp BY <1>1 DEF ValueRecorded
  <1>8. kind["value"] \in {"put", "keep"} =>
          Owned' /\ valRow'.data = valOp.data /\ valRow'.restore = PreInstallation
    BY <1>6 DEF Owned, NoOp
  <1>9. Tidy' BY <1>1, <1>3 DEF Faithful, Tidy, Padded, Text
  <1>10. Formed'
    <2>1. valRow' \in Rows BY <1>6, <1>7 DEF Rows
    <2>2. keyRow' \in {"none", "created", "found"} /\ entryRow' \in {"none", "added", "found"}
      BY <1>1 DEF KeyRecorded, EntryRecorded, Faithful, Formed
    <2>3. installed' \in Versions \cup {None} /\ (installed' = None => purpose = "uninstall")
      BY <1>1, <1>2 DEF Faithful, Formed
    <2>4. ASSUME purpose = "uninstall" PROVE keyRow' = "none" /\ ~Owned' /\ entryRow' = "none"
      <3>1. \A r \in {"key", "value", "entry"} : kind[r] \in {"none", "take"}
        BY <1>2, <2>4 DEF Faithful, Formed, Resources
      <3> QED BY <1>1, <1>7, <3>1 DEF KeyRecorded, EntryRecorded, Owned
    <2>5. valOp' \in ValueOps BY <1>1 DEF ValueOps, NoOp
    <2> QED BY <1>1, <1>2, <1>3, <2>1, <2>2, <2>3, <2>4, <2>5 DEF Faithful, Formed
  <1>11. Restorable' BY <1>1 DEF Restorable
  <1>12. ASSUME origin # None PROVE Settled(hasKey, foreign, val, path)'
    <2>1. /\ SaneSnapshot(O) /\ O' = O /\ before # None /\ Settled(B[1], B[2], B[3], B[4])
          /\ EntryAccounted
          /\ kind["key"] = "take" /\ Made("key") => ~hasKey
      BY <1>1, <1>2, <1>12 DEF Faithful, Accounted, O
    <2>2. /\ SaneSnapshot(B) /\ foreign = B[2]
          /\ KeyRestorable /\ ValueRestorable /\ EntryRestorable
      BY <2>1 DEF Faithful, Restorable
    <2>3. B[1] \in BOOLEAN /\ O[1] \in BOOLEAN /\ hasKey \in BOOLEAN
      BY <2>1, <2>2 DEF SaneSnapshot, Snapshots, Faithful, Tidy
    <2>4. hasKey = (keyRow' = "created" \/ O[1]) /\ (keyRow' = "created" => ~O[1])
      <3>1. CASE kind["key"] = "put"
        <4>1. hasKey = TRUE /\ undo["key"] = FALSE /\ B[1] = FALSE
          BY <1>3, <2>2, <2>3, <3>1 DEF KeyRestorable, Mutations
        <4>2. keyRow' = "created" BY <1>1, <3>1, <4>1 DEF KeyRecorded
        <4> QED BY <2>1, <4>1, <4>2 DEF Settled
      <3>2. CASE kind["key"] = "take"
        <4>1. ~hasKey /\ keyRow' = "none" /\ keyRow = "created"
          BY <1>1, <1>3, <2>1, <3>2 DEF KeyRecorded, Mutations, Faithful, Formed
        <4> QED BY <2>1, <2>3, <4>1 DEF Settled
      <3>3. CASE kind["key"] = "keep"
        <4>1. hasKey = B[1] /\ keyRow' = keyRow
          BY <1>1, <1>3, <2>2, <3>3 DEF KeyRecorded, Mutations, KeyRestorable
        <4> QED BY <2>1, <4>1 DEF Settled
      <3>4. CASE kind["key"] = "none"
        <4>1. hasKey = B[1] /\ keyRow' = "none" /\ keyRow # "created"
          BY <1>1, <1>2, <1>3, <2>2, <3>4 DEF KeyRecorded, Mutations, KeyRestorable, Faithful, Formed
        <4> QED BY <2>1, <2>3, <4>1 DEF Settled
      <3> QED BY <1>3, <3>1, <3>2, <3>3, <3>4
    <2>5. foreign = O[2] BY <2>1, <2>2 DEF Settled
    <2>6. IF Owned' THEN val = valRow'.data /\ valRow'.restore = O[3] ELSE val = O[3]
      <3>1. CASE kind["value"] = "put"
        <4>1. val = valOp.data /\ undo["value"] = B[3]
          BY <1>3, <2>2, <3>1 DEF ValueRestorable, Written, Mutations
        <4>2. valOp.restore = IF Owned THEN valRow.restore ELSE None
          BY <3>1 DEF Faithful, Formed
        <4>3. PreInstallation = O[3] BY <1>5, <2>1, <4>1, <4>2 DEF PreInstallation, Settled
        <4> QED BY <1>8, <3>1, <4>1, <4>3
      <3>2. CASE kind["value"] = "take"
        <4>1. val = valOp.restore /\ Owned /\ valOp = valRow
          BY <1>3, <2>2, <3>2 DEF ValueRestorable, Written, Mutations, Faithful, Formed
        <4>2. ~Owned' BY <1>7, <3>2 DEF Owned
        <4> QED BY <2>1, <4>1, <4>2 DEF Settled
      <3>3. CASE kind["value"] = "keep"
        <4>1. /\ val = B[3] /\ (B[3] = valOp.data \/ (Owned /\ B[3] # valRow.data))
              /\ valOp.restore = IF Owned THEN valRow.restore ELSE B[3]
          BY <1>3, <2>2, <3>3 DEF ValueRestorable, Mutations
        <4>2. valOp.restore # None BY <3>3 DEF Faithful, Formed
        <4>3. PreInstallation = O[3] /\ val = valOp.data
          BY <2>1, <4>1, <4>2 DEF PreInstallation, Settled
        <4> QED BY <1>8, <3>3, <4>3
      <3>4. CASE kind["value"] = "none"
        <4>1. val = B[3] /\ (~Owned \/ B[3] # valRow.data)
          BY <1>2, <1>3, <2>2, <3>4 DEF ValueRestorable, Mutations
        <4>2. ~Owned' BY <1>7, <3>4 DEF Owned
        <4> QED BY <2>1, <4>1, <4>2 DEF Settled
      <3> QED BY <1>3, <3>1, <3>2, <3>3, <3>4
    <2>7. O[4] \in Paths /\ Padded(O[4]) BY <2>1 DEF SaneSnapshot, Snapshots
    <2>8. entryRow = "added" => Present(B[4])
      <3> SUFFICES ASSUME entryRow = "added" PROVE Present(B[4]) OBVIOUS
      <3>1. Text(B[4]) = Appended(O[4]) /\ ~Present(O[4]) BY <2>1 DEF Settled
      <3>2. Text(Appended(O[4])) = Appended(O[4]) /\ Present(Appended(O[4]))
        BY <2>7, <3>1, AppendedCloses, AppendedRemoved
      <3> QED BY <3>1, <3>2, TextAlone
    <2>9. /\ Text(path) = IF entryRow' = "added" THEN Appended(O[4]) ELSE Text(O[4])
          /\ entryRow' = "added" => ~Present(O[4])
          /\ entryRow' = "found" => Present(O[4])
      <3>1. CASE kind["entry"] = "put"
        <4>1. path = Appended(B[4]) /\ ~Present(B[4]) /\ entryRow' = "added"
          BY <1>1, <1>3, <2>2, <3>1 DEF EntryRestorable, EntryRecorded, Mutations
        <4>2. Text(B[4]) = Text(O[4]) BY <2>1, <2>8, <4>1 DEF Settled
        <4>3. ~Present(O[4]) /\ Appended(B[4]) = Appended(O[4]) BY <4>1, <4>2, TextAlone
        <4>4. Text(Appended(O[4])) = Appended(O[4]) BY <2>7, AppendedCloses
        <4> QED BY <4>1, <4>3, <4>4
      <3>2. CASE kind["entry"] = "take"
        <4>1. Text(path) = Text(O[4]) /\ entryRow' = "none"
          BY <1>1, <1>3, <2>1, <3>2 DEF EntryAccounted, EntryRecorded, Mutations
        <4> QED BY <4>1
      <3>3. CASE kind["entry"] = "keep"
        <4>1. /\ path = B[4] /\ (entryRow = "found" \/ Present(B[4]))
              /\ entryRow' = IF entryRow = "added" THEN "added" ELSE "found"
          BY <1>1, <1>2, <2>2, <3>3 DEF EntryRestorable, EntryRecorded, Mutations
        <4>2. entryRow # "added" => Present(O[4]) BY <2>1, <4>1, TextAlone DEF Settled
        <4> QED BY <2>1, <4>1, <4>2 DEF Settled
      <3>4. CASE kind["entry"] = "none"
        <4>1. path = B[4] /\ entryRow # "added" /\ entryRow' = "none"
          BY <1>1, <1>2, <2>2, <2>8, <3>4 DEF EntryRestorable, EntryRecorded, Mutations
        <4> QED BY <2>1, <4>1 DEF Settled
      <3> QED BY <1>3, <3>1, <3>2, <3>3, <3>4
    <2> QED BY <1>1, <2>1, <2>4, <2>5, <2>6, <2>9 DEF Settled, Text
  <1>13. Accounted' BY <1>1, <1>2, <1>3, <1>12 DEF Faithful, Accounted, EntryAccounted, O
  <1> QED BY <1>9, <1>10, <1>11, <1>13

\* A transaction, or a plan, that ends with nothing of it left.
LEMMA ClosingFaithful ==
  ASSUME Faithful, Planning, ~Planning', Closed, \A r \in Resources : ~Begun(r),
         UNCHANGED <<product, machine, rows, origin, before>>,
         \A r \in Resources : ~Begun(r)' /\ ~Made(r)'
  PROVE  Tidy' /\ Formed' /\ Restorable' /\ Accounted'
  <1>1. /\ UNCHANGED <<product, hasKey, foreign, val, path, installed, keyRow, valRow, entryRow,
                       origin, before>>
        /\ kind' = [r \in Resources |-> "none"] /\ valOp' = NoOp /\ purpose' = "install"
    BY DEF machine, rows, Closed, NoPlan
  <1>2. \A r \in {"key", "value", "entry"} :
          ~Begun(r) /\ Back(r) /\ ~Begun(r)' /\ ~Made(r)' /\ kind'[r] = "none"
    BY <1>1 DEF Back, Resources
  <1>3. Owned' = Owned /\ Text(path)' = Text(path) /\ B' = B /\ O' = O
    BY <1>1 DEF Owned, Text, B, O
  <1>4. Tidy' BY <1>1, <1>2 DEF Faithful, Tidy, Padded, Text
  <1>5. Formed'
    <2>1. valOp' \in ValueOps BY <1>1 DEF ValueOps, NoOp
    <2> QED BY <1>1, <1>2, <1>3, <2>1 DEF Faithful, Formed
  <1>6. ASSUME before # None
        PROVE  /\ hasKey = B[1] /\ foreign = B[2] /\ val = B[3]
               /\ SameStrangers(path, B[4]) /\ Present(path) = Present(B[4])
               /\ kind["entry"] # "take" => path = B[4]
    <2>1. /\ KeyRestorable /\ ValueRestorable /\ EntryRestorable /\ foreign = B[2]
          /\ kind["entry"] \in {"none", "keep", "put", "take"}
      BY <1>6 DEF Faithful, Restorable, Journals, Resources
    <2>2. hasKey = B[1] /\ val = B[3] BY <1>2, <2>1 DEF KeyRestorable, ValueRestorable
    <2>3. kind["entry"] # "take" => path = B[4] BY <1>2, <2>1 DEF EntryRestorable, Mutations
    <2>4. kind["entry"] = "take" => SameStrangers(path, B[4]) /\ Present(path) /\ Present(B[4])
      BY <1>2, <2>1 DEF EntryRestorable
    <2>5. Present(path) \in BOOLEAN /\ Present(B[4]) \in BOOLEAN BY DEF Present
    <2> QED BY <2>1, <2>2, <2>3, <2>4, <2>5, SameReflexive
  <1>7. Restorable'
    <2>1. before # None => (SameStrangers(path, B[4]) /\ Present(path) = Present(B[4]))'
      BY <1>1, <1>3, <1>6
    <2> QED
      BY <1>1, <1>2, <1>3, <1>6, <2>1
         DEF Faithful, Restorable, KeyRestorable, ValueRestorable, EntryRestorable, Mutations
  <1>8. ASSUME origin # None PROVE Settled(hasKey, foreign, val, path)
    <2>1. before # None /\ Settled(B[1], B[2], B[3], B[4]) /\ EntryAccounted
      BY <1>8 DEF Faithful, Accounted
    <2>2. Text(path) = IF entryRow = "added" THEN Appended(O[4]) ELSE Text(O[4])
      <3>1. CASE kind["entry"] = "take"
        BY <1>2, <2>1, <3>1 DEF EntryAccounted, Faithful, Formed
      <3>2. CASE kind["entry"] # "take" BY <1>6, <2>1, <3>2 DEF Settled
      <3> QED BY <3>1, <3>2
    <2> QED BY <1>6, <2>1, <2>2 DEF Settled
  <1>9. Accounted'
    <2>1. origin # None => Settled(hasKey, foreign, val, path)'
      BY <1>1, <1>3, <1>8 DEF Settled
    <2> QED BY <1>1, <1>2, <1>3, <2>1 DEF Faithful, Accounted, EntryAccounted
  <1> QED BY <1>4, <1>5, <1>7, <1>9

LEMMA EndFaithful ==
  ASSUME Faithful, FinishRollback \/ (Crash /\ pc = "planned")
  PROVE  Tidy' /\ Formed' /\ Restorable' /\ Accounted'
  <1>1. Closed /\ UNCHANGED <<product, machine, rows, origin, before>> /\ pc' = "down"
    BY DEF FinishRollback, Crash, history
  <1>2. Planning /\ ~Planning' /\ txnState' # "running"
    BY DEF FinishRollback, Crash, Planning, Open, Faithful, Journals, Control
  <1>3. \A r \in Resources : ~Begun(r)
    <2>1. CASE FinishRollback
      BY <2>1 DEF FinishRollback, Undoable, Operations, Begun, Mutations
    <2>2. CASE pc = "planned" BY <2>2 DEF Faithful, Journals, Control, Begun
    <2> QED BY <2>1, <2>2
  <1>4. \A r \in Resources : ~Begun(r)' /\ ~Made(r)'
    BY <1>1, <1>2 DEF Closed, NoPlan, Begun, Made, Mutations
  <1> QED BY <1>1, <1>2, <1>3, <1>4, ClosingFaithful

\* Somebody's edit ends what is said of an undisturbed machine.
LEMMA OthersFaithful ==
  ASSUME Faithful, Others PROVE Tidy' /\ Formed' /\ Restorable' /\ Accounted'
  <1>1. /\ UNCHANGED <<product, rows, journal, process>> /\ before' = None /\ origin' = None
    BY DEF Others, SetByOther, DeletedByOther, KeyDeletedByOther, KeySharedByOther,
       EntryAddedByOther, EntryRemovedByOther, Edited
  <1>2. /\ Restorable' /\ Accounted' BY <1>1 DEF Restorable, Accounted
  <1>3. UNCHANGED <<installed, keyRow, valRow, entryRow, txnState, purpose, version, kind, opState,
                    valOp, undo, pc>>
    BY <1>1 DEF rows, journal, process
  <1>4. Owned' = Owned /\ Planning' = Planning /\ (Begun("value")' <=> Begun("value"))
    BY <1>3 DEF Owned, Planning, Open, Begun
  <1>5. Formed' BY <1>1, <1>3, <1>4 DEF Faithful, Formed
  <1>6. Tidy'
    <2>1. CASE \/ \E data \in UserData : SetByOther(data)
               \/ DeletedByOther \/ KeyDeletedByOther \/ KeySharedByOther
      <3>1. path' = path
        BY <2>1 DEF SetByOther, DeletedByOther, KeyDeletedByOther, KeySharedByOther
      <3>2. /\ hasKey' \in BOOLEAN /\ foreign' \in BOOLEAN /\ val' \in Data \cup {Absent}
            /\ ~hasKey' => ~foreign' /\ val' = Absent
        BY <2>1 DEF SetByOther, DeletedByOther, KeyDeletedByOther, KeySharedByOther, Faithful, Tidy, Data
      <3> QED BY <1>3, <1>4, <3>1, <3>2 DEF Faithful, Tidy, Padded, Text
    <2>2. ASSUME NEW s \in {"mine", "alike", "other"}, EntryAddedByOther(s) PROVE Tidy'
      <3>1. path' = Append(Text(path), s) /\ UNCHANGED <<hasKey, foreign, val>>
        BY <2>2 DEF EntryAddedByOther
      <3>2. Text(path) \in Seq(Segments) /\ s \in Segments
        BY TextType DEF Faithful, Tidy, Segments
      <3>3. path' \in Seq(Segments) /\ Len(path') = Len(Text(path)) + 1
            /\ (\A i \in 1..Len(Text(path)) : path'[i] = Text(path)[i])
            /\ path'[Len(Text(path)) + 1] = s
        BY <3>1, <3>2
      <3>4. Text(path)' = path' /\ path' \in Paths BY <3>3 DEF Text, Paths
      <3>5. Padded(path)'
        <4> SUFFICES ASSUME NEW i \in 1..Len(path'), path'[i] = "blank"
                     PROVE  \E j \in 1..Len(path') : path'[j] = "other"
          BY <3>3, <3>4 DEF Padded
        <4>1. i \in 1..Len(Text(path)) /\ Text(path)[i] = "blank" BY <3>2, <3>3
        <4>2. PICK j \in 1..Len(Text(path)) : Text(path)[j] = "other"
          BY <3>2, <4>1 DEF Faithful, Tidy, Padded
        <4>3. j \in 1..Len(path') /\ path'[j] = "other" BY <3>2, <3>3, <4>2
        <4> QED BY <4>3
      <3> QED BY <1>3, <1>4, <3>1, <3>4, <3>5 DEF Faithful, Tidy
    <2>3. ASSUME NEW s \in {"mine", "alike"}, EntryRemovedByOther(s) PROVE Tidy'
      <3>1. /\ path' = RemoveFirst(path, s) /\ UNCHANGED <<hasKey, foreign, val>>
            /\ \E i \in DOMAIN Text(path) : Text(path)[i] = s
        BY <2>3 DEF EntryRemovedByOther, Holds
      <3>2. Text(path) = path /\ path \in Seq(Segments) /\ Padded(path)
        BY <3>1 DEF Text, Faithful, Tidy, Paths
      <3>3. PICK k \in 1..Len(path) : path[k] = s /\ Closes(path, k, path')
        BY <3>1, <3>2, FirstRemoved
      <3>4. path' \in Paths /\ Text(path') = path' BY <3>3 DEF Closes, Paths, Text
      <3>5. Ours(path[k]) /\ path \in Paths BY <3>2, <3>3 DEF Ours, Paths
      <3>6. Padded(path') BY <3>2, <3>3, <3>4, <3>5, ClosingPads
      <3> QED BY <1>3, <1>4, <3>1, <3>4, <3>6 DEF Faithful, Tidy, Padded, Text
    <2> QED BY <2>1, <2>2, <2>3 DEF Others
  <1> QED BY <1>2, <1>5, <1>6

LEMMA StepFaithful == Faithful /\ [Next]_vars => Faithful'
  <1> SUFFICES ASSUME Faithful, [Next]_vars PROVE Faithful' OBVIOUS
  <1>1. Journals' /\ Ordered' /\ Journals BY StepJournals, StepOrdered DEF Faithful
  <1>2. Quiet => Faithful' BY <1>1, QuietStep
  <1>3. Tidy' /\ Formed' /\ Restorable' /\ Accounted' => Faithful' BY <1>1 DEF Faithful
  <1>4. CASE UNCHANGED vars
    BY <1>2, <1>4 DEF vars, machine, rows, journal, process, history, Quiet, Planning, Open, Begun,
       Back, Made
  <1>5. CASE Forward
    BY <1>1, <1>2, <1>3, <1>5, StartGroupFaithful, KeySteps, ValueSteps, EntrySteps,
       FinishGroupQuiet, CommitFaithful DEF Forward
  <1>6. CASE Backward
    BY <1>1, <1>2, <1>3, <1>6, TurnQuiet, ReverseQuiet, KeySteps, ValueSteps, EntrySteps,
       EndFaithful DEF Backward, Resources
  <1>7. CASE Fault BY <1>1, <1>2, <1>3, <1>7, TurnQuiet, ReverseQuiet, EndFaithful DEF Fault
  <1>8. CASE Begin \/ Recover BY <1>1, <1>2, <1>8, BeginQuiet, TurnQuiet
  <1>9. CASE Others BY <1>3, <1>9, OthersFaithful
  <1>10. CASE \/ \E why \in {"install", "repair"}, v \in Versions : Plan(why, v)
              \/ Plan("uninstall", installed)
    BY <1>3, <1>10, PlanFaithful
  <1> QED BY <1>4, <1>5, <1>6, <1>7, <1>8, <1>9, <1>10 DEF Next

\* Whoever writes when, a rolled back transaction nobody disturbed leaves the
\* key, the value and PATH as the plan found them (rollback.rs, registry.rs,
\* path.rs).
THEOREM RolledBackAsPlanned == Spec => []RollbackRestores
  <1>1. Init => Faithful BY InitFaithful
  <1>2. Faithful /\ [Next]_vars => Faithful' BY StepFaithful
  <1>3. Faithful => RollbackRestores
    <2> SUFFICES ASSUME Faithful, txnState = "rolled_back", before # None
                 PROVE  /\ hasKey = B[1] /\ foreign = B[2] /\ val = B[3]
                        /\ SameStrangers(path, B[4])
                        /\ Present(path) = Present(B[4])
      BY DEF RollbackRestores, B
    <2>1. KeyRestorable /\ ValueRestorable /\ EntryRestorable /\ foreign = B[2]
      BY DEF Faithful, Restorable
    <2>2. \A r \in {"key", "value", "entry"} :
            /\ kind[r] \in {"none", "keep", "put", "take"} /\ Back(r)
            /\ ~Planning => kind[r] = "none"
      BY DEF Faithful, Journals, Open, Resources, Back, Begun
    <2>3. hasKey = B[1] /\ val = B[3] BY <2>1, <2>2 DEF KeyRestorable, ValueRestorable
    <2>4. Present(path) \in BOOLEAN /\ Present(B[4]) \in BOOLEAN BY DEF Present
    <2>5. CASE ~Planning BY <2>1, <2>3, <2>5 DEF EntryRestorable
    <2>6. CASE kind["entry"] = "take" BY <2>1, <2>2, <2>3, <2>4, <2>6 DEF EntryRestorable
    <2>7. CASE Planning /\ kind["entry"] # "take"
      <3>1. path = B[4] BY <2>1, <2>2, <2>7 DEF EntryRestorable, Mutations
      <3> QED BY <2>1, <2>3, <3>1, SameReflexive
    <2> QED BY <2>5, <2>6, <2>7
  <1> QED BY <1>1, <1>2, <1>3, PTL DEF Spec

\* Whoever writes when, a product that is gone again leaves an undisturbed
\* machine as its first plan found it, whatever upgrades, repairs, crashes and
\* rollbacks lie between (plan.rs, executor.rs, rollback.rs).
THEOREM GoneAsFound == Spec => []LeftAsFound
  <1>1. Init => Faithful BY InitFaithful
  <1>2. Faithful /\ [Next]_vars => Faithful' BY StepFaithful
  <1>3. Faithful => LeftAsFound
    <2> SUFFICES ASSUME Faithful, installed = None, ~Open, origin # None
                 PROVE  /\ hasKey = O[1] /\ foreign = O[2] /\ val = O[3]
                        /\ Text(path) = Text(O[4])
      BY DEF LeftAsFound, O
    <2>1. keyRow = "none" /\ ~Owned /\ entryRow = "none" /\ SaneSnapshot(O)
      BY DEF Faithful, Formed, Accounted
    <2>2. O[1] \in BOOLEAN BY <2>1 DEF SaneSnapshot, Snapshots
    <2>3. CASE ~Planning BY <2>1, <2>2, <2>3 DEF Faithful, Accounted, Settled
    <2>4. CASE Planning
      <3>1. before # None /\ Settled(B[1], B[2], B[3], B[4]) BY <2>4 DEF Faithful, Accounted
      <3>2. KeyRestorable /\ ValueRestorable /\ EntryRestorable /\ foreign = B[2]
        BY <3>1 DEF Faithful, Restorable
      <3>3. \A r \in {"key", "value", "entry"} :
              kind[r] \in {"none", "keep", "put", "take"} /\ Back(r)
        BY DEF Faithful, Journals, Open, Resources, Back, Begun
      <3>4. kind["entry"] # "take" BY <2>1 DEF Faithful, Formed
      <3>5. hasKey = B[1] /\ val = B[3] /\ path = B[4]
        BY <2>4, <3>2, <3>3, <3>4 DEF KeyRestorable, ValueRestorable, EntryRestorable, Mutations
      <3> QED BY <2>1, <2>2, <3>1, <3>2, <3>5 DEF Settled
    <2> QED BY <2>3, <2>4
  <1> QED BY <1>1, <1>2, <1>3, PTL DEF Spec

\* Where nobody writes what an operation is about to write, data others gave
\* the value is never lost (plan.rs, executor.rs, rollback.rs, journal.rs).
THEOREM OthersDataKept == ~LateEdits => (Spec => []DataKept)
  <1> SUFFICES ASSUME ~LateEdits PROVE Spec => []DataKept OBVIOUS
  <1>1. Init => IInv /\ Faithful BY InitInvariant, InitFaithful
  <1>2. IInv /\ Faithful /\ [Next]_vars => (IInv /\ Faithful)'
    BY StepInvariant, StepFaithful
  <1>3. IInv /\ Faithful => DataKept
    <2> SUFFICES ASSUME IInv, Faithful PROVE DataKept OBVIOUS
    <2>1. foreign \/ val # Absent => hasKey BY DEF Faithful, Tidy
    <2>2. ASSUME theirs # Absent
          PROVE  val = theirs \/ valRow.restore = theirs \/ (Open /\ W = theirs)
      <3>1. CASE ~Touched BY <2>2, <3>1 DEF IInv, Tracked, Sound
      <3>2. CASE Touched
        BY <2>2, <3>2 DEF IInv, Journalled, Tracked, Touched, Untouched, Overwritten, Sound
      <3> QED BY <3>1, <3>2
    <2> QED BY <2>1, <2>2 DEF DataKept, W
  <1> QED BY <1>1, <1>2, <1>3, PTL DEF Spec

----------------------------------------------------------------------------
(* The PATH entry: whose the segment is that the engine takes, whatever    *)
(* others do to PATH outside the moments between the plan and the append,  *)
(* and between an append that never was and its undo.                      *)

E  == kind["entry"]
SE == opState["entry"]

\* The entry is to be appended, or its append is to be undone.
Awaited ==
  /\ E = "put"
  /\ \/ pc = "planned"
     \/ txnState = "running" /\ SE = "planned"
     \/ Open /\ SE \in {"applying", "rolling_back", "rollback_failed"}

Claimed ==
  /\ ours \in {"none", "there", "gone"}
  /\ ours = "there" => Holds(path, "mine")
  /\ entryRow = "added" => ours # "none"
  /\ Awaited => ours # "none" \/ ~Present(path)
  /\ E = "put" /\ Open /\ SE = "applied" => ours # "none"
  /\ E = "put" /\ pc = "mutate" /\ "entry" \in unit \ todo => ours # "none"

LEMMA InitClaimed == Init => Claimed
  BY DEF Init, Claimed, Awaited, E, SE, Open, NoPlan, Resources

\* A removal takes the exact text where it is there, and one segment only.
LEMMA RemovalTakes ==
  ASSUME NEW p \in Paths, Padded(p), NEW d, Holds(p, "mine"), NEW s, s # "mine", Holds(p, s)
  PROVE  Holds(EntryRemoved(p, d), s)
  <1>1. Present(p) BY DEF Present, Holds, Ours
  <1>2. Text(p) = p /\ Without(p) \in Seq(Segments) /\ p \in Seq(Segments)
    BY <1>1, WithoutCloses, TextType
  <1>3. \E i \in 1..Len(p) : p[i] = "mine" BY <1>2 DEF Holds
  <1>4. PICK k \in 1..Len(p) : p[k] = "mine" /\ Closes(p, k, Without(p))
    BY <1>1, <1>3, WithoutCloses
  <1>5. PICK i \in 1..Len(p) : p[i] = s BY <1>2 DEF Holds
  <1>6. i # k /\ Len(p) = Len(Without(p)) + 1 /\ Len(Without(p)) \in Nat
    BY <1>2, <1>4, <1>5 DEF Closes
  <1>7. PICK j \in 1..Len(Without(p)) : Without(p)[j] = s
    <2>1. CASE i < k BY <1>4, <1>5, <1>6, <2>1 DEF Closes
    <2>2. CASE i > k
      <3>1. i - 1 \in 1..Len(Without(p)) /\ ~(i - 1 < k) /\ (i - 1) + 1 = i BY <1>6, <2>2
      <3> QED BY <1>4, <1>5, <3>1 DEF Closes
    <2> QED BY <1>6, <2>1, <2>2
  <1>8. Without(p) # <<>> /\ Text(Without(p)) = Without(p) BY <1>2, <1>7 DEF Text
  <1> QED BY <1>1, <1>2, <1>7, <1>8 DEF EntryRemoved, Holds

\* What others remove leaves the rest.
LEMMA FirstTaken ==
  ASSUME NEW p \in Paths, Holds(p, "alike"), Holds(p, "mine")
  PROVE  Holds(RemoveFirst(p, "alike"), "mine")
  <1>1. Text(p) = p /\ p \in Seq(Segments) BY TextType DEF Holds, Text, Paths
  <1>2. \E i \in 1..Len(p) : p[i] = "alike" BY <1>1 DEF Holds
  <1> DEFINE q == RemoveFirst(p, "alike")
  <1>3. PICK k \in 1..Len(p) : p[k] = "alike" /\ Closes(p, k, q) BY <1>1, <1>2, FirstRemoved
  <1>4. PICK i \in 1..Len(p) : p[i] = "mine" BY <1>1 DEF Holds
  <1> HIDE DEF q
  <1>5. i # k /\ Len(p) = Len(q) + 1 /\ Len(q) \in Nat /\ q \in Seq(Segments)
    BY <1>1, <1>3, <1>4 DEF Closes
  <1>6. PICK j \in 1..Len(q) : q[j] = "mine"
    <2>1. CASE i < k BY <1>3, <1>4, <1>5, <2>1 DEF Closes
    <2>2. CASE i > k
      <3>1. i - 1 \in 1..Len(q) /\ ~(i - 1 < k) /\ (i - 1) + 1 = i BY <1>5, <2>2
      <3> QED BY <1>3, <1>4, <3>1 DEF Closes
    <2> QED BY <1>5, <2>1, <2>2
  <1>7. Text(q) = q BY <1>5 DEF Text
  <1> QED BY <1>5, <1>6, <1>7 DEF Holds, q

\* An append keeps what was there.
LEMMA AddingKeeps ==
  ASSUME NEW p \in Paths
  PROVE  /\ \A s : Holds(p, s) => Holds(EntryAdded(p), s)
         /\ ~Present(p) => Holds(EntryAdded(p), "mine")
  <1>1. CASE Present(p) BY <1>1 DEF EntryAdded
  <1>2. CASE ~Present(p)
    <2>1. PICK a : a = Appended(p) OBVIOUS
    <2>2. EntryAdded(p) = a /\ a \in Paths /\ Text(a) = a
      BY <1>2, <2>1, AppendedCloses DEF EntryAdded
    <2>3. a \in Seq(Segments) BY <2>2, TextType
    <2>4. PICK k \in 1..Len(a) : a[k] = "mine" /\ Closes(a, k, Text(p))
      BY <2>1, AppendedCloses
    <2>5. ASSUME NEW s, Holds(p, s) PROVE Holds(a, s)
      <3>1. Text(p) \in Seq(Segments) BY TextType
      <3>2. PICK i \in 1..Len(Text(p)) : Text(p)[i] = s BY <2>5, <3>1 DEF Holds
      <3>3. /\ Len(a) \in Nat /\ Len(Text(p)) \in Nat /\ Len(a) = Len(Text(p)) + 1
            /\ i \in 1..Len(a) /\ i + 1 \in 1..Len(a)
            /\ Text(p)[i] = IF i < k THEN a[i] ELSE a[i + 1]
        BY <2>3, <2>4, <3>1, <3>2 DEF Closes
      <3>4. \E j \in 1..Len(a) : a[j] = s BY <3>2, <3>3
      <3> QED BY <2>2, <2>3, <3>4 DEF Holds
    <2>6. Holds(a, "mine") BY <2>2, <2>3, <2>4 DEF Holds
    <2> QED BY <2>2, <2>5, <2>6
  <1> QED BY <1>1, <1>2

EntryState == <<entryRow, ours, path, kind, opState, txnState>>

\* A step that leaves the entry, its row and its operation alone.
LEMMA EntryLeftAlone ==
  ASSUME Claimed, UNCHANGED <<EntryState, pc, unit>>, "entry" \in todo' <=> "entry" \in todo
  PROVE  Claimed'
  BY DEF Claimed, Awaited, EntryState, E, SE, Open, Holds, Present, Text

LEMMA PlanClaimed ==
  ASSUME Faithful, Claimed, NEW why, NEW v, Plan(why, v) PROVE Claimed'
  <1> DEFINE entry == why # "uninstall" /\ v \in WantsEntry[product]
  <1>1. E' = EntryPlan(entry) BY DEF Plan, E
  <1>2. /\ pc = "down" /\ ~Open /\ pc' = "planned"
        /\ UNCHANGED <<entryRow, ours, path, opState, txnState, unit, todo>>
    BY DEF Plan, machine, rows
  <1>3. E' = "put" => ~Present(path) BY <1>1 DEF EntryPlan
  <1>4. /\ SE' = SE /\ Open' = Open /\ Present(path)' = Present(path)
        /\ Holds(path, "mine")' = Holds(path, "mine")
    BY <1>2 DEF SE, Open, Present, Text, Holds
  <1> QED BY <1>2, <1>3, <1>4 DEF Claimed, Awaited, Open

LEMMA WalkClaimed ==
  ASSUME Faithful, Claimed,
         \/ Begin \/ StartGroup \/ FinishGroup \/ FailForward \/ Recover \/ BeginRollback
         \/ FinishUnit \/ \E r \in Resources : StartUnit(r) \/ UndoError(r)
  PROVE  Claimed'
  <1>1. /\ Present(path)' = Present(path) /\ Holds(path, "mine")' = Holds(path, "mine")
        /\ UNCHANGED <<entryRow, ours, kind>>
    BY DEF Begin, StartGroup, FinishGroup, FailForward, Recover, BeginRollback, FinishUnit, StartUnit,
       UndoError, machine, rows, history, journal, Present, Text, Holds
  <1>2. E' = E BY <1>1 DEF E
  <1>3. Journals BY DEF Faithful
  <1>4. CASE Begin
    <2>1. SE' = IF E = "keep" THEN "applied" ELSE "planned"
      BY <1>4 DEF Begin, SE, E, Resources
    <2>2. pc = "planned" /\ pc' = "walk" BY <1>4 DEF Begin
    <2> QED BY <1>1, <1>2, <2>1, <2>2 DEF Claimed, Awaited
  <1>5. CASE StartGroup
    <2>1. SE' = IF "entry" \in NextGroup THEN "applying" ELSE SE
      BY <1>5 DEF StartGroup, Marked, SE, Resources
    <2>2. "entry" \in NextGroup => SE \in {"planned", "applying"}
      BY DEF NextGroup, Pending, Operations, SE
    <2>3. pc = "walk" /\ pc' = "mutate" /\ unit' = NextGroup /\ todo' = NextGroup
          /\ txnState' = txnState /\ txnState = "running"
      BY <1>3, <1>5 DEF StartGroup, Journals, Control
    <2> QED BY <1>1, <1>2, <2>1, <2>2, <2>3 DEF Claimed, Awaited, Open
  <1>6. CASE FinishGroup
    <2>1. SE' = IF "entry" \in unit THEN "applied" ELSE SE
      BY <1>6 DEF FinishGroup, Marked, SE, Resources
    <2>2. pc = "mutate" /\ pc' = "walk" /\ todo = {} /\ txnState' = txnState
      BY <1>6 DEF FinishGroup
    <2> QED BY <1>1, <1>2, <2>1, <2>2 DEF Claimed, Awaited, Open
  <1>7. CASE FailForward \/ Recover
    <2>1. SE' = SE /\ txnState' = txnState /\ pc' \notin {"planned", "mutate"}
      BY <1>7 DEF FailForward, Recover, SE, journal
    <2> QED BY <1>1, <1>2, <2>1 DEF Claimed, Awaited, Open
  <1>8. CASE BeginRollback
    <2>1. SE' = SE /\ txnState' = "rolling_back" /\ pc' = "reverse" /\ Open
      BY <1>3, <1>8 DEF BeginRollback, SE, Journals, Control
    <2> QED BY <1>1, <1>2, <2>1 DEF Claimed, Awaited, Open
  <1>9. CASE FinishUnit
    <2>1. SE' = IF "entry" \in unit THEN "rolled_back" ELSE SE
      BY <1>9 DEF FinishUnit, Marked, SE, Resources
    <2>2. pc' = "reverse" /\ txnState' = txnState BY <1>9 DEF FinishUnit
    <2> QED BY <1>1, <1>2, <2>1, <2>2 DEF Claimed, Awaited, Open
  <1>10. ASSUME NEW r \in Resources, StartUnit(r) PROVE Claimed'
    <2>1. SE' = IF r = "entry" THEN "rolling_back" ELSE SE
      BY <1>10 DEF StartUnit, Marked, SE, Resources
    <2>2. pc' = "undo" /\ txnState' = txnState /\ Open
      BY <1>3, <1>10 DEF StartUnit, Journals, Control, Open
    <2>3. r = "entry" =>
            SE \in {"applying", "applied", "rolling_back", "rollback_failed"}
      BY <1>3, <1>10 DEF StartUnit, LastOf, Undoable, Operations, Journals, SE, Resources
    <2> QED BY <1>1, <1>2, <2>1, <2>2, <2>3 DEF Claimed, Awaited, Open
  <1>11. ASSUME NEW r \in Resources, UndoError(r) PROVE Claimed'
    <2>1. SE' = IF r = "entry" THEN "rollback_failed" ELSE SE
      BY <1>11 DEF UndoError, Marked, SE, Resources
    <2>2. pc = "undo" /\ pc' = "down" /\ txnState' = "rollback_failed" /\ Open /\ r \in todo
      BY <1>3, <1>11 DEF UndoError, Undoing, Journals, Control, Open
    <2>3. r = "entry" => SE = "rolling_back" BY <1>3, <2>2 DEF Journals, Control, SE
    <2> QED BY <1>1, <1>2, <2>1, <2>2, <2>3 DEF Claimed, Awaited, Open
  <1> QED BY <1>4, <1>5, <1>6, <1>7, <1>8, <1>9, <1>10, <1>11

LEMMA MutationClaimed ==
  ASSUME Faithful, Claimed, AddPathEntry \/ RemovePathEntry \/ UndoEntry PROVE Claimed'
  <1>1. /\ UNCHANGED <<pc, unit, kind, opState, txnState, entryRow>>
        /\ todo' = todo \ {"entry"}
    BY DEF AddPathEntry, RemovePathEntry, UndoEntry, Walked, rows, journal
  <1>2. E' = E /\ SE' = SE /\ Open' = Open BY <1>1 DEF E, SE, Open
  <1>3. path \in Paths /\ Padded(path) /\ Journals BY DEF Faithful, Tidy
  <1>4. CASE AddPathEntry
    <2>1. /\ ours' = IF Present(path) THEN ours ELSE "there"
          /\ path' = EntryAdded(path)
          /\ "entry" \in todo /\ E = "put" /\ pc = "mutate"
      BY <1>4 DEF AddPathEntry, Mutating, FirstOf, E
    <2>2. SE = "applying" /\ Open BY <1>3, <2>1 DEF Journals, Control, SE, Open
    <2>3. ours' # "none" /\ ours' \in {"none", "there", "gone"}
      BY <2>1, <2>2 DEF Claimed, Awaited
    <2>4. ours' = "there" => Holds(path', "mine") BY <1>3, <2>1, AddingKeeps DEF Claimed
    <2>5. Holds(path, "mine")' <=> Holds(path', "mine") BY DEF Holds, Text
    <2> QED BY <1>1, <1>2, <2>3, <2>4, <2>5 DEF Claimed
  <1>5. CASE RemovePathEntry
    <2>1. ours' = Gone /\ E = "take" BY <1>5 DEF RemovePathEntry, Mutating, E
    <2> QED BY <1>1, <1>2, <2>1 DEF Claimed, Awaited, Gone
  <1>6. CASE UndoEntry
    <2>1. /\ E = "put" => ours' = Gone /\ path' = EntryRemoved(path, ~undo["entry"])
          /\ E # "put" =>
               /\ path' = IF undo["entry"] THEN EntryAdded(path) ELSE path
               /\ ours' = IF undo["entry"] /\ ~Present(path) THEN "there" ELSE ours
          /\ pc = "undo"
      BY <1>6 DEF UndoEntry, Undoing, E
    <2>2. Holds(path, "mine")' <=> Holds(path', "mine") BY DEF Holds, Text
    <2>3. CASE E = "put"
      <3>1. ~Present(path) => path' = path BY <2>1, <2>3 DEF EntryRemoved
      <3>2. ~Present(path) => ~Present(path)' BY <3>1 DEF Present, Text
      <3> QED BY <1>1, <1>2, <2>1, <2>3, <3>2 DEF Claimed, Awaited, Gone
    <2>4. CASE E # "put"
      <3>1. ours' = "there" => Holds(path', "mine")
        BY <1>3, <2>1, <2>4, AddingKeeps DEF Claimed
      <3> QED BY <1>1, <1>2, <2>1, <2>2, <2>4, <3>1 DEF Claimed, Awaited
    <2> QED BY <2>3, <2>4
  <1> QED BY <1>4, <1>5, <1>6

LEMMA ClosingClaimed ==
  ASSUME Faithful, Claimed, Commit \/ FinishRollback \/ Crash PROVE Claimed'
  <1>1. /\ UNCHANGED path /\ (Holds(path, "mine")' <=> Holds(path, "mine"))
        /\ (Present(path)' <=> Present(path))
    BY DEF Commit, FinishRollback, Crash, machine, Holds, Present, Text
  <1>2. CASE Commit
    <2>1. ours' = (IF entryRow' = "added" THEN ours ELSE "none") /\ entryRow' = EntryRecorded
      BY <1>2 DEF Commit
    <2>2. E = "put" => SE = "applied" /\ Open
      BY <1>2 DEF Commit, Pending, Operations, Faithful, Journals, Control, Open, E, SE, Resources
    <2>3. entryRow' = "added" => ours # "none" BY <2>1, <2>2 DEF EntryRecorded, Claimed, E
    <2>4. E' = "none" /\ pc' = "down" BY <1>2 DEF Commit, Closed, NoPlan, E, Resources
    <2> QED BY <1>1, <2>1, <2>3, <2>4 DEF Claimed, Awaited
  <1>3. CASE FinishRollback
    <2>1. /\ E' = "none" /\ pc' = "down" /\ entryRow' = entryRow
          /\ ours' = IF entryRow = "added" THEN ours ELSE "none"
      BY <1>3 DEF FinishRollback, Closed, NoPlan, E, Resources, rows
    <2> QED BY <1>1, <2>1 DEF Claimed, Awaited
  <1>4. CASE Crash
    <2>1. /\ pc' = "down" /\ UNCHANGED <<entryRow, ours, txnState>>
          /\ pc = "planned" => E' = "none"
          /\ pc # "planned" => E' = E /\ SE' = SE
      BY <1>4 DEF Crash, Closed, NoPlan, E, SE, Resources, rows, history
    <2> QED BY <1>1, <2>1 DEF Claimed, Awaited, Open
  <1> QED BY <1>2, <1>3, <1>4

\* Somebody changes PATH.
LEMMA EditClaimed ==
  ASSUME ~LateEdits, Faithful, Claimed,
         \/ \E s \in {"mine", "alike", "other"} : EntryAddedByOther(s)
         \/ \E s \in {"mine", "alike"} : EntryRemovedByOther(s)
  PROVE  Claimed'
  <1>1. UNCHANGED <<entryRow, kind, opState, txnState, pc, unit, todo>>
    BY DEF EntryAddedByOther, EntryRemovedByOther, Edited, rows, journal, process
  <1>2. E' = E /\ SE' = SE /\ Open' = Open /\ path \in Paths /\ (Awaited' <=> Awaited)
    BY <1>1 DEF E, SE, Open, Faithful, Tidy, Awaited
  <1>3. Holds(path, "mine")' <=> Holds(path', "mine") BY DEF Holds, Text
  <1>4. ASSUME NEW s \in {"mine", "alike", "other"}, EntryAddedByOther(s) PROVE Claimed'
    <2>1. ours' = ours /\ path' = Append(Text(path), s) BY <1>4 DEF EntryAddedByOther
    <2>2. Awaited => ours # "none"
      BY <1>4 DEF EntryAddedByOther, Exposed, Unmade, Awaited, E, SE, Open
    <2>3. Holds(path, "mine") => Holds(path', "mine")
      <3>1. Text(path) \in Seq(Segments) /\ s \in Segments BY <1>2, TextType DEF Segments
      <3>2. path' \in Seq(Segments) /\ Len(path') = Len(Text(path)) + 1
            /\ \A i \in 1..Len(Text(path)) : path'[i] = Text(path)[i]
        BY <2>1, <3>1
      <3>3. Text(path') = path' BY <3>2 DEF Text
      <3> QED BY <3>1, <3>2, <3>3 DEF Holds
    <2> QED BY <1>1, <1>2, <1>3, <2>1, <2>2, <2>3 DEF Claimed
  <1>5. ASSUME NEW s \in {"mine", "alike"}, EntryRemovedByOther(s) PROVE Claimed'
    <2>1. Holds(path, s) /\ path' = RemoveFirst(path, s)
          /\ ours' = IF s = "mine" THEN Gone ELSE ours
      BY <1>5 DEF EntryRemovedByOther
    <2>2. Present(path) BY <2>1 DEF Holds, Present, Ours
    <2>3. ours' = "there" => Holds(path', "mine")
      BY <1>2, <2>1, FirstTaken DEF Claimed, Gone
    <2>4. ours' \in {"none", "there", "gone"} /\ (ours # "none" => ours' # "none")
      BY <2>1 DEF Claimed, Gone
    <2> QED BY <1>1, <1>2, <1>3, <2>2, <2>3, <2>4 DEF Claimed
  <1> QED BY <1>4, <1>5

LEMMA StepClaimed == ~LateEdits /\ Faithful /\ Claimed /\ [Next]_vars => Claimed'
  <1> SUFFICES ASSUME ~LateEdits, Faithful, Claimed, [Next]_vars PROVE Claimed' OBVIOUS
  <1>1. CASE \/ CreateRegistryKey \/ RemoveRegistryKey \/ SetRegistryValue \/ RemoveRegistryValue
             \/ UndoKey \/ UndoValue
    <2>1. UNCHANGED <<EntryState, pc, unit>> /\ (\/ todo' = todo \ {"key"} \/ todo' = todo \ {"value"})
      BY <1>1 DEF CreateRegistryKey, RemoveRegistryKey, SetRegistryValue, RemoveRegistryValue,
         UndoKey, UndoValue, Walked, EntryState, rows, journal
    <2> QED BY <2>1, EntryLeftAlone
  <1>2. CASE \/ \E data \in UserData : SetByOther(data)
             \/ DeletedByOther \/ KeyDeletedByOther \/ KeySharedByOther \/ UNCHANGED vars
    <2>1. UNCHANGED <<EntryState, pc, unit, todo>>
      BY <1>2 DEF SetByOther, DeletedByOther, KeyDeletedByOther, KeySharedByOther, Edited, vars,
         EntryState, rows, journal, process, machine, history
    <2> QED BY <2>1, EntryLeftAlone
  <1> QED
    BY <1>1, <1>2, PlanClaimed, WalkClaimed, MutationClaimed, ClosingClaimed, EditClaimed
       DEF Next, Forward, Backward, Fault, Others

Takes ==
  \A s \in {"mine", "alike"} :
    todo' # todo /\ Holds(path, s) /\ ~Holds(path', s)
      => ours = "gone" \/ (ours = "there" /\ s = "mine")

\* What a removal takes is the engine's own, if that is there.
LEMMA RemovedIsOurs ==
  ASSUME Claimed, path \in Paths, Padded(path), ours # "none" \/ ~Present(path),
         NEW d, path' = EntryRemoved(path, d)
  PROVE  Takes
  <1> SUFFICES ASSUME NEW s \in {"mine", "alike"}, Holds(path, s), ~Holds(path', s),
                      ~(ours = "gone"), ~(ours = "there" /\ s = "mine")
               PROVE  FALSE
    BY DEF Takes
  <1>1. Present(path) BY DEF Holds, Present, Ours
  <1>2. ours = "there" /\ s # "mine" /\ Holds(path, "mine") BY <1>1 DEF Claimed
  <1> QED BY <1>2, RemovalTakes

LEMMA StepTakes == Faithful /\ Claimed /\ [Next]_vars => Takes
  <1> SUFFICES ASSUME Faithful, Claimed, [Next]_vars PROVE Takes OBVIOUS
  <1>1. path \in Paths /\ Padded(path) /\ Journals BY DEF Faithful, Tidy
  <1>2. CASE todo' = todo \/ path' = path BY <1>2 DEF Takes
  <1>3. CASE AddPathEntry
    <2>1. path' = EntryAdded(path) BY <1>3 DEF AddPathEntry
    <2> QED BY <1>1, <2>1, AddingKeeps DEF Takes
  <1>4. CASE RemovePathEntry
    <2>1. E = "take" /\ path' = EntryRemoved(path, TRUE)
      BY <1>4 DEF RemovePathEntry, Mutating, E
    <2>2. ours # "none" BY <2>1 DEF Faithful, Formed, Claimed, E
    <2> QED BY <1>1, <2>1, <2>2, RemovedIsOurs
  <1>5. CASE UndoEntry
    <2>1. SE = "rolling_back" /\ Open
      BY <1>1, <1>5 DEF UndoEntry, Undoing, Journals, Control, SE, Open
    <2>2. CASE E = "put"
      <3>1. path' = EntryRemoved(path, ~undo["entry"]) BY <1>5, <2>2 DEF UndoEntry, E
      <3>2. ours # "none" \/ ~Present(path) BY <2>1, <2>2 DEF Claimed, Awaited
      <3> QED BY <1>1, <3>1, <3>2, RemovedIsOurs
    <2>3. CASE E # "put"
      <3>1. path' = path \/ path' = EntryAdded(path) BY <1>5, <2>3 DEF UndoEntry, E
      <3> QED BY <1>1, <3>1, AddingKeeps DEF Takes
    <2> QED BY <2>2, <2>3
  <1>6. CASE \/ CreateRegistryKey \/ RemoveRegistryKey \/ SetRegistryValue \/ RemoveRegistryValue
             \/ UndoKey \/ UndoValue
    BY <1>2, <1>6 DEF CreateRegistryKey, RemoveRegistryKey, SetRegistryValue, RemoveRegistryValue,
       UndoKey, UndoValue
  <1>7. CASE Others
    BY <1>2, <1>7 DEF Others, SetByOther, DeletedByOther, KeyDeletedByOther, KeySharedByOther,
       EntryAddedByOther, EntryRemovedByOther, Edited, process
  <1>8. CASE \/ Begin \/ StartGroup \/ FinishGroup \/ FailForward \/ Recover \/ BeginRollback
             \/ FinishUnit \/ Commit \/ FinishRollback \/ Crash \/ UNCHANGED vars
             \/ \E r \in Resources : StartUnit(r) \/ UndoError(r)
             \/ \E why \in {"install", "repair"}, v \in Versions : Plan(why, v)
             \/ Plan("uninstall", installed)
    BY <1>2, <1>8 DEF Begin, StartGroup, FinishGroup, FailForward, Recover, BeginRollback, FinishUnit,
       Commit, FinishRollback, Crash, StartUnit, UndoError, Plan, vars, machine
  <1> QED BY <1>3, <1>4, <1>5, <1>6, <1>7, <1>8 DEF Next, Forward, Backward, Fault

\* Where nobody adds an equivalent between the plan and the append, or over an
\* append that never was, the engine takes no segment of PATH but its own while
\* that is there (plan.rs, path.rs, rollback.rs).
THEOREM TakesOnlyItsOwn == ~LateEdits => (Spec => TakesItsOwn)
  <1> SUFFICES ASSUME ~LateEdits PROVE Spec => TakesItsOwn OBVIOUS
  <1>1. Init => Faithful /\ Claimed BY InitFaithful, InitClaimed
  <1>2. Faithful /\ Claimed /\ [Next]_vars => (Faithful /\ Claimed)'
    BY StepFaithful, StepClaimed
  <1>3. Faithful /\ Claimed /\ [Next]_vars =>
          [\A s \in {"mine", "alike"} :
             todo' # todo /\ Holds(path, s) /\ ~Holds(path', s)
               => ours = "gone" \/ (ours = "there" /\ s = "mine")]_vars
    BY StepTakes DEF Takes
  <1> QED BY <1>1, <1>2, <1>3, PTL DEF Spec, TakesItsOwn

=============================================================================
