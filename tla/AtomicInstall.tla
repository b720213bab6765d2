--------------------------- MODULE AtomicInstall ---------------------------
(***************************************************************************)
(* What an installation promises of a product's files: a version is        *)
(* installed, replaced or removed in one indivisible change of the files   *)
(* and of the ownership records, or nothing changes at all. "Never a       *)
(* mixture of A and B" (TigerSetup-Design.md 5.4), and conservative about  *)
(* what the user made of an owned file (5.6).                              *)
(*                                                                         *)
(* There is no journal, no backup, no crash and no rollback here: a        *)
(* transaction that does not commit is a step that never happens.          *)
(***************************************************************************)
CONSTANTS
  Files, Versions, UserBytes, Absent, None,
  Tree           \* Tree[v][f]: what version v puts at f, or Absent

VARIABLES
  installed,     \* the version installed, or None
  owned,         \* the content owned at each file, or Absent
  tree           \* what each file holds

vars == <<installed, owned, tree>>

Init ==
  /\ installed = None
  /\ owned = [f \in Files |-> Absent]
  /\ tree \in [Files -> UserBytes \cup {Absent}]

\* An owned file goes with its owner only while it is what is owned.
Without(f) == IF tree[f] = owned[f] THEN Absent ELSE tree[f]

\* Install, upgrade, reinstall or repair to version v.
Install(v) ==
  /\ installed' = v
  /\ owned' = Tree[v]
  /\ tree' = [f \in Files |-> IF Tree[v][f] # Absent THEN Tree[v][f] ELSE Without(f)]

Uninstall ==
  /\ installed # None
  /\ installed' = None
  /\ owned' = [f \in Files |-> Absent]
  /\ tree' = [f \in Files |-> Without(f)]

UserEdit(f, bytes) ==
  /\ tree' = [tree EXCEPT ![f] = bytes]
  /\ UNCHANGED <<installed, owned>>

Next ==
  \/ \E v \in Versions : Install(v)
  \/ Uninstall
  \/ \E f \in Files, bytes \in UserBytes \cup {Absent} : UserEdit(f, bytes)

Spec == Init /\ [][Next]_vars
=============================================================================
