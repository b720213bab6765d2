--------------------------- MODULE MCIntegrations ---------------------------
(***************************************************************************)
(* Integrations for TLC: a product whose upgrade changes the value, one    *)
(* whose upgrade drops it, and one whose upgrade drops its PATH entry.     *)
(***************************************************************************)
EXTENDS Integrations_proofs, TLC

CONSTANTS v1, v2, d1, d2, u, changes, drops, dropsEntry

MCWants ==
  (changes :> (v1 :> d1 @@ v2 :> d2)) @@ (drops :> (v1 :> d1 @@ v2 :> Absent))
    @@ (dropsEntry :> (v1 :> Absent @@ v2 :> Absent))

MCWantsEntry == (changes :> {}) @@ (drops :> {}) @@ (dropsEntry :> {v1})
=============================================================================
