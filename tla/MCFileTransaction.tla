------------------------- MODULE MCFileTransaction -------------------------
(***************************************************************************)
(* Instances of FileTransaction for TLC: an upgrade between two versions   *)
(* that share a changed file, drop one and add one, over files the user    *)
(* may have put there first.                                               *)
(***************************************************************************)
EXTENDS FileTransaction_proofs, TLC

CONSTANTS v1, v2, a1, a2, b1, c2, u

MCTree ==
  (v1 :> <<a1, b1, Absent>>) @@ (v2 :> <<a2, Absent, c2>>)

\* The same upgrade without the added file, for the liveness runs.
MCSmallTree == (v1 :> <<a1, b1>>) @@ (v2 :> <<a2, Absent>>)
MCSmallBatchOf == <<1, 2>>

\* The first two files share a builder batch.
MCBatchOf == <<1, 1, 2>>
=============================================================================
