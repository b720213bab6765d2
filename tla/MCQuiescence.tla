---------------------------- MODULE MCQuiescence ----------------------------
(* Two versions of a product with two applications: the stop program of one *)
(* is packaged with the second version only, its resume program with both;  *)
(* those of the other are commands.                                         *)
EXTENDS Quiescence, TLC

CONSTANTS v1, v2, e1, e2, h1, h2, r1

Neither  == e1 :> Nothing @@ e2 :> Nothing
MCStop   == v1 :> Neither @@ v2 :> (e1 :> h1 @@ e2 :> Nothing)
MCResume == v1 :> (e1 :> h2 @@ e2 :> Nothing) @@ v2 :> (e1 :> h2 @@ e2 :> Nothing)
MCRunOn  == e1 :> {"upgrade", "uninstall"} @@ e2 :> {"install", "upgrade"}
Both     == [v \in Versions |-> Apps]
=============================================================================
