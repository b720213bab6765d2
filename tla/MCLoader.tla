------------------------------ MODULE MCLoader ------------------------------
(* Two launches of one installer, a directory of a name a launch would     *)
(* choose, and the helper of an uninstallation.                            *)
EXTENDS Loader, TLC

CONSTANTS l1, l2

MCTaken   == {<<l1, 0>>}
Symmetric == Permutations(Files)
=============================================================================
