------------------------------ MODULE MCClient ------------------------------
(* Two chains on a machine with no installation or one, perhaps with a     *)
(* predecessor.                                                            *)
EXTENDS Client_proofs, TLC

CONSTANTS l1, l2

MCCommands ==
  {[operation |-> "install", exe |-> "setup", given |-> None],
   [operation |-> "uninstall", exe |-> "setup", given |-> None],
   [operation |-> "uninstall", exe |-> "machine", given |-> None],
   [operation |-> "repair", exe |-> "setup", given |-> "machine"],
   [operation |-> "install", exe |-> "setup", given |-> "user"]}

MCOffered   == <<"machine", "user">>
MCInstalled == {{}, {"machine"}}
MCLegacies  == {{}, {"machine"}}
Symmetric    == Permutations(Launches)
=============================================================================
