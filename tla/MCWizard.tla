------------------------------ MODULE MCWizard ------------------------------
(* Starts of the installer, and of the uninstaller copy, on machines with  *)
(* no installation, one or two.                                            *)
EXTENDS Wizard

Both  == <<"user", "machine">>
One   == <<"machine">>
Holds(user, machine) == [s \in Scopes |-> IF s = "user" THEN user ELSE machine]

Installer ==
  [operation : {"install", "uninstall", "repair"}, served : {None},
   scopes    : {Both, One}, given : {None} \cup Scopes, root : {None, "custom"},
   versions  : {Holds(None, None), Holds("1", None), Holds("1", "1")},
   policy    : {"continue", "error", "allow-parallel"},
   admin     : BOOLEAN, quiet : {FALSE},
   license   : BOOLEAN, accepted : {[s \in Scopes |-> s = "user"]},
   options   : {1}, launch : BOOLEAN]

\* The uninstaller copy that the user's installation keeps, or has left behind.
Uninstaller ==
  [operation : {"uninstall"}, served : {"user"}, scopes : {Both}, given : {None}, root : {None},
   versions  : {Holds("1", None), Holds("1", "1"), Holds(None, "1"), Holds(None, None)},
   policy    : {"continue"},
   admin     : BOOLEAN, quiet : {FALSE}, license : {FALSE},
   accepted  : {[s \in Scopes |-> FALSE]}, options : {0}, launch : {FALSE}]

MCStarts == Installer \cup Uninstaller
=============================================================================
