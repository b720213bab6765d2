---------------------------- MODULE MCResources ----------------------------
(***************************************************************************)
(* Instances of Resources for TLC: two products, or two scopes of one, and *)
(* the places as they may be found.                                        *)
(***************************************************************************)
EXTENDS Resources, TLC

CONSTANTS i1, i2, v1, v2, u1

Profile(dir, file, access) == [dir |-> dir, file |-> file, access |-> access]

MCProfiles ==
  {Profile(FALSE, None, "free"), Profile(TRUE, <<>>, "free"),
   Profile(TRUE, <<u1, NewLine>>, "free"), Profile(TRUE, <<u1>>, "free")}

MCFirsts ==
  ("profile" :> MCProfiles) @@ ("shared" :> MCProfiles)
    @@ ("shortcut" :> {None, Stranger}) @@ ("firewall" :> {<<>>, <<Stranger>>})
    @@ ("environment" :> {None, Stranger})

Symmetry == Permutations({i1, i2}) \cup Permutations({v1, v2})
=============================================================================
