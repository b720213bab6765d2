-------------------------- MODULE MCDependencies --------------------------
(* A runtime acquired through the catalog, with a hint that may be stale by *)
(* the time it is used, and a library carried in the payload. The first of  *)
(* the two published indexes is older than the builder's.                   *)
EXTENDS Dependencies_proofs

CONSTANTS hint, new, old, other, foreign, embedded, forged

Described(installer, arch, scope, elevation) ==
  [architecture |-> arch, scope |-> scope, elevation |-> elevation, type |-> None,
   installer |-> installer, success |-> None, responses |-> None]
Root == Described(None, "x64", None, None)

Withdrawn == [root |-> Root, installers |-> <<Described(old, None, "user", None)>>]
Current12 == [root |-> [Root EXCEPT !.type = "burn"],
              installers |-> <<Described(foreign, "arm64", None, None),
                               Described(new, None, "machine", "elevationRequired")>>]
NoX64     == [root |-> Root, installers |-> <<Described(foreign, "arm64", None, None)>>]
Major2    == [root |-> Root, installers |-> <<Described(other, None, None, None)>>]
Forgery   == [root |-> Root, installers |-> <<Described(forged, None, None, None)>>]

OldList == <<[version |-> 12, manifest |-> Withdrawn]>>
NewList == <<[version |-> 12, manifest |-> Current12], [version |-> 21, manifest |-> Major2],
             [version |-> 13, manifest |-> NoX64]>>
BadList == <<[version |-> 13, manifest |-> Forgery]>>

MCPublishedAt == <<1, 8>>
MCRows   == << <<OldList, None>>, <<NewList, None>> >>
MCForged == <<BadList, BadList>>
MCLists  == {OldList, NewList, BadList}
MCManifests == {Withdrawn, Current12, NoX64, Major2, Forgery}
MCDep == << [source |-> "winget", minimum |-> 12, hint |-> hint, maxAge |-> 3, resolvedAt |-> 7,
             elevated |-> FALSE, success |-> {}, reboot |-> {3010}, declared |-> FALSE],
            [source |-> "embedded", minimum |-> 0, hint |-> embedded, maxAge |-> 0,
             resolvedAt |-> 0, elevated |-> TRUE, success |-> {}, reboot |-> {}, declared |-> TRUE] >>
MCChoices == {{1}, {1, 2}}
MCManners == {<<TRUE, TRUE, FALSE>>, <<TRUE, FALSE, FALSE>>, <<TRUE, FALSE, TRUE>>,
              <<FALSE, FALSE, TRUE>>}

MCGives == [i \in Installers |-> CASE i = old -> 11 [] i = embedded -> 11 [] OTHER -> 12]
MCFileName == [i \in Installers |-> "setup.exe"]
=============================================================================
