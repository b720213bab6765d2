------------------------------ MODULE Catalog ------------------------------
(***************************************************************************)
(* What the WinGet catalog client (crate tigersetup-catalog) believes of   *)
(* the documents a server hands it: the signed source index, the version   *)
(* list it names by hash, the manifest the list names by hash, and the     *)
(* installer the manifest describes. A hash stands for the bytes it is the *)
(* hash of: two documents have one hash only when they are the same.       *)
(*                                                                         *)
(* Versions are numbers, ten times the major component plus the minor; 0   *)
(* is the empty minimum.                                                   *)
(***************************************************************************)
EXTENDS Integers, Sequences, SequencesExt, FiniteSets

CONSTANTS
  Publications,  \* the indexes the publisher ever signed
  PublishedAt,   \* PublishedAt[p]: when, or None where the version says no time
  Rows,          \* Rows[p][i]: the version list p names for package i, or None
  Forged,        \* rows nobody published
  Lists,         \* the version lists a server may hand out, forged ones included
  Manifests,     \* the manifests a server may hand out, forged ones included
  Attempts,      \* MANIFEST_ATTEMPTS
  None

\* A list is the versions it names, each with the manifest that has its hash.
ASSUME CatalogAssumption ==
  /\ Attempts \in Nat \ {0}
  /\ Lists \subseteq Seq([version : Nat, manifest : Manifests])
  /\ \A manifest \in Manifests : DOMAIN manifest.installers \subseteq Nat

Ok == "ok"

\* The first check that fails decides; a check yields Ok or its reason.
Verdict(checks) ==
  LET failed == {i \in DOMAIN checks : checks[i] # Ok}
  IN  IF failed = {} THEN Ok ELSE checks[Min(failed)]
Check(holds, reason) == IF holds THEN Ok ELSE reason

Major(v) == v \div 10

version_satisfies(found, minimum) ==
  minimum = 0 \/ (Major(found) = Major(minimum) /\ found >= minimum)

----------------------------------------------------------------------------
(* The source package: an archive of parts, each a sequence of blocks, and *)
(* the signed map of the blocks' hashes. The index part is the rows.       *)

Manifest == "AppxManifest.xml"
IndexDb  == "Public/index.db"
Listing(name, hashes) == [name |-> name, hashes |-> hashes]

Genuine(p) ==
  [signer |-> "microsoft",
   names  |-> <<"AppxBlockMap.xml", Manifest, IndexDb>>,
   method |-> "sha256",
   parts  |-> [part \in {Manifest, IndexDb} |->
                 IF part = Manifest THEN <<"Microsoft.Winget.Source">> ELSE <<Rows[p]>>],
   map    |-> <<Listing(Manifest, <<"Microsoft.Winget.Source">>), Listing(IndexDb, <<Rows[p]>>)>>,
   at     |-> PublishedAt[p]]

\* What a server may hand out for the index besides the published packages:
\* a published one with forged rows or in disorder, or another package.
Altered(p) ==
  LET g == Genuine(p)  bad == [g EXCEPT !.parts[IndexDb] = <<Forged>>] IN
  {[bad EXCEPT !.signer = "nobody"],
   [bad EXCEPT !.signer = "other root"],
   [bad EXCEPT !.names = Append(@, "public/index.db")],
   [bad EXCEPT !.method = "sha1"],
   bad,
   [g EXCEPT !.parts[IndexDb] = @ \o @],
   [bad EXCEPT !.map = Append(@, Listing(IndexDb, <<Forged>>))],
   [g EXCEPT !.parts[Manifest] = <<"Another.Package">>],
   [bad EXCEPT !.parts[Manifest] = <<"Another.Package">>,
               !.map = <<Listing(Manifest, <<"Another.Package">>), Listing(IndexDb, <<Forged>>)>>]}

Servable == UNION {{Genuine(p)} \cup Altered(p) : p \in Publications}

\* WinVerifyTrust, then the Microsoft-root policy over the signer's chain.
verify_signature(msix) ==
  Verdict(<<Check(msix.signer # "nobody", "catalog_signature_invalid"),
            Check(msix.signer = "microsoft", "catalog_signature_invalid")>>)

Folded(name) == IF name = "public/index.db" THEN "Public/index.db" ELSE name

\* central_directory_names: every name the directory lists, the second of two
\* equal ones included.
PartNames(msix) == [i \in DOMAIN msix.names |-> Folded(msix.names[i])]

\* No part name twice, however it is written, and a block map of SHA-256.
SourceContent_open(msix) ==
  Verdict(<<Check(IsInjective(PartNames(msix)), "catalog_integrity_failure"),
            Check(msix.method = "sha256", "catalog_integrity_failure")>>)

\* Listed once, the same number of blocks, and each block's hash.
verify_block_map(map, name, blocks) ==
  LET listed == {i \in DOMAIN map : map[i].name = name}
  IN  Check(\E i \in listed : listed = {i} /\ map[i].hashes = blocks,
            "catalog_integrity_failure")

\* A part's bytes are believed only as the block map lists them.
entry(msix, name) == verify_block_map(msix.map, name, msix.parts[name])

parse_identity(manifest) ==
  Check(manifest = <<"Microsoft.Winget.Source">>, "catalog_identity_mismatch")

\* An index whose version names no time cannot be judged, and passes.
check_fresh(at, notBefore) ==
  Check(at = None \/ at >= notBefore, "catalog_index_stale")

extract_index(msix, notBefore) ==
  Verdict(<<SourceContent_open(msix),
            entry(msix, Manifest), parse_identity(msix.parts[Manifest]),
            check_fresh(msix.at, notBefore), entry(msix, IndexDb)>>)

\* The index as resolve_with judges it; what it goes on with is the rows.
IndexVerdict(msix, notBefore) ==
  Verdict(<<verify_signature(msix), extract_index(msix, notBefore)>>)

\* The list the first block of the index names; None for an unknown package.
lookup(msix, package) == msix.parts[IndexDb][1][package]

----------------------------------------------------------------------------
(* The version list and the manifests.                                     *)

\* Mutant: the version list is taken as it comes.
AnyVersionData(list, hash) == Ok

verify_version_data(list, hash) == Check(list = hash, "catalog_integrity_failure")

Satisfied(list, minimum) == {i \in DOMAIN list : version_satisfies(list[i].version, minimum)}

\* The satisfying versions tried before the i-th of the list.
Before(list, minimum, i) ==
  {j \in Satisfied(list, minimum) : \/ list[j].version > list[i].version
                                   \/ (list[j].version = list[i].version /\ j < i)}

\* The versions satisfying the requirement, highest first.
candidates(list, minimum) ==
  [k \in 1 .. Cardinality(Satisfied(list, minimum)) |->
     list[CHOOSE i \in Satisfied(list, minimum) :
            Cardinality(Before(list, minimum, i)) = k - 1]]

\* The candidates whose manifests are tried.
Tried(list, minimum) ==
  LET all == candidates(list, minimum)
  IN  SubSeq(all, 1, IF Len(all) < Attempts THEN Len(all) ELSE Attempts)

\* A manifest that is not the listed one, or cannot be read, is unavailable:
\* the next candidate is tried.
manifest_for(manifest, item) == Check(manifest = item.manifest, "catalog_unavailable")

Fields == {"architecture", "scope", "elevation", "type", "installer", "success", "responses"}

\* An entry's own field, or the root's; the URL and the hash are the installer.
effective(manifest, item) ==
  [f \in Fields |-> IF item[f] # None THEN item[f] ELSE manifest.root[f]]

default_reboot_codes(type) ==
  CASE type \in {"msi", "wix", "burn"} -> {3010, 1641}
    [] type = "inno" -> {8}
    [] OTHER -> {}

\* The preferred scope, else no scope, else any entry for the architecture;
\* None when there is no usable entry.
select(manifest, architecture, scope) ==
  LET fields  == [i \in DOMAIN manifest.installers |-> effective(manifest, manifest.installers[i])]
      usable  == {i \in DOMAIN fields : fields[i].architecture = architecture
                                        /\ fields[i].installer # None}
      scoped  == {i \in usable : fields[i].scope = scope}
      free    == {i \in usable : fields[i].scope = None}
      chosen  == fields[Min(IF scoped # {} THEN scoped ELSE IF free # {} THEN free ELSE usable)]
  IN  IF usable = {} THEN None
      ELSE [installer |-> chosen.installer,
            elevated  |-> chosen.scope = "machine" \/ chosen.elevation = "elevationRequired",
            success   |-> IF chosen.success = None THEN {} ELSE chosen.success,
            reboot    |-> default_reboot_codes(chosen.type)
                          \cup IF chosen.responses = None THEN {} ELSE chosen.responses]

----------------------------------------------------------------------------
(* What the publisher stands behind, whatever a server hands out.          *)

\* Some index published no earlier than notBefore lists the installer for the
\* package, in a version the requirement accepts.
Listed(installer, package, minimum, notBefore) ==
  \E p \in Publications :
    /\ check_fresh(PublishedAt[p], notBefore) = Ok
    /\ Rows[p][package] # None
    /\ \E item \in Range(Rows[p][package]) :
         /\ version_satisfies(item.version, minimum)
         /\ \E i \in DOMAIN item.manifest.installers :
              effective(item.manifest, item.manifest.installers[i]).installer = installer
=============================================================================
