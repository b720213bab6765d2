--------------------------- MODULE Package_proofs ---------------------------
(* What is proved of a package.  Of a build and of the file it makes, for   *)
(* any manifests, sources, edits and damages: a build that reports success  *)
(* made a file an engine can work through, what was published is given up   *)
(* only for a file composed to its end, what a run reads out of a delivered *)
(* file is what was built into it or an error, and metadata made of an      *)
(* accepted manifest is refused only for what the manifest could not show.  *)
(* Of the product installed from it, for any versions, options, accounts    *)
(* and machine: the runs leave what is not the installation's own as others *)
(* left it.                                                                 *)
EXTENDS Package, Installation, FiniteSetTheorems, SequenceTheorems, WellFoundedInduction, TLAPS

-----------------------------------------------------------------------------
(* The invariant: what the build has resolved at each of its stages, what   *)
(* stands in the partial file once it is written and at the path once it is *)
(* renamed, and what the engine has of the copy.                            *)

\* A file to be packaged: in the order of the stream, read from a source or
\* made by the build.
Packable(f) ==
  /\ f.path \in ToSet(StreamOrder) /\ f.source \in Sources
  /\ f.bytes \in Contents \cup {None} /\ f.size \in Nat

\* The stages at which the manifest was accepted, and the stages by which
\* the files, the reserved entries and the metadata are resolved.
Writing == {"measure", "write"}
Described == {"describe"} \cup Writing
Reserving == {"actions"} \cup Described
Completing == {"completions", "dependencies"} \cup Reserving
Accepting == {"files"} \cup Completing

WorkFields == {"files", "resolved", "reserved", "metadata", "pledged", "version"}
ResolvedFields == {"completions", "dependencies", "actions", "quiescence"}

BuildOK ==
  /\ manifest \in Manifests
  /\ disk \in [Sources -> Contents \cup {None}]
  /\ stage \in {"idle", "load", "remove", "rename", "verify"} \cup Accepting
  /\ WorkFields \subseteq DOMAIN work /\ ResolvedFields \subseteq DOMAIN work.resolved
  /\ stage \in Accepting => Accepted(manifest)
  /\ stage \in Completing =>
      IsSequence(work.files) /\ \A f \in ToSet(work.files) : Packable(f)
  \* What is embedded or packaged has an entry reserved for it.
  /\ stage \in Reserving =>
      /\ \A r \in work.reserved : r.entry \in ToSet(StreamOrder) /\ r.source \in Sources
      /\ Embedded(work.resolved) # {} => work.reserved # {}
  /\ stage \in Described => (Pins(work.resolved) # {} => work.reserved # {})
  /\ stage \in Writing =>
      work.metadata = MetadataFor(manifest, work.version, work.files, work.resolved)

\* A file as the build composes it: its blocks, an index of what its payload
\* holds, and metadata in which nothing is embedded in an empty stream.
MetadataFields ==
  {"id", "name", "version", "scopes", "roots", "role", "scope", "files", "directories",
   "batches", "payload", "options", "shortcuts", "path", "environment", "registry",
   "associations", "protocols", "appPaths", "verbs", "firewall", "launch", "completions",
   "dependencies", "actions", "quiescence"}

SoundMetadata(m) ==
  /\ MetadataFields \subseteq DOMAIN m
  /\ Valid(m)
  /\ m.role = "installer" /\ ToSet(m.scopes) \subseteq {"user", "machine"}
  /\ IsSequence(m.files) /\ \A f \in ToSet(m.files) : f.size \in Nat
  /\ m.batches \in Seq([first : Nat, count : Nat, bytes : Nat])
  /\ m.files # <<>> \/ Pins(m) # {} => m.payload # <<>>

Sound(file) ==
  /\ file = File(LoaderBlock, EngineBlock, file.payload, file.metadata)
  /\ file.payload \in Seq(Contents)
  /\ file.metadata.payload =
      Index([i \in DOMAIN file.payload |-> file.metadata.payload[i].entry], file.payload)
  /\ SoundMetadata(file.metadata)

FilesOK ==
  /\ stage \in {"remove", "rename"} => Sound(partial)
  /\ stage = "verify" => Sound(published)
  /\ result = "done" => stage = "idle" /\ Sound(published) /\ Verifies(published)

\* What the engine has of the copy.
ReaderOK ==
  /\ reader \in [state : {"unopened", "open", "refused"}, position : Nat,
                 read : {reader.read}, engine : {reader.engine}]
  /\ copy = NoFile => reader = Unopened /\ uninstaller = NoFile
  /\ copy # NoFile =>
      result = "done" /\ damage \in Damages /\ copy \in Altered(published, damage)
  /\ reader.state # "unopened" => reader.engine = EngineBlock
  /\ reader.state = "open" => Opens(copy)

IInv == BuildOK /\ FilesOK /\ ReaderOK /\ ReadsWhatWasBuilt
-----------------------------------------------------------------------------
(* What the functions that run over a sequence compute. Each is the one     *)
(* function that meets its equation, which a least index at which there     *)
(* were none shows to exist.                                                *)

\* A set of numbers that is not empty has a least one.
LEMMA Least ==
  ASSUME NEW S \in SUBSET Nat, S # {}
  PROVE  \E n \in S : \A m \in S : n <= m
<1> DEFINE R == OpToRel(<, Nat)
<1>1. IsWellFoundedOn(R, Nat) BY NatLessThanWellFounded
<1>2. \A m, n \in Nat : m < n => <<m, n>> \in R BY DEF OpToRel
<1> HIDE DEF R
<1>3. PICK n \in S : \A m \in S : <<m, n>> \notin R BY <1>1, WFMin, Zenon
<1>4. \A m \in S : ~(m < n) BY <1>2, <1>3
<1> QED BY <1>4

\* The ends of some lengths: each lies its length after the one before.
LEMMA EndsExist ==
  ASSUME NEW lengths, NEW n \in Nat
  PROVE  \E f : f = [i \in 0..n |-> IF i = 0 THEN 0 ELSE f[i - 1] + lengths[i]]
<1> DEFINE Ending(k) == \E f : f = [i \in 0..k |-> IF i = 0 THEN 0 ELSE f[i - 1] + lengths[i]]
           Lacking == {k \in Nat : ~Ending(k)}
<1> SUFFICES ASSUME Lacking # {} PROVE FALSE OBVIOUS
<1>1. PICK k \in Lacking : \A j \in Lacking : k <= j
  <2> HIDE DEF Ending
  <2> QED BY Least
<1>2. k # 0
  <2> DEFINE g == [i \in 0..0 |-> 0]
  <2>1. g = [i \in 0..0 |-> IF i = 0 THEN 0 ELSE g[i - 1] + lengths[i]] OBVIOUS
  <2>2. Ending(0) BY <2>1
  <2> QED BY <2>2
<1>3. Ending(k - 1)
  <2> HIDE DEF Ending
  <2> QED BY <1>1, <1>2
<1>4. PICK f : f = [i \in 0..(k - 1) |-> IF i = 0 THEN 0 ELSE f[i - 1] + lengths[i]] BY <1>3
<1> DEFINE g == [i \in 0..k |-> IF i = k THEN f[k - 1] + lengths[k] ELSE f[i]]
<1>5. ASSUME NEW i \in 0..k
      PROVE  g[i] = IF i = 0 THEN 0 ELSE g[i - 1] + lengths[i]
  <2>1. CASE i = k BY <1>2, <2>1
  <2>2. CASE i # k BY <1>2, <1>4, <2>2
  <2> QED BY <2>1, <2>2
<1>6. g = [i \in 0..k |-> IF i = 0 THEN 0 ELSE g[i - 1] + lengths[i]] BY <1>5
<1>7. Ending(k) BY <1>6
<1> QED BY <1>1, <1>7

LEMMA EndsEquation ==
  ASSUME NEW lengths \in Seq(Nat)
  PROVE  /\ DOMAIN Ends(lengths) = 0..Len(lengths)
         /\ Ends(lengths)[0] = 0
         /\ \A i \in 1..Len(lengths) : Ends(lengths)[i] = Ends(lengths)[i - 1] + lengths[i]
<1> DEFINE end == Ends(lengths)
<1>1. end = [i \in 0..Len(lengths) |-> IF i = 0 THEN 0 ELSE end[i - 1] + lengths[i]]
  <2>1. \E f : f = [i \in 0..Len(lengths) |-> IF i = 0 THEN 0 ELSE f[i - 1] + lengths[i]]
    BY EndsExist
  <2> QED BY <2>1, Zenon DEF Ends
<1> HIDE DEF end
<1>2. /\ DOMAIN end = 0..Len(lengths) /\ end[0] = 0
      /\ \A i \in 1..Len(lengths) : end[i] = end[i - 1] + lengths[i]
  BY <1>1
<1> QED BY <1>2 DEF end

\* They are numbers that never fall.
LEMMA EndsAreNumbers ==
  ASSUME NEW lengths \in Seq(Nat), NEW i \in 0..Len(lengths)
  PROVE  Ends(lengths)[i] \in Nat
<1> DEFINE end == Ends(lengths)
           Bad == {k \in Nat : k <= Len(lengths) /\ end[k] \notin Nat}
<1>1. /\ DOMAIN end = 0..Len(lengths) /\ end[0] = 0
      /\ \A k \in 1..Len(lengths) : end[k] = end[k - 1] + lengths[k]
  BY EndsEquation
<1> HIDE DEF end
<1>2. Bad = {}
  <2> SUFFICES ASSUME Bad # {} PROVE FALSE OBVIOUS
  <2>1. PICK k \in Bad : \A j \in Bad : k <= j
    <3>1. Bad \in SUBSET Nat OBVIOUS
    <3> HIDE DEF Bad
    <3> QED BY <3>1, Least
  <2>2. k \in 1..Len(lengths) /\ end[k] \notin Nat BY <1>1
  <2>3. end[k - 1] \in Nat BY <2>1, <2>2
  <2>4. lengths[k] \in Nat BY <2>2
  <2> QED BY <1>1, <2>2, <2>3, <2>4
<1> QED BY <1>2 DEF end

LEMMA EndsRise ==
  ASSUME NEW lengths \in Seq(Nat), NEW i \in 0..Len(lengths), NEW j \in i..Len(lengths)
  PROVE  Ends(lengths)[i] <= Ends(lengths)[j]
<1> DEFINE end == Ends(lengths)
           Bad == {k \in Nat : i <= k /\ k <= Len(lengths) /\ ~(end[i] <= end[k])}
<1>1. /\ end[0] = 0
      /\ \A k \in 1..Len(lengths) : end[k] = end[k - 1] + lengths[k]
  BY EndsEquation
<1>2. \A k \in 0..Len(lengths) : end[k] \in Nat BY EndsAreNumbers
<1> HIDE DEF end
<1>3. Bad = {}
  <2> SUFFICES ASSUME Bad # {} PROVE FALSE OBVIOUS
  <2>1. PICK k \in Bad : \A m \in Bad : k <= m
    <3>1. Bad \in SUBSET Nat OBVIOUS
    <3> HIDE DEF Bad
    <3> QED BY <3>1, Least
  <2>2. i < k /\ k \in 1..Len(lengths) BY <1>2
  <2>3. end[i] <= end[k - 1] BY <2>1, <2>2
  <2>4. lengths[k] \in Nat BY <2>2
  <2>5. end[i] \in Nat /\ end[k] \in Nat /\ end[k - 1] \in Nat BY <1>2, <2>2
  <2> QED BY <1>1, <2>2, <2>3, <2>4, <2>5
<1> QED BY <1>3 DEF end

-----------------------------------------------------------------------------
(* There is one way to cut a list of files into valid batches.              *)

FileRecords(files) == IsSequence(files) /\ \A f \in ToSet(files) : f.size \in Nat
BatchRecords == [first : Nat, count : Nat, bytes : Nat]

LEMMA SizesAreNumbers ==
  ASSUME NEW files, FileRecords(files)
  PROVE  Sizes(files) \in Seq(Nat) /\ Len(Sizes(files)) = Len(files)
<1>1. files \in Seq(ToSet(files)) BY DEF FileRecords, IsSequence
<1>2. PICK n \in Nat : n = Len(files) /\ DOMAIN files = 1..n BY <1>1
<1>3. \A i \in 1..n : files[i].size \in Nat BY <1>2 DEF FileRecords, ToSet
<1>4. Sizes(files) = [i \in 1..n |-> files[i].size] BY <1>2 DEF Sizes
<1> QED BY <1>2, <1>3, <1>4

\* A batch holds what it would hold without its last file, and that file.
LEMMA BytesGrow ==
  ASSUME NEW files, FileRecords(files), NEW first \in 1..(Len(files) + 1),
         NEW upto \in (first - 1)..Len(files)
  PROVE  /\ Bytes(files, first, upto) \in Nat
         /\ upto < Len(files) =>
             Bytes(files, first, upto + 1) = Bytes(files, first, upto) + files[upto + 1].size
         /\ \A further \in upto..Len(files) :
             Bytes(files, first, upto) <= Bytes(files, first, further)
<1> DEFINE sizes == Sizes(files)
           end == Ends(sizes)
<1>1. sizes \in Seq(Nat) /\ Len(sizes) = Len(files) BY SizesAreNumbers
<1>2. Len(files) \in Nat /\ DOMAIN files = 1..Len(files) BY DEF FileRecords, IsSequence
<1>3. \A i \in 1..Len(files) : end[i] = end[i - 1] + files[i].size
  <2>1. \A i \in 1..Len(files) : sizes[i] = files[i].size BY <1>2 DEF Sizes
  <2> HIDE DEF sizes
  <2> QED BY <1>1, <2>1, EndsEquation
<1>4. \A i \in 0..Len(files) : end[i] \in Nat
  <2> HIDE DEF sizes
  <2> QED BY <1>1, EndsAreNumbers
<1>5. \A i \in 0..Len(files) : \A j \in i..Len(files) : end[i] <= end[j]
  <2> HIDE DEF sizes
  <2> QED BY <1>1, EndsRise
<1>6. \A i \in 0..Len(files) : Bytes(files, first, i) = end[i] - end[first - 1] BY DEF Bytes
<1>8. \A i \in 1..Len(files) : files[i].size \in Nat BY <1>2 DEF FileRecords, ToSet
<1> HIDE DEF end
<1>7. end[first - 1] \in Nat /\ end[upto] \in Nat /\ end[first - 1] <= end[upto]
  BY <1>2, <1>4, <1>5
<1>9. Bytes(files, first, upto) \in Nat BY <1>2, <1>6, <1>7
<1>10. upto < Len(files) =>
         Bytes(files, first, upto + 1) = Bytes(files, first, upto) + files[upto + 1].size
  <2> SUFFICES ASSUME upto < Len(files)
               PROVE  end[upto + 1] - end[first - 1] =
                        (end[upto] - end[first - 1]) + files[upto + 1].size
    BY <1>2, <1>6
  <2>1. end[upto + 1] = end[upto] + files[upto + 1].size /\ files[upto + 1].size \in Nat
    BY <1>2, <1>3, <1>8
  <2> QED BY <1>7, <2>1
<1>11. ASSUME NEW further \in upto..Len(files)
       PROVE  Bytes(files, first, upto) <= Bytes(files, first, further)
  <2>1. end[upto] <= end[further] /\ end[further] \in Nat BY <1>2, <1>4, <1>5
  <2> QED BY <1>2, <1>6, <1>7, <2>1
<1> QED BY <1>9, <1>10, <1>11

\* What ValidBatch says, by the last file of the batch.
LEMMA BatchFacts ==
  ASSUME NEW files, FileRecords(files), NEW b \in BatchRecords, b.first > 0,
         ValidBatch(files, b)
  PROVE  \E upto \in Nat :
           /\ upto = b.first + b.count - 1 /\ b.first <= upto /\ upto <= Len(files)
           /\ b.bytes = Bytes(files, b.first, upto) /\ b.count <= BatchMaxFiles
           /\ b.first < upto => b.bytes <= BatchMaxBytes
           /\ upto < Len(files) /\ b.count < BatchMaxFiles =>
               b.bytes + files[upto + 1].size > BatchMaxBytes
<1>1. PICK l \in Nat : l = Len(files) BY DEF FileRecords, IsSequence
<1>2. PICK first, count, bytes \in Nat : first = b.first /\ count = b.count /\ bytes = b.bytes
  BY DEF BatchRecords
<1>3. PICK next \in Nat : next = first + count OBVIOUS
<1>4. /\ count > 0 /\ next - 1 <= l /\ bytes = Bytes(files, first, next - 1)
      /\ count <= BatchMaxFiles /\ (count > 1 => bytes <= BatchMaxBytes)
      /\ next <= l /\ count < BatchMaxFiles => bytes + files[next].size > BatchMaxBytes
  BY <1>1, <1>2, <1>3 DEF ValidBatch
<1>5. count > 0 BY <1>4
<1>6. PICK upto \in Nat : upto + 1 = next /\ next - 1 = upto /\ upto = first + count - 1
  BY <1>3, <1>5
<1>7. first <= upto /\ (first < upto => count > 1) BY <1>3, <1>5, <1>6
<1>8. upto < l => next <= l BY <1>6
<1> HIDE DEF BatchRecords
<1>9. /\ upto = b.first + b.count - 1 /\ b.first <= upto /\ upto <= Len(files)
      /\ b.bytes = Bytes(files, b.first, upto) /\ b.count <= BatchMaxFiles
  BY <1>1, <1>2, <1>4, <1>6, <1>7
<1>10. b.first < upto => b.bytes <= BatchMaxBytes BY <1>2, <1>4, <1>7
<1>11. ASSUME upto < Len(files), b.count < BatchMaxFiles
       PROVE  b.bytes + files[upto + 1].size > BatchMaxBytes
  BY <1>1, <1>2, <1>4, <1>6, <1>8, <1>11
<1> QED BY <1>9, <1>10, <1>11

\* Of two valid batches that begin at one file neither closes before the
\* other: it could have taken one more.
LEMMA NoneShorter ==
  ASSUME NEW files, FileRecords(files), NEW a \in BatchRecords, NEW b \in BatchRecords,
         a.first = b.first, a.first > 0, ValidBatch(files, a), ValidBatch(files, b)
  PROVE  ~(a.count < b.count)
<1> SUFFICES ASSUME a.count < b.count PROVE FALSE OBVIOUS
<1>1. PICK few, many, l, size \in Nat :
        few = a.count /\ many = b.count /\ l = Len(files) /\ size = a.bytes
  BY DEF BatchRecords, FileRecords, IsSequence
<1>2. PICK first \in Nat : first = a.first /\ first = b.first /\ first > 0
  BY DEF BatchRecords
<1>3. PICK upto \in Nat :
        /\ upto = first + few - 1 /\ first <= upto
        /\ size = Bytes(files, first, upto)
        /\ upto < l /\ few < BatchMaxFiles => size + files[upto + 1].size > BatchMaxBytes
  BY <1>1, <1>2, BatchFacts
<1>4. PICK further \in Nat :
        /\ further = first + many - 1 /\ further <= l
        /\ b.bytes = Bytes(files, first, further) /\ many <= BatchMaxFiles
        /\ first < further => b.bytes <= BatchMaxBytes
  BY <1>1, <1>2, BatchFacts
<1>5. few < many BY <1>1
<1>6. upto < further /\ first < further /\ upto < l
  <2>1. upto = first + few - 1 /\ first <= upto BY <1>3
  <2>2. further = first + many - 1 /\ further <= l BY <1>4
  <2> QED BY <1>5, <2>1, <2>2
<1>7. few < BatchMaxFiles
  <2>1. many <= BatchMaxFiles BY <1>4
  <2> QED BY <1>5, <2>1, MetadataAssumption
<1>8. first \in 1..(l + 1) /\ upto \in (first - 1)..l
  <2>1. first <= upto BY <1>3
  <2> QED BY <1>2, <1>6, <2>1
<1>9. Bytes(files, first, upto + 1) = size + files[upto + 1].size
  BY <1>1, <1>3, <1>6, <1>8, BytesGrow
<1>10. Bytes(files, first, upto + 1) <= b.bytes /\ Bytes(files, first, upto + 1) \in Nat
  <2>1. upto + 1 \in (first - 1)..l /\ further \in (upto + 1)..l
    <3>1. first <= upto /\ further <= l BY <1>3, <1>4
    <3> QED BY <1>2, <1>6, <3>1
  <2> QED BY <1>1, <1>4, <1>8, <2>1, BytesGrow
<1>11. Bytes(files, first, upto + 1) > BatchMaxBytes BY <1>3, <1>6, <1>7, <1>9
<1>12. b.bytes <= BatchMaxBytes /\ b.bytes \in Nat BY <1>4, <1>6 DEF BatchRecords
<1> HIDE DEF Bytes
<1> QED BY <1>10, <1>11, <1>12, MetadataAssumption

LEMMA OneBatch ==
  ASSUME NEW files, FileRecords(files), NEW a \in BatchRecords, NEW b \in BatchRecords,
         a.first = b.first, a.first > 0, ValidBatch(files, a), ValidBatch(files, b)
  PROVE  a = b
<1>1. ~(a.count < b.count) /\ ~(b.count < a.count) BY NoneShorter
<1>2. a.count = b.count BY <1>1 DEF BatchRecords
<1>3. a.bytes = b.bytes BY <1>2 DEF ValidBatch
<1> QED BY <1>2, <1>3 DEF BatchRecords

\* What ValidBatches says of one batch.
LEMMA BatchesMeet ==
  ASSUME NEW files, FileRecords(files), NEW cut \in Seq(BatchRecords), ValidBatches(files, cut)
  PROVE  /\ \A k \in 1..Len(cut) :
             /\ ValidBatch(files, cut[k]) /\ cut[k] \in BatchRecords /\ cut[k].first > 0
             /\ k = 1 => cut[k].first = 1
             /\ k # 1 => cut[k].first = cut[k - 1].first + cut[k - 1].count
         /\ Len(cut) = 0 => Len(files) = 0
         /\ Len(cut) # 0 => cut[Len(cut)].first + cut[Len(cut)].count = Len(files) + 1
<1> USE DEF ValidBatches
<1>1. Len(files) \in Nat /\ Len(cut) \in Nat /\ DOMAIN cut = 1..Len(cut)
  BY DEF FileRecords, IsSequence
<1>2. \A k \in 1..Len(cut) : /\ ValidBatch(files, cut[k]) /\ cut[k] \in BatchRecords
                             /\ k = 1 => cut[k].first = 1
                             /\ k # 1 => cut[k].first = cut[k - 1].first + cut[k - 1].count
  BY <1>1
<1>3. \A k \in 1..Len(cut) : cut[k].count > 0 /\ cut[k].count \in Nat /\ cut[k].first \in Nat
  BY <1>2 DEF ValidBatch, BatchRecords
<1>4. \A k \in 1..Len(cut) : cut[k].first > 0
  <2> TAKE k \in 1..Len(cut)
  <2>1. CASE k = 1 BY <1>2, <2>1
  <2>2. CASE k # 1
    <3>1. k - 1 \in 1..Len(cut) BY <1>1, <2>2
    <3>2. /\ cut[k - 1].count > 0 /\ cut[k - 1].count \in Nat
          /\ cut[k - 1].first \in Nat
      BY <1>3, <3>1
    <3>3. cut[k].first = cut[k - 1].first + cut[k - 1].count BY <1>2, <2>2
    <3> QED BY <3>2, <3>3
  <2> QED BY <2>1, <2>2
<1>5. Len(cut) = 0 => Len(files) = 0 BY <1>1
<1>6. Len(cut) # 0 => cut[Len(cut)].first + cut[Len(cut)].count = Len(files) + 1 BY <1>1
<1> QED BY <1>2, <1>4, <1>5, <1>6

LEMMA BatchesAgree ==
  ASSUME NEW files, FileRecords(files),
         NEW a \in Seq(BatchRecords), ValidBatches(files, a),
         NEW b \in Seq(BatchRecords), ValidBatches(files, b)
  PROVE  \A k \in 1..Len(a) : k <= Len(b) => a[k] = b[k]
<1> DEFINE Bad == {k \in Nat : k \in 1..Len(a) /\ k <= Len(b) /\ a[k] # b[k]}
<1> SUFFICES ASSUME Bad # {} PROVE FALSE OBVIOUS
<1>1. PICK k \in Bad : \A j \in Bad : k <= j
  <2>1. Bad \in SUBSET Nat OBVIOUS
  <2> HIDE DEF Bad
  <2> QED BY <2>1, Least
<1>2. Len(a) \in Nat /\ Len(b) \in Nat /\ k \in 1..Len(a) /\ k \in 1..Len(b) OBVIOUS
<1>3. a[k].first = b[k].first
  <2>1. CASE k = 1 BY <1>2, <2>1, BatchesMeet
  <2>2. CASE k # 1
    <3>1. k - 1 \in Nat /\ k - 1 \in 1..Len(a) /\ k - 1 <= Len(b) /\ ~(k <= k - 1)
      BY <1>2, <2>2
    <3>2. a[k - 1] = b[k - 1] BY <1>1, <3>1
    <3>3. /\ a[k].first = a[k - 1].first + a[k - 1].count
          /\ b[k].first = b[k - 1].first + b[k - 1].count
      BY <1>2, <2>2, BatchesMeet
    <3> QED BY <3>2, <3>3
  <2> QED BY <2>1, <2>2
<1>4. /\ ValidBatch(files, a[k]) /\ a[k] \in BatchRecords /\ a[k].first > 0
      /\ ValidBatch(files, b[k]) /\ b[k] \in BatchRecords
  BY <1>2, BatchesMeet
<1>5. a[k] = b[k] BY <1>3, <1>4, OneBatch
<1> QED BY <1>1, <1>5

LEMMA NoneLonger ==
  ASSUME NEW files, FileRecords(files),
         NEW a \in Seq(BatchRecords), ValidBatches(files, a),
         NEW b \in Seq(BatchRecords), ValidBatches(files, b)
  PROVE  ~(Len(a) < Len(b))
<1> SUFFICES ASSUME Len(a) < Len(b) PROVE FALSE OBVIOUS
<1>1. PICK n \in Nat : n = Len(a) OBVIOUS
<1>2. PICK l \in Nat : l = Len(files) BY DEF FileRecords, IsSequence
<1>3. Len(b) \in Nat /\ n + 1 \in 1..Len(b) BY <1>1
<1>4. b[n + 1].first = l + 1
  <2>1. CASE n = 0
    <3>1. l = 0 BY <1>1, <1>2, <2>1, BatchesMeet
    <3>2. 1 \in 1..Len(b) /\ n + 1 = 1 BY <1>3, <2>1
    <3>3. b[1].first = 1 BY <3>2, BatchesMeet
    <3> QED BY <3>1, <3>2, <3>3
  <2>2. CASE n # 0
    <3>1. n \in 1..Len(a) /\ n <= Len(b) /\ n + 1 # 1 /\ (n + 1) - 1 = n BY <1>1, <1>3, <2>2
    <3>2. a[n] = b[n] BY <3>1, BatchesAgree
    <3>3. a[n].first + a[n].count = l + 1 BY <1>1, <1>2, <2>2, BatchesMeet
    <3>4. b[n + 1].first = b[(n + 1) - 1].first + b[(n + 1) - 1].count
      BY <1>3, <3>1, BatchesMeet
    <3> QED BY <3>1, <3>2, <3>3, <3>4
  <2> QED BY <2>1, <2>2
<1>5. ValidBatch(files, b[n + 1]) /\ b[n + 1] \in BatchRecords BY <1>3, BatchesMeet
<1>6. /\ b[n + 1].count > 0 /\ b[n + 1].count \in Nat
      /\ b[n + 1].first + b[n + 1].count - 1 <= l
  BY <1>2, <1>5 DEF ValidBatch, BatchRecords
<1> QED BY <1>2, <1>4, <1>6

\* Two valid ways of cutting the files are one.
LEMMA OneWayToCut ==
  ASSUME NEW files, FileRecords(files),
         NEW a \in Seq(BatchRecords), ValidBatches(files, a),
         NEW b \in Seq(BatchRecords), ValidBatches(files, b)
  PROVE  a = b
<1>1. ~(Len(a) < Len(b)) /\ ~(Len(b) < Len(a)) BY NoneLonger
<1>2. PICK n \in Nat : n = Len(a) /\ n = Len(b) BY <1>1
<1>3. ASSUME NEW k \in 1..Len(a) PROVE a[k] = b[k]
  <2>1. k <= Len(b) BY <1>2
  <2> QED BY <2>1, BatchesAgree
<1> HIDE DEF BatchRecords
<1>4. Len(a) = Len(b) BY <1>2
<1> QED BY <1>3, <1>4, SeqEqual

-----------------------------------------------------------------------------
(* The batches the builder cuts, and the order of the stream.               *)

LEMMA BatchedTyped ==
  ASSUME NEW batches \in Seq(BatchRecords), NEW file, file.size \in Nat, NEW i \in Nat
  PROVE  Batched(batches, file, i) \in Seq(BatchRecords)
<1> DEFINE open == Last(batches)
           more == [open EXCEPT !.count = @ + 1, !.bytes = @ + file.size]
           one == [first |-> i, count |-> 1, bytes |-> file.size]
<1>1. Append(batches, one) \in Seq(BatchRecords)
  <2>1. one \in BatchRecords BY DEF BatchRecords
  <2> HIDE DEF one, BatchRecords
  <2> QED BY <2>1
<1>2. ASSUME batches # <<>> PROVE Append(Front(batches), more) \in Seq(BatchRecords)
  <2>1. PICK n \in Nat : n = Len(batches) /\ n > 0 BY <1>2
  <2>2. open \in BatchRecords BY <2>1 DEF Last
  <2>3. more \in BatchRecords
    <3>1. PICK first, count, bytes \in Nat :
            open = [first |-> first, count |-> count, bytes |-> bytes]
      BY <2>2 DEF BatchRecords
    <3>2. [open EXCEPT !.count = @ + 1] = [first |-> first, count |-> count + 1, bytes |-> bytes]
      BY <3>1
    <3>3. more = [first |-> first, count |-> count + 1, bytes |-> bytes + file.size]
      <4>1. more = [[first |-> first, count |-> count + 1, bytes |-> bytes]
                      EXCEPT !.bytes = open.bytes + file.size]
        BY <3>2
      <4>2. open.bytes = bytes BY <3>1
      <4> HIDE DEF open, more
      <4> QED BY <4>1, <4>2
    <3> HIDE DEF more
    <3> QED BY <3>3 DEF BatchRecords
  <2>4. Front(batches) \in Seq(BatchRecords)
    <3>1. 1 \in Int /\ n - 1 \in Int BY <2>1
    <3> HIDE DEF BatchRecords
    <3>2. \A k \in 1..(n - 1) : batches[k] \in BatchRecords BY <2>1
    <3> QED BY <2>1, <3>1, <3>2, SubSeqProperties DEF Front
  <2> HIDE DEF more, BatchRecords
  <2> QED BY <2>3, <2>4
<1> QED BY <1>1, <1>2 DEF Batched

LEMMA BatchesExist ==
  ASSUME NEW files, NEW n \in Nat
  PROVE  \E f : f = [i \in 0..n |-> IF i = 0 THEN <<>> ELSE Batched(f[i - 1], files[i], i)]
<1> DEFINE Cut(k) ==
             \E f : f = [i \in 0..k |-> IF i = 0 THEN <<>> ELSE Batched(f[i - 1], files[i], i)]
           Lacking == {k \in Nat : ~Cut(k)}
<1> SUFFICES ASSUME Lacking # {} PROVE FALSE OBVIOUS
<1>1. PICK k \in Lacking : \A j \in Lacking : k <= j
  <2> HIDE DEF Cut
  <2> QED BY Least
<1>2. k # 0
  <2> DEFINE g == [i \in 0..0 |-> <<>>]
  <2>1. g = [i \in 0..0 |-> IF i = 0 THEN <<>> ELSE Batched(g[i - 1], files[i], i)] OBVIOUS
  <2>2. Cut(0) BY <2>1
  <2> QED BY <2>2
<1>3. Cut(k - 1)
  <2> HIDE DEF Cut
  <2> QED BY <1>1, <1>2
<1>4. PICK f :
        f = [i \in 0..(k - 1) |-> IF i = 0 THEN <<>> ELSE Batched(f[i - 1], files[i], i)]
  BY <1>3
<1> DEFINE g == [i \in 0..k |-> IF i = k THEN Batched(f[k - 1], files[k], k) ELSE f[i]]
<1>5. ASSUME NEW i \in 0..k
      PROVE  g[i] = IF i = 0 THEN <<>> ELSE Batched(g[i - 1], files[i], i)
  <2>1. CASE i = k BY <1>2, <2>1
  <2>2. CASE i # k BY <1>2, <1>4, <2>2
  <2> QED BY <2>1, <2>2
<1>6. g = [i \in 0..k |-> IF i = 0 THEN <<>> ELSE Batched(g[i - 1], files[i], i)] BY <1>5
<1>7. Cut(k) BY <1>6
<1> QED BY <1>1, <1>7

\* The batches of files are batches.
LEMMA BatchesTyped ==
  ASSUME NEW files, FileRecords(files)
  PROVE  Batches(files) \in Seq(BatchRecords)
<1>1. PICK n \in Nat : n = Len(files) /\ DOMAIN files = 1..n BY DEF FileRecords, IsSequence
<1> DEFINE upTo == CHOOSE f :
             f = [i \in 0..Len(files) |-> IF i = 0 THEN <<>> ELSE Batched(f[i - 1], files[i], i)]
           Bad == {k \in Nat : k <= n /\ upTo[k] \notin Seq(BatchRecords)}
<1>2. upTo = [i \in 0..n |-> IF i = 0 THEN <<>> ELSE Batched(upTo[i - 1], files[i], i)]
  <2>1. \E f : f = [i \in 0..n |-> IF i = 0 THEN <<>> ELSE Batched(f[i - 1], files[i], i)]
    BY BatchesExist
  <2> QED BY <1>1, <2>1, Zenon
<1>3. Batches(files) = upTo[n] BY <1>1, Zenon DEF Batches
<1> HIDE DEF upTo
<1>4. Bad = {}
  <2> SUFFICES ASSUME Bad # {} PROVE FALSE OBVIOUS
  <2>1. PICK k \in Bad : \A j \in Bad : k <= j
    <3>1. Bad \in SUBSET Nat OBVIOUS
    <3> HIDE DEF Bad
    <3> QED BY <3>1, Least
  <2>2. k # 0 BY <1>2
  <2>3. upTo[k - 1] \in Seq(BatchRecords) BY <2>1, <2>2
  <2>4. files[k].size \in Nat BY <1>1, <2>2 DEF FileRecords, ToSet
  <2>5. Batched(upTo[k - 1], files[k], k) \in Seq(BatchRecords) BY <2>3, <2>4, BatchedTyped
  <2>6. upTo[k] = Batched(upTo[k - 1], files[k], k) BY <1>2, <2>2
  <2> QED BY <2>5, <2>6
<1> QED BY <1>3, <1>4

\* f puts files in stream order, name by name.
Ordering(files, n, f) ==
  f = [i \in 0..n |->
         IF i = 0 THEN <<>>
         ELSE IF StreamOrder[i] \in ByPath(files)
         THEN Append(f[i - 1], Named(files, StreamOrder[i]))
         ELSE f[i - 1]]

LEMMA OrderExists ==
  ASSUME NEW files, NEW n \in Nat
  PROVE  \E f : Ordering(files, n, f)
<1> DEFINE Extended(s, i) == IF StreamOrder[i] \in ByPath(files)
                             THEN Append(s, Named(files, StreamOrder[i]))
                             ELSE s
           Ordered(k) == \E f : f = [i \in 0..k |-> IF i = 0 THEN <<>> ELSE Extended(f[i - 1], i)]
           Lacking == {k \in Nat : ~Ordered(k)}
<1>0. ASSUME Lacking # {} PROVE FALSE
  <2> HIDE DEF Extended
  <2>1. PICK k \in Lacking : \A j \in Lacking : k <= j
    <3> HIDE DEF Ordered
    <3> QED BY <1>0, Least
  <2>2. k # 0
    <3> DEFINE g == [i \in 0..0 |-> <<>>]
    <3>1. g = [i \in 0..0 |-> IF i = 0 THEN <<>> ELSE Extended(g[i - 1], i)] OBVIOUS
    <3>2. Ordered(0) BY <3>1
    <3> QED BY <3>2
  <2>3. Ordered(k - 1)
    <3> HIDE DEF Ordered
    <3> QED BY <2>1, <2>2
  <2>4. PICK f : f = [i \in 0..(k - 1) |-> IF i = 0 THEN <<>> ELSE Extended(f[i - 1], i)]
    BY <2>3
  <2> DEFINE g == [i \in 0..k |-> IF i = k THEN Extended(f[k - 1], k) ELSE f[i]]
  <2>5. ASSUME NEW i \in 0..k
        PROVE  g[i] = IF i = 0 THEN <<>> ELSE Extended(g[i - 1], i)
    <3>1. CASE i = k BY <2>2, <3>1
    <3>2. CASE i # k BY <2>2, <2>4, <3>2
    <3> QED BY <3>1, <3>2
  <2>6. g = [i \in 0..k |-> IF i = 0 THEN <<>> ELSE Extended(g[i - 1], i)] BY <2>5
  <2>7. Ordered(k) BY <2>6
  <2> QED BY <2>1, <2>7
<1>1. Ordered(n) BY <1>0, Zenon
<1> QED BY <1>1, Zenon DEF Ordering

\* The files that have a place in the stream.
Listed(files) == {f \in files : f.path \in ToSet(StreamOrder)}

\* The files in stream order: each of them once, if its path is in the order.
LEMMA StreamOrdered ==
  ASSUME NEW files
  PROVE  /\ InStreamOrder(files) \in Seq(Listed(files))
         /\ (\E f \in files : f.path \in ToSet(StreamOrder)) => InStreamOrder(files) # <<>>
<1>1. PICK n \in Nat : n = Len(StreamOrder) /\ DOMAIN StreamOrder = 1..n
  BY PackageAssumption
<1> DEFINE first == CHOOSE f : Ordering(files, Len(StreamOrder), f)
<1>2. Ordering(files, n, first) BY <1>1, OrderExists, Zenon
<1>3. InStreamOrder(files) = first[n] BY <1>1, Zenon DEF InStreamOrder, Ordering
<1> HIDE DEF first
<1>4. ASSUME NEW i \in 1..n, StreamOrder[i] \in ByPath(files)
      PROVE  Named(files, StreamOrder[i]) \in Listed(files)
  <2>1. \E g \in files : g.path = StreamOrder[i] BY <1>4 DEF ByPath
  <2>2. Named(files, StreamOrder[i]) \in files /\ Named(files, StreamOrder[i]).path = StreamOrder[i]
    BY <2>1, Zenon DEF Named
  <2>3. StreamOrder[i] \in ToSet(StreamOrder) BY <1>1 DEF ToSet
  <2> QED BY <2>2, <2>3 DEF Listed
<1>5. /\ first[0] = <<>>
      /\ \A i \in 1..n : /\ StreamOrder[i] \in ByPath(files) =>
                              first[i] = Append(first[i - 1], Named(files, StreamOrder[i]))
                         /\ StreamOrder[i] \notin ByPath(files) => first[i] = first[i - 1]
  <2>1. first[0] = <<>> BY <1>2 DEF Ordering
  <2>2. ASSUME NEW i \in 1..n
        PROVE  first[i] = IF StreamOrder[i] \in ByPath(files)
                          THEN Append(first[i - 1], Named(files, StreamOrder[i]))
                          ELSE first[i - 1]
    <3>1. i \in 0..n /\ i # 0 OBVIOUS
    <3> QED BY <1>2, <3>1 DEF Ordering
  <2> QED BY <2>1, <2>2
<1> DEFINE Bad == {k \in Nat : k <= n /\ first[k] \notin Seq(Listed(files))}
<1>6. Bad = {}
  <2> SUFFICES ASSUME Bad # {} PROVE FALSE OBVIOUS
  <2>1. PICK k \in Bad : \A j \in Bad : k <= j
    <3>1. Bad \in SUBSET Nat OBVIOUS
    <3> HIDE DEF Bad
    <3> QED BY <3>1, Least
  <2>2. k \in 1..n
    <3>1. first[0] \in Seq(Listed(files)) BY <1>5
    <3>2. k # 0 BY <3>1
    <3> QED BY <3>2
  <2>3. first[k - 1] \in Seq(Listed(files)) BY <2>1, <2>2
  <2>4. ASSUME StreamOrder[k] \in ByPath(files) PROVE first[k] \in Seq(Listed(files))
    <3>1. Named(files, StreamOrder[k]) \in Listed(files) BY <1>4, <2>2, <2>4
    <3>2. first[k] = Append(first[k - 1], Named(files, StreamOrder[k])) BY <1>5, <2>2, <2>4
    <3> QED BY <2>3, <3>1, <3>2
  <2> QED BY <1>5, <2>2, <2>3, <2>4
<1>7. \A k \in 0..n : first[k] \in Seq(Listed(files)) BY <1>6
<1>8. ASSUME NEW f \in files, f.path \in ToSet(StreamOrder)
      PROVE  first[n] # <<>>
  <2>1. PICK i \in 1..n : StreamOrder[i] = f.path BY <1>1, <1>8 DEF ToSet
  <2>2. StreamOrder[i] \in ByPath(files) BY <2>1 DEF ByPath
  <2> DEFINE Unfilled == {k \in Nat : i <= k /\ k <= n /\ first[k] = <<>>}
  <2> SUFFICES ASSUME Unfilled # {} PROVE FALSE OBVIOUS
  <2>3. PICK k \in Unfilled : \A j \in Unfilled : k <= j
    <3>1. Unfilled \in SUBSET Nat OBVIOUS
    <3> HIDE DEF Unfilled
    <3> QED BY <3>1, Least
  <2>4. k \in 1..n /\ first[k - 1] \in Seq(Listed(files)) BY <1>7
  <2>5. StreamOrder[k] \notin ByPath(files)
    <3> SUFFICES ASSUME StreamOrder[k] \in ByPath(files) PROVE FALSE OBVIOUS
    <3>1. /\ first[k] = Append(first[k - 1], Named(files, StreamOrder[k]))
          /\ Named(files, StreamOrder[k]) \in Listed(files)
      BY <1>4, <1>5, <2>4
    <3>2. Append(first[k - 1], Named(files, StreamOrder[k])) # <<>> BY <2>4, <3>1
    <3> QED BY <3>1, <3>2
  <2>6. k # i BY <2>2, <2>5
  <2>7. first[k - 1] = <<>> BY <1>5, <2>4, <2>5
  <2> QED BY <2>3, <2>4, <2>6, <2>7
<1> QED BY <1>3, <1>7, <1>8

-----------------------------------------------------------------------------
(* The index of a payload, and the batches it may be cut into.              *)

LEMMA SequenceOf ==
  ASSUME NEW S, NEW s \in Seq(S)
  PROVE  IsSequence(s) /\ ToSet(s) \subseteq S
<1>1. PICK n \in Nat : n = Len(s) /\ DOMAIN s = 1..n /\ s \in [1..n -> S] OBVIOUS
<1>2. ToSet(s) \subseteq S BY <1>1 DEF ToSet
<1>3. s \in [1..n -> ToSet(s)] BY <1>1 DEF ToSet
<1> QED BY <1>2, <1>3 DEF IsSequence

LEMMA LengthsAreNumbers ==
  ASSUME NEW payload \in Seq(Contents)
  PROVE  Lengths(payload) \in Seq(Nat) /\ Len(Lengths(payload)) = Len(payload)
<1>1. PICK n \in Nat : n = Len(payload) /\ DOMAIN payload = 1..n /\ payload \in [1..n -> Contents]
  OBVIOUS
<1>2. \A i \in 1..n : payload[i].len \in Nat BY <1>1, PackageAssumption
<1>3. Lengths(payload) = [i \in 1..n |-> payload[i].len] BY <1>1 DEF Lengths
<1> QED BY <1>1, <1>2, <1>3

\* What the index says of each entry, and that it ends where the stream does.
LEMMA IndexFacts ==
  ASSUME NEW entries, NEW payload \in Seq(Contents), NEW index,
         index = Index(entries, payload)
  PROVE  /\ IsSequence(index) /\ DOMAIN index = DOMAIN payload /\ Len(index) = Len(payload)
         /\ \A i \in DOMAIN payload :
             /\ index[i].entry = entries[i] /\ index[i].sha256 = payload[i]
             /\ index[i].length = payload[i].len /\ index[i].length \in Nat
             /\ index[i].offset \in Nat
             /\ \A j \in DOMAIN payload : i < j =>
                 index[i].offset + index[i].length <= index[j].offset
         /\ Total(payload) = IF index = <<>> THEN 0
                             ELSE Last(index).offset + Last(index).length
<1>1. PICK n \in Nat : n = Len(payload) /\ DOMAIN payload = 1..n /\ payload \in [1..n -> Contents]
  OBVIOUS
<1> DEFINE lengths == Lengths(payload)
           end == Ends(lengths)
<1>2. lengths \in Seq(Nat) /\ Len(lengths) = n BY <1>1, LengthsAreNumbers
<1>3. \A i \in 1..n : lengths[i] = payload[i].len /\ payload[i].len \in Nat
  BY <1>1, PackageAssumption DEF Lengths
<1>4. index = [i \in 1..n |-> [entry |-> entries[i], offset |-> end[i - 1],
                               length |-> payload[i].len, sha256 |-> payload[i]]]
  BY <1>1 DEF Index
<1>5. Total(payload) = end[n] BY <1>1 DEF Total
<1> HIDE DEF lengths
<1>6. end[0] = 0 /\ \A i \in 1..n : end[i] = end[i - 1] + payload[i].len
  BY <1>2, <1>3, EndsEquation
<1>7. \A i \in 0..n : end[i] \in Nat BY <1>2, EndsAreNumbers
<1>8. \A i \in 0..n : \A j \in i..n : end[i] <= end[j] BY <1>2, EndsRise
<1> HIDE DEF end
<1>9. /\ DOMAIN index = 1..n
      /\ \A i \in 1..n : /\ index[i].entry = entries[i] /\ index[i].sha256 = payload[i]
                         /\ index[i].length = payload[i].len /\ index[i].offset = end[i - 1]
  BY <1>4
<1>10. IsSequence(index) /\ Len(index) = n
  <2>1. index \in [1..n -> ToSet(index)] BY <1>4, <1>9 DEF ToSet
  <2> QED BY <2>1 DEF IsSequence
<1>11. ASSUME NEW i \in 1..n
       PROVE  index[i].length \in Nat /\ index[i].offset \in Nat
  <2>1. i - 1 \in 0..n OBVIOUS
  <2> QED BY <1>3, <1>7, <1>9, <2>1
<1>12. ASSUME NEW i \in 1..n, NEW j \in 1..n, i < j
       PROVE  index[i].offset + index[i].length <= index[j].offset
  <2>1. i \in 0..n /\ j - 1 \in i..n BY <1>12
  <2>2. end[i] <= end[j - 1] BY <1>8, <2>1
  <2>3. end[i] = index[i].offset + index[i].length /\ index[j].offset = end[j - 1]
    BY <1>6, <1>9
  <2> QED BY <2>2, <2>3
<1>13. Total(payload) = IF index = <<>> THEN 0 ELSE Last(index).offset + Last(index).length
  <2>1. CASE n = 0
    <3>1. index = <<>> BY <1>4, <2>1
    <3> QED BY <1>5, <1>6, <2>1, <3>1
  <2>2. CASE n # 0
    <3>1. index # <<>> BY <1>9, <2>2
    <3>2. Last(index) = index[n] /\ n \in 1..n BY <1>10, <2>2 DEF Last
    <3>3. end[n] = index[n].offset + index[n].length BY <1>6, <1>9, <3>2
    <3> QED BY <1>5, <3>1, <3>2, <3>3
  <2> QED BY <2>1, <2>2
<1> QED BY <1>1, <1>9, <1>10, <1>11, <1>12, <1>13

\* The ways of cutting files that DeliversWhatItSays speaks of.
LEMMA CutsAreBatches ==
  ASSUME NEW files, FileRecords(files), NEW cut \in Cuts(files)
  PROVE  cut \in Seq(BatchRecords)
<1>1. PICK l \in Nat : l = Len(files) BY DEF FileRecords, IsSequence
<1>2. PICK n \in 0..l : \E counts \in [1..n -> 1..l] :
        /\ Ends(counts)[Len(counts)] = l
        /\ cut = [k \in DOMAIN counts |->
                    LET first == 1 + Ends(counts)[k - 1]
                    IN  [first |-> first, count |-> counts[k],
                         bytes |-> Bytes(files, first, first + counts[k] - 1)]]
  BY <1>1 DEF Cuts
<1>3. PICK counts \in [1..n -> 1..l] :
        /\ Ends(counts)[Len(counts)] = l
        /\ cut = [k \in DOMAIN counts |->
                    LET first == 1 + Ends(counts)[k - 1]
                    IN  [first |-> first, count |-> counts[k],
                         bytes |-> Bytes(files, first, first + counts[k] - 1)]]
  BY <1>2
<1>4. n \in Nat /\ DOMAIN counts = 1..n /\ counts \in Seq(Nat) /\ Len(counts) = n OBVIOUS
<1> DEFINE end == Ends(counts)
<1>5. \A k \in 1..n : end[k] = end[k - 1] + counts[k] BY <1>4, EndsEquation
<1>6. \A k \in 0..n : end[k] \in Nat BY <1>4, EndsAreNumbers
<1>7. \A k \in 0..n : end[k] <= l
  <2> TAKE k \in 0..n
  <2>1. n \in k..Len(counts) BY <1>4
  <2>2. end[k] <= end[n] BY <1>4, <2>1, EndsRise
  <2> QED BY <1>3, <1>4, <2>2
<1>8. cut = [k \in 1..n |-> [first |-> 1 + end[k - 1], count |-> counts[k],
                             bytes |-> Bytes(files, 1 + end[k - 1],
                                             (1 + end[k - 1]) + counts[k] - 1)]]
  BY <1>3, <1>4
<1> HIDE DEF end
<1>9. ASSUME NEW k \in 1..n
      PROVE  cut[k] \in BatchRecords
  <2>1. PICK before, count, upTo \in Nat :
          /\ before = end[k - 1] /\ count = counts[k] /\ upTo = end[k]
          /\ upTo = before + count /\ upTo <= l
    <3>1. k - 1 \in 0..n /\ k \in 0..n BY <1>4
    <3>2. counts[k] \in Nat BY <1>4
    <3> QED BY <1>5, <1>6, <1>7, <3>1, <3>2
  <2> DEFINE first == 1 + before
  <2>2. first \in 1..(l + 1) /\ upTo \in (first - 1)..l /\ first + count - 1 = upTo
    <3>1. upTo = before + count /\ upTo <= l BY <2>1
    <3> QED BY <3>1
  <2>3. Bytes(files, first, upTo) \in Nat BY <1>1, <2>2, BytesGrow
  <2>4. cut[k] = [first |-> first, count |-> count, bytes |-> Bytes(files, first, upTo)]
    BY <1>8, <2>1, <2>2
  <2> QED BY <2>1, <2>3, <2>4 DEF BatchRecords
<1>10. cut \in [1..n -> BatchRecords] BY <1>8, <1>9
<1> QED BY <1>4, <1>10

-----------------------------------------------------------------------------
(* What a sound file is good for.                                           *)

LEMMA SoundBlocks ==
  ASSUME NEW file, Sound(file)
  PROVE  /\ file.loader = LoaderBlock /\ file.engine = EngineBlock /\ file.tail = "none"
         /\ file.footer = [engine |-> EngineBlock, executable |-> EngineBlock,
                           payload |-> file.payload, metadata |-> file.metadata,
                           length |-> Total(file.payload)]
         /\ file.footer.engine = EngineBlock /\ file.footer.executable = EngineBlock
         /\ file.footer.metadata = file.metadata /\ file.footer.length = Total(file.payload)
<1>1. file = File(LoaderBlock, EngineBlock, file.payload, file.metadata) BY DEF Sound
<1> DEFINE payload == file.payload
           metadata == file.metadata
<1>2. file = File(LoaderBlock, EngineBlock, payload, metadata) BY <1>1
<1> HIDE DEF payload, metadata
<1>3. /\ file.loader = LoaderBlock /\ file.engine = EngineBlock /\ file.tail = "none"
      /\ file.footer = [engine |-> EngineBlock, executable |-> EngineBlock,
                        payload |-> payload, metadata |-> metadata,
                        length |-> Total(payload)]
  BY <1>2 DEF File
<1>4. /\ file.footer.engine = EngineBlock /\ file.footer.executable = EngineBlock
      /\ file.footer.metadata = metadata /\ file.footer.length = Total(payload)
  BY <1>3
<1> QED BY <1>3, <1>4 DEF payload, metadata

LEMMA SoundIndex ==
  ASSUME NEW file, Sound(file)
  PROVE  LET index == file.metadata.payload
             payload == file.payload
         IN  /\ payload \in Seq(Contents)
             /\ IsSequence(index) /\ DOMAIN index = DOMAIN payload
             /\ \A i \in DOMAIN payload :
                 /\ payload[i] \in Contents /\ index[i].sha256 = payload[i]
                 /\ index[i].length = payload[i].len /\ index[i].length \in Nat
                 /\ index[i].offset \in Nat
                 /\ \A j \in DOMAIN payload : i < j =>
                     index[i].offset + index[i].length <= index[j].offset
             /\ Total(payload) = IF index = <<>> THEN 0
                                 ELSE Last(index).offset + Last(index).length
<1> DEFINE index == file.metadata.payload
           payload == file.payload
           entries == [i \in DOMAIN payload |-> index[i].entry]
<1>1. payload \in Seq(Contents) /\ index = Index(entries, payload) BY DEF Sound
<1> HIDE DEF index, payload, entries
<1>2. \A i \in DOMAIN payload : payload[i] \in Contents BY <1>1
<1> QED BY <1>1, <1>2, IndexFacts DEF index, payload

\* A sound file opens.
LEMMA SoundOpens ==
  ASSUME NEW file, Sound(file)
  PROVE  Opens(file) /\ file \notin {NoFile, Torn}
<1>1. FooterFound(file) BY SoundBlocks DEF FooterFound
<1>2. file.footer # Garbled
  <2> DEFINE payload == file.payload
             metadata == file.metadata
             length == Total(payload)
             footer == [engine |-> EngineBlock, executable |-> EngineBlock,
                        payload |-> payload, metadata |-> metadata, length |-> length]
  <2>1. file.footer = footer BY SoundBlocks
  <2> HIDE DEF payload, metadata, length
  <2>2. "engine" \in DOMAIN footer /\ "engine" \notin DOMAIN Garbled BY DEF Garbled
  <2> HIDE DEF footer
  <2> QED BY <2>1, <2>2
<1>3. file.footer.metadata = file.metadata /\ file.footer.length = Total(file.payload)
  BY SoundBlocks
<1>4. /\ Valid(file.metadata)
      /\ file.metadata.files # <<>> => file.metadata.payload # <<>>
  <2>1. SoundMetadata(file.metadata) BY DEF Sound
  <2> QED BY <2>1 DEF SoundMetadata
<1>5. file.footer.length = (IF file.metadata.payload = <<>> THEN 0
                            ELSE Last(file.metadata.payload).offset
                                   + Last(file.metadata.payload).length)
  BY <1>3, SoundIndex
<1>6. file \notin {NoFile, Torn}
  <2> DEFINE payload == file.payload
             metadata == file.metadata
  <2>1. file = File(LoaderBlock, EngineBlock, payload, metadata) BY DEF Sound
  <2> HIDE DEF payload, metadata
  <2>2. "tail" \in DOMAIN file BY <2>1 DEF File
  <2>3. "tail" \notin DOMAIN NoFile /\ "tail" \notin DOMAIN Torn BY DEF NoFile, Torn
  <2> QED BY <2>2, <2>3
<1> QED BY <1>1, <1>2, <1>3, <1>4, <1>5, <1>6 DEF Opens

\* What is referred to is in the stream, at its length.
LEMMA ReferredHeld ==
  ASSUME NEW file, Sound(file), file.metadata.payload # <<>>,
         NEW e \in ExpectedEntries(file.metadata)
  PROVE  \E i \in DOMAIN file.payload :
           /\ file.metadata.payload[i].entry = e.entry
           /\ file.payload[i] \in Contents /\ file.payload[i].len = e.length
           /\ Holds(file, e.entry, file.payload[i])
<1>1. ValidIndex(file.metadata) BY DEF Sound, SoundMetadata, Valid
<1>2. PICK i \in DOMAIN file.metadata.payload :
        /\ file.metadata.payload[i].entry = e.entry
        /\ file.metadata.payload[i].length = e.length
  BY <1>1 DEF ValidIndex
<1>3. /\ i \in DOMAIN file.payload /\ file.payload[i] \in Contents
      /\ file.metadata.payload[i].length = file.payload[i].len
  BY SoundIndex
<1> QED BY <1>2, <1>3 DEF Holds

LEMMA SoundDelivers ==
  ASSUME NEW file, Sound(file), Verifies(file)
  PROVE  LET m == file.metadata IN
         /\ \A f \in ToSet(m.files) : \E c \in Contents :
             c.len = f.size /\ Holds(file, f.path, c)
         /\ \A d \in Embedded(m) \cup {a \in ToSet(m.actions) : a.entry # None} :
             Holds(file, d.entry, d.sha256)
         /\ m.launch # None => \E c \in Contents : Holds(file, m.launch.executable, c)
         /\ \A cut \in Cuts(m.files) : ValidBatches(m.files, cut) <=> cut = m.batches
<1> DEFINE m == file.metadata
<1>1. SoundMetadata(m) BY DEF Sound
<1>2. /\ Valid(m) /\ IsSequence(m.files) /\ m.batches \in Seq(BatchRecords)
      /\ \A f \in ToSet(m.files) : f.size \in Nat
      /\ m.files # <<>> \/ Pins(m) # {} => m.payload # <<>>
  BY <1>1 DEF SoundMetadata, BatchRecords
<1>3. ASSUME NEW f \in ToSet(m.files)
      PROVE  \E c \in Contents : c.len = f.size /\ Holds(file, f.path, c)
  <2>1. m.files # <<>> BY <1>3 DEF ToSet
  <2>2. [entry |-> f.path, length |-> f.size] \in ExpectedEntries(m) BY DEF ExpectedEntries
  <2>3. m.payload # <<>> BY <1>2, <2>1
  <2>4. PICK i \in DOMAIN file.payload :
          /\ file.payload[i] \in Contents /\ file.payload[i].len = f.size
          /\ Holds(file, f.path, file.payload[i])
    BY <2>2, <2>3, ReferredHeld
  <2> QED BY <2>4
<1>4. ASSUME NEW d \in Pins(m)
      PROVE  Holds(file, d.entry, d.sha256)
  <2>1. d \in Embedded(m) \cup Packaged(m) BY DEF Pins, Packaged
  <2>2. [entry |-> d.entry, length |-> d.size] \in ExpectedEntries(m)
    BY <2>1 DEF ExpectedEntries
  <2>3. m.payload # <<>> BY <1>2
  <2>4. PICK i \in DOMAIN file.payload :
          m.payload[i].entry = d.entry /\ Holds(file, d.entry, file.payload[i])
    BY <2>2, <2>3, ReferredHeld
  <2>5. d.sha256 = file.payload[i] BY <2>4 DEF Verifies
  <2> QED BY <2>4, <2>5
<1>5. ASSUME m.launch # None
      PROVE  \E c \in Contents : Holds(file, m.launch.executable, c)
  <2>1. m.launch.executable \in FilePaths(m) BY <1>2, <1>5 DEF Valid, ValidLaunch
  <2>2. PICK f \in ToSet(m.files) : f.path = m.launch.executable
    BY <2>1 DEF FilePaths, ToSet
  <2> QED BY <1>3, <2>2
<1>6. ASSUME NEW cut \in Cuts(m.files)
      PROVE  ValidBatches(m.files, cut) <=> cut = m.batches
  <2>1. FileRecords(m.files) BY <1>2 DEF FileRecords
  <2>2. cut \in Seq(BatchRecords) BY <2>1, CutsAreBatches
  <2>3. ValidBatches(m.files, m.batches) BY <1>2 DEF Valid
  <2> HIDE DEF m
  <2> QED BY <1>2, <2>1, <2>2, <2>3, OneWayToCut
<1>7. Embedded(m) \cup {a \in ToSet(m.actions) : a.entry # None} = Pins(m) BY DEF Pins
<1> QED BY <1>3, <1>4, <1>5, <1>6, <1>7

-----------------------------------------------------------------------------
(* What the engine makes of a copy of a sound file.                         *)

\* The blocks that what happened to the file left alone.
LEMMA CopyBlocks ==
  ASSUME NEW file, Sound(file), NEW what \in Damages, NEW c \in Altered(file, what)
  PROVE  /\ what # "engine" => c.engine = EngineBlock
         /\ what = "engine" => c.engine = Garbled
         /\ what # "footer" => c.footer = file.footer
         /\ what = "footer" => c.footer = Garbled
         /\ what # "metadata" => c.metadata = file.metadata
         /\ what # "payload" => c.payload = file.payload
         /\ what \notin {"signed", "certificate", "cut"} => c.tail = "none"
         /\ what = "signed" => c.tail = "certificate" /\ c.loader.signed /\ c.loader # Garbled
<1> DEFINE payload == file.payload
           metadata == file.metadata
           footer == file.footer
           whole == [loader |-> LoaderBlock, engine |-> EngineBlock, payload |-> payload,
                     metadata |-> metadata, footer |-> footer, tail |-> "none"]
<1>1. file = whole
  <2>1. file = File(LoaderBlock, EngineBlock, payload, metadata) BY DEF Sound
  <2>2. footer = [engine |-> EngineBlock, executable |-> EngineBlock, payload |-> payload,
                  metadata |-> metadata, length |-> Total(payload)]
    BY SoundBlocks
  <2> HIDE DEF payload, metadata, footer
  <2> QED BY <2>1, <2>2 DEF File
<1>2. what \in {"none", "signed", "certificate", "cut", "payload", "loader", "engine",
                "metadata", "footer"}
  BY PackageAssumption
<1> HIDE DEF payload, metadata, footer
<1> USE <1>1 DEF Altered
<1>3. CASE what = "none" BY <1>3
<1>4. CASE what = "signed"
  <2>1. c = [whole EXCEPT !.loader.signed = TRUE, !.tail = "certificate"] BY <1>4
  <2>2. /\ c.engine = EngineBlock /\ c.payload = payload /\ c.metadata = metadata
        /\ c.footer = footer /\ c.tail = "certificate"
        /\ c.loader = [LoaderBlock EXCEPT !.signed = TRUE]
    BY <2>1
  <2>3. c.loader.signed /\ "signed" \in DOMAIN c.loader BY <2>2 DEF LoaderBlock
  <2>4. c.loader # Garbled BY <2>3 DEF Garbled
  <2> QED BY <1>4, <2>2, <2>3, <2>4
<1>5. CASE what \in {"certificate", "cut"} BY <1>5
<1>6. CASE what = "payload" BY <1>6
<1>7. CASE what \in {"loader", "engine", "metadata", "footer"} BY <1>7
<1> QED BY <1>2, <1>3, <1>4, <1>5, <1>6, <1>7

\* The footer's hash makes what opens the file's own metadata.
LEMMA OpenCopy ==
  ASSUME NEW file, Sound(file), NEW what \in Damages, NEW c \in Altered(file, what), Opens(c)
  PROVE  c.metadata = file.metadata /\ c.footer = file.footer
<1>1. c.footer # Garbled /\ c.metadata = c.footer.metadata BY DEF Opens
<1>2. c.footer = file.footer BY <1>1, CopyBlocks
<1>3. file.footer.metadata = file.metadata BY SoundBlocks
<1> QED BY <1>1, <1>2, <1>3

\* The loader runs the engine that was built in, or none.
LEMMA EngineOfCopy ==
  ASSUME NEW file, Sound(file), NEW what \in Damages, NEW c \in Altered(file, what)
  PROVE  /\ Extracted(c) \in {EngineBlock, Error} /\ EngineBlock # Error
         /\ what \in {"none", "signed"} => Opens(c) /\ Extracted(c) = EngineBlock
<1>1. EngineBlock # Error
  <2>1. "code" \in DOMAIN EngineBlock /\ "code" \notin DOMAIN Error
    BY DEF EngineBlock, Error
  <2> QED BY <2>1
<1>2. file.footer.engine = EngineBlock /\ file.footer.executable = EngineBlock
  BY SoundBlocks
<1>3. Extracted(c) \in {EngineBlock, Error}
  <2>1. c.footer # Garbled => c.footer = file.footer BY CopyBlocks
  <2> QED BY <1>2, <2>1 DEF Extracted
<1>4. ASSUME what \in {"none", "signed"}
      PROVE  Opens(c) /\ Extracted(c) = EngineBlock
  <2>1. c.engine = EngineBlock /\ c.footer = file.footer /\ c.metadata = file.metadata
    BY <1>4, CopyBlocks
  <2>2. FooterFound(c) BY <1>4, CopyBlocks DEF FooterFound
  <2>3. Opens(file) BY SoundOpens
  <2>4. Opens(c) BY <2>1, <2>2, <2>3 DEF Opens
  <2>5. c.footer # Garbled BY <2>4 DEF Opens
  <2> QED BY <1>2, <2>1, <2>2, <2>4, <2>5 DEF Extracted
<1> QED BY <1>1, <1>3, <1>4

\* What passes the CRC of an entry is what was built in under its name; in an
\* intact file everything decodes to that.
LEMMA ReadOfCopy ==
  ASSUME NEW file, Sound(file), NEW what \in Damages, NEW c \in Altered(file, what), Opens(c),
         NEW i \in DOMAIN c.metadata.payload, NEW position \in Nat
  PROVE  LET region == c.metadata.payload[i]
             from == IF region.length = 0 THEN position ELSE Sought(position, region.offset)
         IN  /\ from + region.length \in Nat
             /\ \A bytes \in Decoded(c, from, region) :
                 /\ Checked(bytes, region) # Error =>
                     Holds(file, region.entry, Checked(bytes, region))
                 /\ what \in {"none", "signed"} => Checked(bytes, region) # Error
<1> DEFINE index == file.metadata.payload
           payload == file.payload
           region == index[i]
           from == IF region.length = 0 THEN position ELSE Sought(position, region.offset)
<1>1. c.metadata.payload = index BY OpenCopy
<1>2. /\ i \in DOMAIN payload /\ DOMAIN index = DOMAIN payload
      /\ payload \in Seq(Contents)
      /\ \A j \in DOMAIN payload :
          /\ payload[j] \in Contents /\ index[j].sha256 = payload[j]
          /\ index[j].length \in Nat /\ index[j].offset \in Nat
          /\ \A k \in DOMAIN payload : j < k =>
              index[j].offset + index[j].length <= index[k].offset
  BY <1>1, SoundIndex
<1>3. DOMAIN payload \subseteq Nat BY <1>2
<1>4. region.length # 0 => from = region.offset
  <2>1. region.offset \in Nat BY <1>2
  <2> HIDE DEF region
  <2> QED BY <2>1 DEF Sought, Skip
<1>5. from + region.length \in Nat
  <2>1. region.length \in Nat /\ region.offset \in Nat BY <1>2
  <2> HIDE DEF region
  <2> QED BY <1>4, <2>1
<1>6. region.sha256 = payload[i] /\ payload[i] \in Contents BY <1>2
<1>7. Holds(file, region.entry, region.sha256) BY <1>2, <1>6 DEF Holds
<1>8. region.sha256 # Error BY <1>6, PackageAssumption
<1>9. ASSUME NEW bytes \in Decoded(c, from, region), what \in {"none", "signed"}
      PROVE  bytes = region.sha256
  <2>1. CASE region.length = 0 BY <2>1, <1>9 DEF Decoded
  <2>2. CASE region.length # 0
    <3>1. c.payload = payload BY <1>9, CopyBlocks
    <3>2. PICK k \in DOMAIN payload :
            /\ index[k].offset = from /\ index[k].length > 0
            /\ \/ bytes = payload[k]
               \/ bytes = Garbled /\ \E j \in 1..(k - 1) : payload[j] = Garbled
      BY <1>1, <1>9, <2>2, <3>1 DEF Decoded
    <3>3. index[k].offset = region.offset /\ region.length > 0 BY <1>2, <1>4, <2>2, <3>2
    <3>4. k = i
      <4>1. k \in Nat /\ i \in Nat BY <1>2, <1>3
      <4>2. ~(k < i)
        <5>1. /\ index[k].offset \in Nat /\ index[k].length \in Nat
              /\ k < i => index[k].offset + index[k].length <= index[i].offset
          BY <1>2
        <5> QED BY <3>2, <3>3, <5>1
      <4>3. ~(i < k)
        <5>1. /\ index[i].offset \in Nat /\ index[i].length \in Nat
              /\ i < k => index[i].offset + index[i].length <= index[k].offset
          BY <1>2
        <5> QED BY <3>3, <5>1
      <4> QED BY <4>1, <4>2, <4>3
    <3>5. \A j \in 1..(k - 1) : payload[j] # Garbled
      <4> TAKE j \in 1..(k - 1)
      <4>1. j \in DOMAIN payload BY <1>2
      <4> QED BY <1>2, <4>1, PackageAssumption
    <3> QED BY <1>6, <3>2, <3>4, <3>5
  <2> QED BY <2>1, <2>2
<1> HIDE DEF region
<1>10. ASSUME NEW bytes \in Decoded(c, from, region)
       PROVE  /\ Checked(bytes, region) # Error =>
                  Holds(file, region.entry, Checked(bytes, region))
              /\ what \in {"none", "signed"} => Checked(bytes, region) # Error
  BY <1>7, <1>8, <1>9 DEF Checked
<1>11. c.metadata.payload[i] = region BY <1>1 DEF region
<1> QED BY <1>5, <1>10, <1>11

\* What the uninstaller is marked with keeps the rules, and it has no payload
\* to be held to them.
LEMMA MarkedValid ==
  ASSUME NEW m, SoundMetadata(m), NEW scope \in ToSet(m.scopes), NEW marked,
         marked = [m EXCEPT !.role = "uninstaller", !.scope = scope, !.payload = <<>>]
  PROVE  Valid(marked) /\ marked.files = m.files
<1>1. Valid(m) /\ scope \in {"user", "machine"} /\ MetadataFields \subseteq DOMAIN m
  BY DEF SoundMetadata
<1>2. /\ marked.role = "uninstaller" /\ marked.scope = scope /\ marked.payload = <<>>
      /\ \A field \in MetadataFields \ {"role", "scope", "payload"} : marked[field] = m[field]
  BY <1>1 DEF MetadataFields
<1>3. /\ marked.id = m.id /\ marked.name = m.name /\ marked.version = m.version
      /\ marked.scopes = m.scopes /\ marked.roots = m.roots
      /\ marked.files = m.files /\ marked.directories = m.directories
      /\ marked.batches = m.batches /\ marked.options = m.options
  BY <1>2 DEF MetadataFields
<1>4. /\ marked.shortcuts = m.shortcuts /\ marked.path = m.path
      /\ marked.environment = m.environment /\ marked.registry = m.registry
      /\ marked.associations = m.associations /\ marked.protocols = m.protocols
      /\ marked.appPaths = m.appPaths /\ marked.verbs = m.verbs
      /\ marked.firewall = m.firewall /\ marked.launch = m.launch
  BY <1>2 DEF MetadataFields
<1>5. /\ marked.completions = m.completions /\ marked.dependencies = m.dependencies
      /\ marked.actions = m.actions /\ marked.quiescence = m.quiescence
  BY <1>2 DEF MetadataFields
<1>6. ValidPackage(marked) BY <1>1, <1>2, <1>3 DEF Valid, ValidPackage
<1>7. ValidFiles(marked) /\ ValidBatches(marked.files, marked.batches)
  BY <1>1, <1>3 DEF Valid, ValidFiles
<1>8. ValidIndex(marked) BY <1>2 DEF ValidIndex, Distinct
<1>9. /\ \A i \in DOMAIN marked.options : ValidOption(marked.options[i])
      /\ Distinct(marked.options, "name")
  BY <1>1, <1>3 DEF Valid
<1>10. ValidPredicates(marked)
  <2>1. \A table \in Gated : marked[table] = m[table] BY <1>2 DEF Gated, MetadataFields
  <2>2. ValidPredicates(m) BY <1>1 DEF Valid
  <2> QED BY <1>3, <2>1, <2>2 DEF ValidPredicates
<1>11. ValidShortcuts(marked) /\ ValidPaths(marked) /\ ValidVariables(marked)
  BY <1>1, <1>4 DEF Valid, ValidShortcuts, ValidPaths, ValidVariables
<1>12. ValidAssociations(marked)
  <2>1. ValidAssociations(m) BY <1>1 DEF Valid
  <2> QED BY <1>4, <2>1 DEF ValidAssociations
<1>13. ValidProtocols(marked) /\ ValidAppPaths(marked)
  <2>1. ValidProtocols(m) /\ ValidAppPaths(m) BY <1>1 DEF Valid
  <2> QED BY <1>4, <2>1 DEF ValidProtocols, ValidAppPaths
<1>14. ValidVerbs(marked) /\ ValidRules(marked) /\ ValidValues(marked)
  BY <1>1, <1>3, <1>4 DEF Valid, ValidVerbs, ValidRules, ValidValues
<1>15. ValidLaunch(marked) /\ ValidCompletions(marked)
  BY <1>1, <1>3, <1>4, <1>5 DEF Valid, ValidLaunch, ValidCompletions, FilePaths
<1>16. ValidDependencies(marked) /\ ValidPrograms(marked)
  BY <1>1, <1>5 DEF Valid, ValidDependencies, ValidPrograms
<1> QED BY <1>3, <1>6, <1>7, <1>8, <1>9, <1>10, <1>11, <1>12, <1>13, <1>14, <1>15,
            <1>16 DEF Valid

\* An uninstaller opens, and runs the engine it was given.
LEMMA KeptOpens ==
  ASSUME NEW loader, NEW engine, NEW m, Valid(m), m.role = "uninstaller", m.payload = <<>>,
         NEW kept, kept = File(loader, engine, <<>>, m)
  PROVE  /\ Opens(kept) /\ Extracted(kept) = engine /\ kept.loader = loader
         /\ kept.metadata = m /\ kept \notin {NoFile, Error}
<1> DEFINE length == Total(<<>>)
<1>1. length = 0
  <2>1. <<>> \in Seq(Contents) /\ Index(<<>>, <<>>) = <<>> BY DEF Index
  <2> QED BY <2>1, IndexFacts
<1> HIDE DEF length
<1>2. kept = [loader |-> loader, engine |-> engine, payload |-> <<>>, metadata |-> m,
              footer |-> [engine |-> engine, executable |-> engine, payload |-> <<>>,
                          metadata |-> m, length |-> length],
              tail |-> "none"]
  BY DEF File, length
<1>3. /\ kept.tail = "none" /\ kept.metadata = m /\ kept.engine = engine
      /\ kept.loader = loader
      /\ kept.footer = [engine |-> engine, executable |-> engine, payload |-> <<>>,
                        metadata |-> m, length |-> length]
  BY <1>2
<1>4. /\ kept.footer.metadata = m /\ kept.footer.engine = engine
      /\ kept.footer.executable = engine /\ kept.footer.length = length
  BY <1>3
<1>5. kept.footer # Garbled
  <2>1. "engine" \in DOMAIN kept.footer /\ "engine" \notin DOMAIN Garbled
    BY <1>3 DEF Garbled
  <2> QED BY <2>1
<1>6. kept \notin {NoFile, Error}
  <2>1. "tail" \in DOMAIN kept BY <1>2
  <2>2. "tail" \notin DOMAIN NoFile /\ "tail" \notin DOMAIN Error BY DEF NoFile, Error
  <2> QED BY <2>1, <2>2
<1>7. FooterFound(kept) BY <1>3 DEF FooterFound
<1>8. Opens(kept) BY <1>1, <1>3, <1>4, <1>5, <1>7 DEF Opens
<1>9. Extracted(kept) = engine BY <1>3, <1>4, <1>5, <1>7 DEF Extracted
<1> QED BY <1>3, <1>6, <1>8, <1>9

-----------------------------------------------------------------------------
(* What the build composes is sound.                                        *)

\* The metadata with the index of a payload.
Indexed(metadata, index) == [metadata EXCEPT !.payload = index]

LEMMA MetadataIsSound ==
  ASSUME NEW mf, Accepted(mf), NEW version, NEW files, FileRecords(files), NEW resolved,
         NEW index, NEW plain, plain = MetadataFor(mf, version, files, resolved),
         NEW m, m = Indexed(plain, index),
         Valid(m), files # <<>> \/ Pins(resolved) # {} => index # <<>>
  PROVE  SoundMetadata(m) /\ m.payload = index
<1> USE DEF Indexed
<1>1. MetadataFields \subseteq DOMAIN m /\ m.payload = index
  BY DEF MetadataFor, MetadataFields
<1>2. /\ m.role = "installer" /\ m.scopes = Scopes(mf) /\ m.batches = Batches(files)
      /\ m.dependencies = resolved.dependencies /\ m.actions = resolved.actions
      /\ m.files = [i \in DOMAIN files |-> [path |-> files[i].path, size |-> files[i].size,
                                            when |-> files[i].when]]
  BY DEF MetadataFor
<1>3. ToSet(m.scopes) \subseteq {"user", "machine"}
  <2>1. ToSet(mf.scopes) \subseteq {"user", "machine"} BY DEF Accepted, AcceptedPackage
  <2>2. ToSet(<<"user">>) = {"user"} BY DEF ToSet
  <2> QED BY <1>2, <2>1, <2>2 DEF Scopes
<1>4. PICK n \in Nat : n = Len(files) /\ DOMAIN files = 1..n BY DEF FileRecords, IsSequence
<1>5. \A i \in 1..n : files[i].size \in Nat BY <1>4 DEF FileRecords, ToSet
<1>6. DOMAIN m.files = 1..n /\ \A i \in 1..n : m.files[i].size = files[i].size BY <1>2, <1>4
<1>7. IsSequence(m.files)
  <2>1. m.files \in [1..n -> ToSet(m.files)] BY <1>2, <1>4 DEF ToSet
  <2> QED BY <2>1 DEF IsSequence
<1>8. \A f \in ToSet(m.files) : f.size \in Nat BY <1>5, <1>6 DEF ToSet
<1>9. m.batches \in Seq(BatchRecords) BY <1>2, BatchesTyped
<1>10. Pins(m) = Pins(resolved) BY <1>2 DEF Pins, Embedded
<1>11. m.files # <<>> => files # <<>> BY <1>4, <1>6
<1> QED
  <2>1. m.files # <<>> \/ Pins(m) # {} => m.payload # <<>> BY <1>1, <1>10, <1>11
  <2> QED BY <1>1, <1>2, <1>3, <1>7, <1>8, <1>9, <2>1 DEF SoundMetadata, BatchRecords

\* The stream: contents, and some if there is a file or a reserved entry.
LEMMA StreamFacts ==
  ASSUME BuildOK, stage = "write"
  PROVE  /\ AllThere => Payload \in Seq(Contents)
         /\ DOMAIN Payload = DOMAIN Stream
         /\ work.files # <<>> \/ Pins(work.resolved) # {} => Payload # <<>>
<1> DEFINE packed == {[path |-> r.entry, source |-> r.source, bytes |-> None] : r \in work.reserved}
           filed == {[path |-> f.path, source |-> f.source, bytes |-> f.bytes] :
                      f \in ToSet(work.files)}
           items == packed \cup filed
<1>1. /\ IsSequence(work.files) /\ \A f \in ToSet(work.files) : Packable(f)
      /\ \A r \in work.reserved : r.entry \in ToSet(StreamOrder) /\ r.source \in Sources
      /\ Pins(work.resolved) # {} => work.reserved # {}
      /\ disk \in [Sources -> Contents \cup {None}]
  BY DEF BuildOK, Completing, Reserving, Described, Writing
<1>2. \A f \in items : /\ f.path \in ToSet(StreamOrder) /\ f.source \in Sources
                       /\ f.bytes \in Contents \cup {None}
  BY <1>1 DEF Packable
<1>3. Stream = InStreamOrder(items) BY DEF Stream
<1>4. work.files # <<>> \/ Pins(work.resolved) # {} => \E f \in items : TRUE
  <2>1. ASSUME work.files # <<>> PROVE \E f \in items : TRUE
    <3>1. PICK n \in Nat : n = Len(work.files) /\ DOMAIN work.files = 1..n
      BY <1>1 DEF IsSequence
    <3>2. n # 0 BY <1>1, <2>1, <3>1 DEF IsSequence
    <3>3. work.files[1] \in ToSet(work.files) BY <3>1, <3>2 DEF ToSet
    <3> QED BY <3>3
  <2>2. ASSUME Pins(work.resolved) # {} PROVE \E f \in items : TRUE
    <3>1. PICK r : r \in work.reserved BY <1>1, <2>2
    <3> QED BY <3>1
  <2> QED BY <2>1, <2>2
<1> HIDE DEF items
<1>5. Stream \in Seq(Listed(items)) /\ ((\E f \in items : TRUE) => Stream # <<>>)
  BY <1>2, <1>3, StreamOrdered
<1>6. PICK n \in Nat : n = Len(Stream) /\ DOMAIN Stream = 1..n /\ Stream \in [1..n -> Listed(items)]
  BY <1>5
<1>7. Payload = [i \in 1..n |-> BytesOf(Stream[i])] BY <1>6 DEF Payload
<1>8. ASSUME NEW i \in 1..n PROVE BytesOf(Stream[i]) \in Contents \cup {None}
  <2>1. Stream[i] \in items BY <1>6 DEF Listed
  <2> QED BY <1>1, <1>2, <2>1 DEF BytesOf
<1>9. ASSUME AllThere PROVE Payload \in Seq(Contents)
  <2>1. \A i \in 1..n : Payload[i] # None BY <1>6, <1>9 DEF AllThere
  <2>2. Payload \in [1..n -> Contents] BY <1>7, <1>8, <2>1
  <2> QED BY <2>2
<1>10. Stream # <<>> => Payload # <<>>
  <2>1. Stream # <<>> => n # 0 BY <1>6
  <2>2. n # 0 => 1 \in DOMAIN Payload BY <1>7
  <2> QED BY <2>1, <2>2
<1> QED BY <1>4, <1>5, <1>6, <1>7, <1>9, <1>10

LEMMA ComposedIsSound ==
  ASSUME BuildOK, stage = "write", AllThere, Valid(Composed.metadata)
  PROVE  Sound(Composed)
<1> DEFINE entries == [i \in DOMAIN Stream |-> Stream[i].path]
           index == Index(entries, Payload)
           m == [work.metadata EXCEPT !.payload = index]
           payload == Payload
<1>1. Composed = File(LoaderBlock, EngineBlock, payload, m) BY DEF Composed
<1>2. /\ Accepted(manifest) /\ FileRecords(work.files)
      /\ work.metadata = MetadataFor(manifest, work.version, work.files, work.resolved)
  BY DEF BuildOK, Accepting, Completing, Reserving, Described, Writing, FileRecords, Packable
<1>3. payload \in Seq(Contents) /\ DOMAIN payload = DOMAIN Stream BY StreamFacts
<1>4. work.files # <<>> \/ Pins(work.resolved) # {} => payload # <<>> BY StreamFacts
<1> HIDE DEF entries, payload
<1>5. index = Index(entries, payload) BY DEF payload
<1>6. index # <<>> <=> payload # <<>>
  <2>1. Len(index) = Len(payload) /\ IsSequence(index) BY <1>3, <1>5, IndexFacts
  <2> HIDE DEF index
  <2> QED BY <1>3, <2>1 DEF IsSequence
<1> HIDE DEF index
<1>7. Composed.metadata = m /\ Composed.payload = payload BY <1>1 DEF File
<1>8. SoundMetadata(m) /\ m.payload = index
  <2>1. m = Indexed(work.metadata, index) BY DEF Indexed
  <2>2. Valid(m) BY <1>7
  <2>3. work.files # <<>> \/ Pins(work.resolved) # {} => index # <<>> BY <1>4, <1>6
  <2> HIDE DEF m
  <2> QED BY <1>2, <2>1, <2>2, <2>3, MetadataIsSound
<1> HIDE DEF m
<1>9. m.payload = Index([i \in DOMAIN payload |-> m.payload[i].entry], payload)
  <2>1. \A i \in DOMAIN payload : index[i].entry = entries[i] BY <1>3, <1>5, IndexFacts
  <2>2. Index([i \in DOMAIN payload |-> index[i].entry], payload) = Index(entries, payload)
    BY <2>1 DEF Index
  <2> QED BY <1>5, <1>8, <2>2
<1> QED BY <1>1, <1>3, <1>7, <1>8, <1>9 DEF Sound

-----------------------------------------------------------------------------
(* The invariant, step by step of the build.                                *)

USE DEF Writing, Described, Reserving, Completing, Accepting

\* While a build runs nothing was delivered.
LEMMA NothingDelivered ==
  ASSUME FilesOK, ReaderOK, stage # "idle" \/ copy = NoFile, UNCHANGED copyVars
  PROVE  ReaderOK' /\ ReadsWhatWasBuilt'
<1>1. copy = NoFile BY DEF FilesOK, ReaderOK
<1>2. reader = Unopened /\ uninstaller = NoFile /\ reader.state = "unopened"
  BY <1>1 DEF ReaderOK, Unopened
<1>3. copy' = NoFile /\ reader' = reader /\ uninstaller' = uninstaller BY <1>1 DEF copyVars
<1>4. ReaderOK'
  <2>1. reader \in [state : {"unopened", "open", "refused"}, position : Nat,
                    read : {reader.read}, engine : {reader.engine}]
    BY DEF ReaderOK
  <2> QED BY <1>1, <1>2, <1>3, <2>1 DEF ReaderOK
<1>5. ReadsWhatWasBuilt' BY <1>3 DEF ReadsWhatWasBuilt
<1> QED BY <1>4, <1>5

\* A build that ends without success leaves nothing resolved.
LEMMA BuildEnds ==
  ASSUME BuildOK, stage' = "idle", result' # "done", work' = NoWork, UNCHANGED <<manifest, disk>>
  PROVE  BuildOK' /\ FilesOK'
<1>1. WorkFields \subseteq DOMAIN NoWork /\ ResolvedFields \subseteq DOMAIN NoWork.resolved
  BY DEF WorkFields, ResolvedFields, NoWork
<1>2. manifest' \in Manifests /\ disk' \in [Sources -> Contents \cup {None}] BY DEF BuildOK
<1>3. BuildOK' BY <1>1, <1>2 DEF BuildOK
<1>4. FilesOK' BY DEF FilesOK
<1> QED BY <1>3, <1>4

LEMMA FailEnds ==
  ASSUME BuildOK, stage # "idle", Fail, UNCHANGED <<manifest, disk>>
  PROVE  BuildOK' /\ FilesOK'
<1>1. stage # "done" BY DEF BuildOK
<1>2. stage' = "idle" /\ result' # "done" /\ work' = NoWork BY <1>1 DEF Fail
<1> QED BY <1>2, BuildEnds

\* A stage of the build that touches no file.
LEMMA NoFileStep ==
  ASSUME FilesOK, stage # "idle", stage' \notin {"remove", "rename", "verify"},
         UNCHANGED result
  PROVE  FilesOK'
<1>1. result # "done" BY DEF FilesOK
<1> QED BY <1>1 DEF FilesOK

LEMMA BeginStep ==
  ASSUME BuildOK, FilesOK, Begin
  PROVE  BuildOK' /\ FilesOK'
<1> USE DEF Begin
<1>1. BuildOK' BY DEF BuildOK
<1>2. FilesOK' BY DEF FilesOK
<1> QED BY <1>1, <1>2

LEMMA LoadStep ==
  ASSUME BuildOK, FilesOK, Load
  PROVE  BuildOK' /\ FilesOK'
<1> stage = "load" /\ UNCHANGED <<manifest, disk, partial, published>> BY DEF Load
<1>1. CASE Fail BY <1>1, FailEnds
<1>2. CASE Accepted(manifest) /\ Go("files") /\ work' = [NoWork EXCEPT !.version = Version]
  <2>1. stage' = "files" /\ UNCHANGED result BY <1>2 DEF Go
  <2>2. WorkFields \subseteq DOMAIN work' /\ work'.resolved = NoWork.resolved
    BY <1>2 DEF WorkFields, NoWork
  <2>3. ResolvedFields \subseteq DOMAIN NoWork.resolved BY DEF ResolvedFields, NoWork
  <2>4. BuildOK' BY <1>2, <2>1, <2>2, <2>3 DEF BuildOK
  <2> QED BY <2>1, <2>4, NoFileStep
<1> QED BY <1>1, <1>2 DEF Load

\* What is found is read from a source, and as long as that is now.
LEMMA ChosenPackable ==
  ASSUME BuildOK, NEW f \in Listed(Chosen)
  PROVE  Packable(f)
<1>1. f \in Chosen /\ f.path \in ToSet(StreamOrder) BY DEF Listed
<1>2. PICK i \in DOMAIN manifest.files : \E g \in Found(manifest.files[i]) :
        f = [path |-> g.path, source |-> g.source, size |-> disk[g.source].len,
             when |-> manifest.files[i].when, bytes |-> None]
  BY <1>1 DEF Chosen
<1> PICK g \in Found(manifest.files[i]) :
        f = [path |-> g.path, source |-> g.source, size |-> disk[g.source].len,
             when |-> manifest.files[i].when, bytes |-> None]
  BY <1>2
<1>3. g \in manifest.files[i].found /\ disk[g.source] # None BY DEF Found
<1>4. g.source \in SourcesOf(manifest) BY <1>3 DEF SourcesOf
<1>5. g.source \in Sources BY <1>4, PackageAssumption DEF BuildOK
<1>6. disk[g.source] \in Contents BY <1>3, <1>5 DEF BuildOK
<1>7. disk[g.source].len \in Nat BY <1>6, PackageAssumption
<1> QED BY <1>1, <1>2, <1>5, <1>7 DEF Packable

LEMMA ResolveFilesStep ==
  ASSUME BuildOK, FilesOK, ResolveFiles
  PROVE  BuildOK' /\ FilesOK'
<1> stage = "files" /\ UNCHANGED <<manifest, disk, partial, published>> BY DEF ResolveFiles
<1>1. CASE Fail BY <1>1, FailEnds
<1>2. CASE Go("completions") /\ work' = [work EXCEPT !.files = InStreamOrder(Chosen)]
  <2> DEFINE files == InStreamOrder(Chosen)
  <2>1. stage' = "completions" /\ UNCHANGED result BY <1>2 DEF Go
  <2>2. files \in Seq(Listed(Chosen)) BY StreamOrdered
  <2>3. IsSequence(files) /\ \A f \in ToSet(files) : Packable(f)
    <3> HIDE DEF files
    <3> QED BY <2>2, SequenceOf, ChosenPackable
  <2> HIDE DEF files
  <2>4. /\ WorkFields \subseteq DOMAIN work' /\ work'.files = files
        /\ work'.resolved = work.resolved
    BY <1>2 DEF BuildOK, WorkFields, files
  <2>5. BuildOK' BY <2>1, <2>3, <2>4 DEF BuildOK, Packable
  <2> QED BY <2>1, <2>5, NoFileStep
<1> QED BY <1>1, <1>2 DEF ResolveFiles

\* A completion script comes of a source, or of the executable it is for.
LEMMA CompletionPackable ==
  ASSUME BuildOK, stage = "completions", NEW i \in DOMAIN manifest.completion,
         CompletionMakeable(manifest.completion[i]),
         CompletionFile(manifest.completion[i]).path \in ToSet(StreamOrder)
  PROVE  Packable(CompletionFile(manifest.completion[i]))
<1> DEFINE c == manifest.completion[i]
<1>1. \A f \in ToSet(work.files) : Packable(f) BY DEF BuildOK
<1>2. Executable(c) \in ToSet(work.files)
  <2>1. \E f \in ToSet(work.files) : f.path = c.executable BY DEF CompletionMakeable, ByPath
  <2> HIDE DEF c
  <2> QED BY <2>1, Zenon DEF Executable
<1>3. Executable(c).source \in Sources BY <1>1, <1>2 DEF Packable
<1>4. c.source = "script" => c.script # None
  <2>1. AcceptedCompletions(manifest) BY DEF BuildOK, Accepted
  <2> QED BY <2>1 DEF AcceptedCompletions
<1>5. /\ c.script # None => c.script \in Sources
      /\ c.program # None => c.program \in Sources
  <2>1. /\ c.script # None => c.script \in SourcesOf(manifest)
        /\ c.program # None => c.program \in SourcesOf(manifest)
    BY DEF SourcesOf
  <2> QED BY <2>1, PackageAssumption DEF BuildOK
<1> HIDE DEF c
<1>6. Maker(c) \in Sources BY <1>3, <1>4, <1>5 DEF Maker
<1>7. disk[Maker(c)] \in Contents /\ disk[Maker(c)].len \in Nat
  <2>1. disk[Maker(c)] # None BY DEF CompletionMakeable, c
  <2> QED BY <1>6, <2>1, PackageAssumption DEF BuildOK
<1>8. Packable(CompletionFile(c))
  <2>1. CompletionFile(c).path \in ToSet(StreamOrder) BY DEF c
  <2>2. /\ CompletionFile(c).source = Maker(c) /\ CompletionFile(c).size = disk[Maker(c)].len
        /\ CompletionFile(c).bytes = disk[Maker(c)]
    BY DEF CompletionFile
  <2> QED BY <1>6, <1>7, <2>1, <2>2 DEF Packable
<1> QED BY <1>8 DEF c

LEMMA ResolveCompletionsStep ==
  ASSUME BuildOK, FilesOK, ResolveCompletions
  PROVE  BuildOK' /\ FilesOK'
<1> stage = "completions" /\ UNCHANGED <<manifest, disk, partial, published>>
  BY DEF ResolveCompletions
<1>1. CASE Fail BY <1>1, FailEnds
<1>2. CASE ~Fail
  <2> DEFINE made == {CompletionFile(manifest.completion[i]) : i \in DOMAIN manifest.completion}
             files == InStreamOrder(ToSet(work.files) \cup made)
             declared == FlattenSeq([i \in DOMAIN manifest.completion |->
                                       Declarations(manifest.completion[i])])
  <2>1. /\ \A i \in DOMAIN manifest.completion : CompletionMakeable(manifest.completion[i])
        /\ Go("dependencies")
        /\ work' = [work EXCEPT !.files = files, !.resolved.completions = declared]
    BY <1>2 DEF ResolveCompletions
  <2>2. stage' = "dependencies" /\ UNCHANGED result BY <2>1 DEF Go
  <2>3. files \in Seq(Listed(ToSet(work.files) \cup made)) BY StreamOrdered
  <2>4. ASSUME NEW f \in Listed(ToSet(work.files) \cup made) PROVE Packable(f)
    <3>1. f.path \in ToSet(StreamOrder) BY DEF Listed
    <3>2. CASE f \in ToSet(work.files) BY <3>2 DEF BuildOK
    <3>3. CASE f \in made BY <2>1, <3>1, <3>3, CompletionPackable
    <3> QED BY <3>2, <3>3 DEF Listed
  <2>5. IsSequence(files) /\ \A f \in ToSet(files) : Packable(f)
    <3> HIDE DEF files
    <3> QED BY <2>3, <2>4, SequenceOf
  <2> HIDE DEF files, declared
  <2>6. /\ WorkFields \subseteq DOMAIN work' /\ work'.files = files
        /\ work'.resolved = [work.resolved EXCEPT !.completions = declared]
    BY <2>1 DEF BuildOK, WorkFields
  <2>7. ResolvedFields \subseteq DOMAIN work'.resolved BY <2>6 DEF BuildOK
  <2>8. BuildOK' BY <2>2, <2>5, <2>6, <2>7 DEF BuildOK, Packable
  <2> QED BY <2>2, <2>8, NoFileStep
<1> QED BY <1>1, <1>2

\* A hint does not change where a dependency comes from: what is embedded was
\* declared with a file.
LEMMA EmbeddedHasFile ==
  ASSUME NEW d, NEW hash, Hinted(Dependency(d), hash).source = "embedded"
  PROVE  d.file # None
<1>1. PICK dependency : dependency = Dependency(d) OBVIOUS
<1>2. "source" \in DOMAIN dependency /\ (dependency.source = "embedded" => d.file # None)
  BY <1>1 DEF Dependency
<1>3. Hinted(dependency, hash).source = dependency.source BY <1>2 DEF Hinted
<1> QED BY <1>1, <1>2, <1>3

LEMMA ResolveDependenciesStep ==
  ASSUME BuildOK, FilesOK, ResolveDependencies
  PROVE  BuildOK' /\ FilesOK'
<1> stage = "dependencies" /\ UNCHANGED <<manifest, disk, partial, published>>
  BY DEF ResolveDependencies
<1>1. CASE Fail BY <1>1, FailEnds
<1>2. CASE ~Fail
  <2> DEFINE declared == manifest.dependencies
             own == {i \in DOMAIN declared : declared[i].file # None}
             reserved == {[entry |-> DependencyEntry(Last(declared[i].file)),
                           source |-> declared[i].file] : i \in own}
  <2>1. Go("actions") BY <1>2 DEF ResolveDependencies
  <2>2. PICK hashes \in [DOMAIN declared -> Catalogued] :
          work' = [work EXCEPT
                     !.reserved = reserved,
                     !.resolved.dependencies =
                        [i \in DOMAIN declared |-> Hinted(Dependency(declared[i]), hashes[i])]]
    BY <1>2 DEF ResolveDependencies
  <2> DEFINE made == [i \in DOMAIN declared |-> Hinted(Dependency(declared[i]), hashes[i])]
  <2>3. stage' = "actions" /\ UNCHANGED result BY <2>1 DEF Go
  <2>4. ASSUME NEW r \in reserved PROVE r.entry \in ToSet(StreamOrder) /\ r.source \in Sources
    <3>1. PICK i \in own : r = [entry |-> DependencyEntry(Last(declared[i].file)),
                                source |-> declared[i].file]
      OBVIOUS
    <3>2. declared[i].file \in SourcesOf(manifest) BY DEF SourcesOf
    <3>3. DependencyEntry(Last(declared[i].file)) \in EntriesOf(manifest) BY DEF EntriesOf
    <3> QED BY <3>1, <3>2, <3>3, PackageAssumption DEF BuildOK
  <2>5. ASSUME NEW i \in DOMAIN declared, made[i].source = "embedded"
        PROVE  i \in own
    <3>1. Hinted(Dependency(declared[i]), hashes[i]).source = "embedded" BY <2>5
    <3> QED BY <3>1, EmbeddedHasFile
  <2>6. {d \in ToSet(made) : d.source = "embedded"} # {} => reserved # {}
    <3> SUFFICES ASSUME NEW d \in ToSet(made), d.source = "embedded" PROVE reserved # {}
      OBVIOUS
    <3>1. PICK i \in DOMAIN declared : d = made[i] BY DEF ToSet
    <3>2. i \in own BY <2>5, <3>1
    <3> QED BY <3>2
  <2> HIDE DEF reserved, made
  <2>7. work' = [work EXCEPT !.reserved = reserved, !.resolved.dependencies = made]
    BY <2>2 DEF made
  <2>8. /\ WorkFields \subseteq DOMAIN work' /\ work'.files = work.files
        /\ work'.reserved = reserved
        /\ work'.resolved = [work.resolved EXCEPT !.dependencies = made]
    BY <2>7 DEF BuildOK, WorkFields
  <2>9. /\ ResolvedFields \subseteq DOMAIN work'.resolved
        /\ work'.resolved.dependencies = made
    BY <2>8 DEF BuildOK, ResolvedFields
  <2>10. Embedded(work'.resolved) # {} => work'.reserved # {}
    BY <2>6, <2>8, <2>9 DEF Embedded
  <2>11. BuildOK' BY <2>3, <2>4, <2>8, <2>9, <2>10 DEF BuildOK, Packable
  <2> QED BY <2>3, <2>11, NoFileStep
<1> QED BY <1>1, <1>2

LEMMA ResolveActionsStep ==
  ASSUME BuildOK, FilesOK, ResolveActions
  PROVE  BuildOK' /\ FilesOK'
<1> stage = "actions" /\ UNCHANGED <<manifest, disk, partial, published>>
  BY DEF ResolveActions
<1>1. CASE Fail BY <1>1, FailEnds
<1>2. CASE ~Fail
  <2> DEFINE packaged == ProgramSources(manifest)
             added == {[entry |-> ActionEntry(Last(s)), source |-> s] : s \in packaged}
             reserved == work.reserved \cup added
             actions == [i \in DOMAIN manifest.actions |-> Program(manifest.actions[i])]
             quiescence == [i \in DOMAIN manifest.quiescence |->
                              QuiescenceOf(manifest.quiescence[i])]
  <2>1. /\ Go("describe")
        /\ work' = [work EXCEPT !.reserved = reserved, !.resolved.actions = actions,
                                !.resolved.quiescence = quiescence]
    BY <1>2 DEF ResolveActions
  <2>2. stage' = "describe" /\ UNCHANGED result BY <2>1 DEF Go
  <2>3. ASSUME NEW r \in added PROVE r.entry \in ToSet(StreamOrder) /\ r.source \in Sources
    <3>1. PICK s \in packaged : r = [entry |-> ActionEntry(Last(s)), source |-> s] OBVIOUS
    <3>2. s \in SourcesOf(manifest) /\ ActionEntry(Last(s)) \in EntriesOf(manifest)
      <4> HIDE DEF packaged
      <4> QED BY DEF SourcesOf, EntriesOf, packaged
    <3> QED BY <3>1, <3>2, PackageAssumption DEF BuildOK
  <2>4. \A r \in reserved : r.entry \in ToSet(StreamOrder) /\ r.source \in Sources
    <3>1. \A r \in work.reserved : r.entry \in ToSet(StreamOrder) /\ r.source \in Sources
      BY DEF BuildOK
    <3> HIDE DEF added
    <3> QED BY <2>3, <3>1
  <2>5. {a \in ToSet(actions) : a.entry # None} # {} => added # {}
    <3> SUFFICES ASSUME NEW a \in ToSet(actions), a.entry # None PROVE packaged # {} OBVIOUS
    <3>1. PICK i \in DOMAIN manifest.actions : a = Program(manifest.actions[i]) BY DEF ToSet
    <3>2. manifest.actions[i].source # None BY <3>1 DEF Program
    <3>3. manifest.actions[i].source \in packaged BY <3>2 DEF ProgramSources, ToSet
    <3> QED BY <3>3
  <2> HIDE DEF added, actions, quiescence
  <2>6. /\ WorkFields \subseteq DOMAIN work' /\ work'.files = work.files
        /\ work'.reserved = reserved
        /\ work'.resolved = [work.resolved EXCEPT !.actions = actions,
                                                  !.quiescence = quiescence]
    BY <2>1 DEF BuildOK, WorkFields
  <2>7. /\ ResolvedFields \subseteq DOMAIN work'.resolved
        /\ work'.resolved.actions = actions
        /\ work'.resolved.dependencies = work.resolved.dependencies
    BY <2>6 DEF BuildOK, ResolvedFields
  <2>8. Embedded(work'.resolved) # {} => work'.reserved # {}
    BY <2>6, <2>7 DEF BuildOK, Embedded
  <2>9. Pins(work'.resolved) # {} => work'.reserved # {} BY <2>5, <2>6, <2>7, <2>8 DEF Pins
  <2> HIDE DEF reserved
  <2>10. BuildOK' BY <2>2, <2>4, <2>6, <2>7, <2>8, <2>9 DEF BuildOK, Packable
  <2> QED BY <2>2, <2>10, NoFileStep
<1> QED BY <1>1, <1>2

LEMMA DescribeStep ==
  ASSUME BuildOK, FilesOK, Describe
  PROVE  BuildOK' /\ FilesOK'
<1> stage = "describe" /\ UNCHANGED <<manifest, disk, published>> BY DEF Describe
<1>1. CASE Fail BY <1>1, FailEnds
<1>2. CASE ~Fail
  <2> DEFINE m == MetadataFor(manifest, work.version, work.files, work.resolved)
  <2>1. Go("measure") /\ work' = [work EXCEPT !.metadata = m] BY <1>2 DEF Describe
  <2>2. stage' = "measure" /\ UNCHANGED result BY <2>1 DEF Go
  <2> HIDE DEF m
  <2>3. /\ WorkFields \subseteq DOMAIN work' /\ work'.files = work.files
        /\ work'.reserved = work.reserved /\ work'.resolved = work.resolved
        /\ work'.version = work.version /\ work'.metadata = m
    BY <2>1 DEF BuildOK, WorkFields
  <2>4. work'.metadata = MetadataFor(manifest', work'.version, work'.files, work'.resolved)
    BY <2>3 DEF m
  <2>5. BuildOK' BY <2>2, <2>3, <2>4 DEF BuildOK, Packable
  <2> QED BY <2>2, <2>5, NoFileStep
<1> QED BY <1>1, <1>2

LEMMA MeasureStep ==
  ASSUME BuildOK, FilesOK, Measure
  PROVE  BuildOK' /\ FilesOK'
<1> stage = "measure" /\ UNCHANGED <<manifest, disk, published>> BY DEF Measure
<1>1. CASE Fail BY <1>1, FailEnds
<1>2. CASE ~Fail
  <2> DEFINE pledged == Total(Payload)
  <2>1. Go("write") /\ work' = [work EXCEPT !.pledged = pledged] BY <1>2 DEF Measure
  <2>2. stage' = "write" /\ UNCHANGED result BY <2>1 DEF Go
  <2> HIDE DEF pledged
  <2>3. /\ WorkFields \subseteq DOMAIN work' /\ work'.files = work.files
        /\ work'.reserved = work.reserved /\ work'.resolved = work.resolved
        /\ work'.version = work.version /\ work'.metadata = work.metadata
    BY <2>1 DEF BuildOK, WorkFields
  <2>4. work'.metadata = MetadataFor(manifest', work'.version, work'.files, work'.resolved)
    BY <2>3 DEF BuildOK
  <2>5. BuildOK' BY <2>2, <2>3, <2>4 DEF BuildOK, Packable
  <2> QED BY <2>2, <2>5, NoFileStep
<1> QED BY <1>1, <1>2

\* From here on the build has nothing to resolve any more.
LEMMA Written ==
  ASSUME BuildOK, UNCHANGED <<manifest, disk, work>>, stage' \in {"remove", "rename", "verify"}
  PROVE  BuildOK'
BY DEF BuildOK

LEMMA WriteStep ==
  ASSUME BuildOK, FilesOK, Write
  PROVE  BuildOK' /\ FilesOK'
<1> stage = "write" /\ UNCHANGED <<manifest, disk, published>> BY DEF Write
<1>1. CASE Fail BY <1>1, FailEnds
<1>2. CASE ~Fail
  <2>1. /\ AllThere /\ Valid(Composed.metadata)
        /\ Go("remove") /\ partial' = Composed /\ UNCHANGED work
    BY <1>2 DEF Write
  <2>2. stage' = "remove" /\ UNCHANGED result BY <2>1 DEF Go
  <2>3. Sound(Composed) BY <2>1, ComposedIsSound
  <2>4. result # "done" BY DEF FilesOK
  <2>5. FilesOK' BY <2>1, <2>2, <2>3, <2>4 DEF FilesOK
  <2> QED BY <2>1, <2>2, <2>5, Written
<1> QED BY <1>1, <1>2

LEMMA RemoveOldStep ==
  ASSUME BuildOK, FilesOK, RemoveOld
  PROVE  BuildOK' /\ FilesOK'
<1>1. stage = "remove" /\ stage' = "rename" /\ UNCHANGED <<manifest, disk, work, partial, result>>
  BY DEF RemoveOld, Go
<1>2. FilesOK' BY <1>1 DEF FilesOK
<1> QED BY <1>1, <1>2, Written

LEMMA RenameStep ==
  ASSUME BuildOK, FilesOK, Rename
  PROVE  BuildOK' /\ FilesOK'
<1> stage = "rename" /\ UNCHANGED <<manifest, disk>> BY DEF Rename
<1>1. CASE Fail BY <1>1, FailEnds
<1>2. CASE ~Fail
  <2>1. stage' = "verify" /\ published' = partial /\ UNCHANGED <<result, work>>
    BY <1>2 DEF Rename, Go
  <2>2. FilesOK' BY <2>1 DEF FilesOK
  <2> QED BY <2>1, <2>2, Written
<1> QED BY <1>1, <1>2

LEMMA VerifyStep ==
  ASSUME BuildOK, FilesOK, Verify
  PROVE  BuildOK' /\ FilesOK'
<1> stage = "verify" /\ UNCHANGED <<manifest, disk, partial, published>> BY DEF Verify
<1>1. CASE Fail BY <1>1, FailEnds
<1>2. CASE ~Fail
  <2>1. Verifies(published) /\ stage' = "idle" /\ result' = "done" /\ work' = NoWork
    BY <1>2 DEF Verify
  <2>2. WorkFields \subseteq DOMAIN NoWork /\ ResolvedFields \subseteq DOMAIN NoWork.resolved
    BY DEF WorkFields, ResolvedFields, NoWork
  <2>3. BuildOK' BY <2>1, <2>2 DEF BuildOK
  <2>4. FilesOK' BY <2>1 DEF FilesOK
  <2> QED BY <2>3, <2>4
<1> QED BY <1>1, <1>2

LEMMA CrashStep ==
  ASSUME BuildOK, FilesOK, Crash
  PROVE  BuildOK' /\ FilesOK'
BY BuildEnds DEF Crash

LEMMA EditStep ==
  ASSUME BuildOK, FilesOK, Edit
  PROVE  BuildOK' /\ FilesOK'
<1>1. UNCHANGED <<manifest, stage, work, partial, published, result>> BY DEF Edit
<1>2. disk' \in [Sources -> Contents \cup {None}] BY DEF Edit, BuildOK
<1>3. BuildOK' BY <1>1, <1>2 DEF BuildOK, Packable
<1>4. FilesOK' BY <1>1 DEF FilesOK
<1> QED BY <1>3, <1>4

-----------------------------------------------------------------------------
(* The invariant, step by step of the delivered file.                       *)

\* A step of the reader leaves the build where it was.
LEMMA BuildStands ==
  ASSUME BuildOK, FilesOK, UNCHANGED buildVars
  PROVE  BuildOK' /\ FilesOK'
<1>1. UNCHANGED <<manifest, disk, stage, work, partial, published, result>> BY DEF buildVars
<1>2. BuildOK' BY <1>1 DEF BuildOK, Packable
<1>3. FilesOK' BY <1>1 DEF FilesOK
<1> QED BY <1>2, <1>3

\* A delivered file is a sound one with what happened to it.
LEMMA Delivered ==
  ASSUME FilesOK, ReaderOK, copy # NoFile
  PROVE  /\ result = "done" /\ Sound(published)
         /\ damage \in Damages /\ copy \in Altered(published, damage)
BY DEF FilesOK, ReaderOK

LEMMA DeliverStep ==
  ASSUME ReaderOK, Deliver
  PROVE  ReaderOK' /\ ReadsWhatWasBuilt'
<1>1. /\ copy = NoFile /\ result' = "done" /\ published' = published
      /\ damage' \in Damages /\ copy' \in Altered(published, damage')
      /\ reader' = reader /\ uninstaller' = uninstaller
  BY DEF Deliver, buildVars
<1>2. reader = Unopened /\ uninstaller = NoFile BY <1>1 DEF ReaderOK
<1>3. Unopened.state = "unopened" /\ Unopened.engine = None /\ Unopened.read = None
  BY DEF Unopened
<1>4. NoFile # Error /\ None # Error
  <2>1. "missing" \in DOMAIN NoFile /\ "missing" \notin DOMAIN Error BY DEF NoFile, Error
  <2> QED BY <2>1, PackageAssumption
<1>5. reader' \in [state : {"unopened", "open", "refused"}, position : Nat,
                   read : {reader'.read}, engine : {reader'.engine}]
  BY <1>1 DEF ReaderOK
<1>6. ReaderOK' BY <1>1, <1>2, <1>3, <1>5 DEF ReaderOK
<1>7. ReadsWhatWasBuilt' BY <1>1, <1>2, <1>3, <1>4 DEF ReadsWhatWasBuilt
<1> QED BY <1>6, <1>7

\* The fields of a reader, one of them anew.
LEMMA ReaderFields ==
  ASSUME ReaderOK
  PROVE  /\ DOMAIN reader = {"state", "position", "read", "engine"}
         /\ reader.state \in {"unopened", "open", "refused"} /\ reader.position \in Nat
BY DEF ReaderOK

LEMMA RunEngineStep ==
  ASSUME FilesOK, ReaderOK, ReadsWhatWasBuilt, RunEngine
  PROVE  ReaderOK' /\ ReadsWhatWasBuilt'
<1> DEFINE engine == Extracted(copy)
<1>1. /\ copy # NoFile /\ reader.engine = None /\ reader' = [reader EXCEPT !.engine = engine]
      /\ UNCHANGED <<published, result, copy, damage, uninstaller>>
  BY DEF RunEngine, buildVars
<1>2. /\ engine \in {EngineBlock, Error} /\ EngineBlock # Error
      /\ damage \in {"none", "signed"} => engine = EngineBlock
  BY <1>1, Delivered, EngineOfCopy
<1>3. reader.state = "unopened"
  <2>1. reader.engine # EngineBlock BY <1>1, PackageAssumption
  <2> QED BY <2>1 DEF ReaderOK
<1> HIDE DEF engine
<1>4. /\ reader'.engine = engine /\ reader'.state = reader.state
      /\ reader'.position = reader.position /\ reader'.read = reader.read
      /\ DOMAIN reader' = DOMAIN reader
  BY <1>1, ReaderFields
<1>5. reader' \in [state : {"unopened", "open", "refused"}, position : Nat,
                   read : {reader'.read}, engine : {reader'.engine}]
  BY <1>1, ReaderFields
<1>6. ReaderOK' BY <1>1, <1>3, <1>4, <1>5 DEF ReaderOK
<1>7. ReadsWhatWasBuilt'
  <2>1. reader'.engine \in {None, Error, EngineBlock} BY <1>2, <1>4
  <2>2. Intact' = Intact /\ (Intact => reader'.engine # Error)
    BY <1>1, <1>2, <1>4 DEF Intact
  <2> QED BY <1>1, <1>4, <2>1, <2>2 DEF ReadsWhatWasBuilt
<1> QED BY <1>6, <1>7

LEMMA OpenStep ==
  ASSUME FilesOK, ReaderOK, ReadsWhatWasBuilt, Open
  PROVE  ReaderOK' /\ ReadsWhatWasBuilt'
<1> DEFINE state == IF Opens(copy) THEN "open" ELSE "refused"
<1>1. /\ copy # NoFile /\ reader.state = "unopened" /\ reader.engine \notin {None, Error}
      /\ reader' = [reader EXCEPT !.state = state]
      /\ UNCHANGED <<published, result, copy, damage, uninstaller>>
  BY DEF Open, buildVars
<1>2. damage \in {"none", "signed"} => state = "open" BY <1>1, Delivered, EngineOfCopy
<1>3. reader.engine = EngineBlock BY <1>1 DEF ReadsWhatWasBuilt
<1>4. state \in {"open", "refused"} /\ (state = "open" => Opens(copy)) OBVIOUS
<1> HIDE DEF state
<1>5. /\ reader'.state = state /\ reader'.engine = reader.engine
      /\ reader'.position = reader.position /\ reader'.read = reader.read
      /\ DOMAIN reader' = DOMAIN reader
  BY <1>1, ReaderFields
<1>6. reader' \in [state : {"unopened", "open", "refused"}, position : Nat,
                   read : {reader'.read}, engine : {reader'.engine}]
  BY <1>1, <1>4, ReaderFields
<1>7. ReaderOK' BY <1>1, <1>3, <1>4, <1>5, <1>6 DEF ReaderOK
<1>8. ReadsWhatWasBuilt'
  <2>1. Intact' = Intact /\ (Intact => reader'.state # "refused")
    BY <1>1, <1>2, <1>5 DEF Intact
  <2> QED BY <1>1, <1>5, <2>1 DEF ReadsWhatWasBuilt
<1> QED BY <1>7, <1>8

LEMMA ReadEntryStep ==
  ASSUME FilesOK, ReaderOK, ReadsWhatWasBuilt, ReadEntry
  PROVE  ReaderOK' /\ ReadsWhatWasBuilt'
<1>1. reader.state = "open" /\ UNCHANGED <<published, result, copy, damage, uninstaller>>
  BY DEF ReadEntry, buildVars
<1>2. copy # NoFile /\ Opens(copy) BY <1>1 DEF ReaderOK, Unopened
<1>3. PICK i \in DOMAIN copy.metadata.payload :
        LET region == copy.metadata.payload[i]
            from == IF region.length = 0 THEN reader.position
                    ELSE Sought(reader.position, region.offset)
        IN  \E bytes \in Decoded(copy, from, region) :
              reader' = [reader EXCEPT
                  !.position = from + region.length,
                  !.read = [entry |-> region.entry, bytes |-> Checked(bytes, region)]]
  BY DEF ReadEntry
<1> DEFINE region == copy.metadata.payload[i]
           from == IF region.length = 0 THEN reader.position
                   ELSE Sought(reader.position, region.offset)
<1>4. PICK bytes \in Decoded(copy, from, region) :
        reader' = [reader EXCEPT
            !.position = from + region.length,
            !.read = [entry |-> region.entry, bytes |-> Checked(bytes, region)]]
  BY <1>3
<1>5. /\ from + region.length \in Nat
      /\ Checked(bytes, region) # Error =>
          Holds(published, region.entry, Checked(bytes, region))
      /\ damage \in {"none", "signed"} => Checked(bytes, region) # Error
  <2>1. reader.position \in Nat BY ReaderFields
  <2> QED BY <1>2, <2>1, Delivered, ReadOfCopy
<1> DEFINE position == from + region.length
           got == Checked(bytes, region)
           read == [entry |-> region.entry, bytes |-> got]
<1>6. reader' = [reader EXCEPT !.position = position, !.read = read] BY <1>4
<1>7. /\ position \in Nat /\ (got # Error => Holds(published, read.entry, got))
      /\ damage \in {"none", "signed"} => got # Error
      /\ read.bytes = got
  BY <1>5
<1> HIDE DEF position, read, got
<1>8. /\ reader'.state = reader.state /\ reader'.engine = reader.engine
      /\ reader'.position = position /\ reader'.read = read
      /\ DOMAIN reader' = DOMAIN reader
  BY <1>6, ReaderFields
<1>9. reader' \in [state : {"unopened", "open", "refused"}, position : Nat,
                   read : {reader'.read}, engine : {reader'.engine}]
  BY <1>6, <1>7, ReaderFields
<1>10. ReaderOK' BY <1>1, <1>2, <1>8, <1>9 DEF ReaderOK
<1>11. ReadsWhatWasBuilt'
  <2>1. reader'.read.bytes # Error => Holds(published, reader'.read.entry, reader'.read.bytes)
    BY <1>7, <1>8
  <2>2. Intact' = Intact /\ (Intact => reader'.read.bytes # Error)
    BY <1>1, <1>7, <1>8 DEF Intact
  <2> QED BY <1>1, <1>2, <1>8, <2>1, <2>2 DEF ReadsWhatWasBuilt, Holds
<1> QED BY <1>10, <1>11

LEMMA KeepUninstallerStep ==
  ASSUME FilesOK, ReaderOK, ReadsWhatWasBuilt, KeepUninstaller
  PROVE  ReaderOK' /\ ReadsWhatWasBuilt'
<1>1. reader.state = "open" /\ UNCHANGED <<published, result, copy, damage, reader>>
  BY DEF KeepUninstaller, buildVars
<1>2. copy # NoFile /\ Opens(copy) BY <1>1 DEF ReaderOK, Unopened
<1>3. /\ Sound(published) /\ damage \in Damages /\ copy \in Altered(published, damage)
  BY <1>2, Delivered
<1>4. copy.metadata = published.metadata /\ copy.footer.engine = EngineBlock
  <2>1. copy.metadata = published.metadata /\ copy.footer = published.footer
    BY <1>2, <1>3, OpenCopy
  <2>2. published.footer.engine = EngineBlock BY <1>3, SoundBlocks
  <2> QED BY <2>1, <2>2
<1>5. damage \in {"none", "signed"} => copy.engine = EngineBlock BY <1>3, CopyBlocks
<1>6. PICK scope \in ToSet(copy.metadata.scopes) :
        LET m == [copy.metadata EXCEPT !.role = "uninstaller", !.scope = scope, !.payload = <<>>]
        IN  uninstaller' = IF copy.engine = copy.footer.engine /\ Valid(m)
                           THEN File(copy.loader, copy.engine, <<>>, m) ELSE Error
  BY DEF KeepUninstaller
<1> DEFINE m == [copy.metadata EXCEPT !.role = "uninstaller", !.scope = scope, !.payload = <<>>]
<1>7. SoundMetadata(copy.metadata) BY <1>3, <1>4 DEF Sound
<1>8. /\ Valid(m) /\ m.files = published.metadata.files
      /\ m.role = "uninstaller" /\ m.payload = <<>>
  <2>1. m.role = "uninstaller" /\ m.payload = <<>> BY <1>7 DEF SoundMetadata, MetadataFields
  <2>2. Valid(m) /\ m.files = copy.metadata.files BY <1>7, MarkedValid
  <2> QED BY <1>4, <2>1, <2>2
<1>9. uninstaller' = IF copy.engine = EngineBlock
                     THEN File(copy.loader, EngineBlock, <<>>, m) ELSE Error
  BY <1>4, <1>6, <1>8
<1> HIDE DEF m
<1>10. ASSUME copy.engine = EngineBlock
       PROVE  /\ Extracted(uninstaller') = EngineBlock /\ Opens(uninstaller')
              /\ uninstaller'.metadata.files = published.metadata.files
              /\ uninstaller' # Error
  <2>1. uninstaller' = File(copy.loader, EngineBlock, <<>>, m) BY <1>9, <1>10
  <2> QED BY <1>8, <2>1, KeptOpens
<1>11. ReaderOK' BY <1>1, <1>2 DEF ReaderOK
<1>12. ReadsWhatWasBuilt'
  <2>1. uninstaller' \notin {NoFile, Error} => copy.engine = EngineBlock BY <1>9
  <2>2. Intact' = Intact /\ (Intact => uninstaller' # Error) BY <1>1, <1>5, <1>10 DEF Intact
  <2> QED BY <1>1, <1>2, <1>10, <2>1, <2>2 DEF ReadsWhatWasBuilt, Holds
<1> QED BY <1>11, <1>12

-----------------------------------------------------------------------------
(* The theorems.                                                            *)

LEMMA PackageInit == Init => IInv
<1> SUFFICES ASSUME Init PROVE IInv OBVIOUS
<1>1. WorkFields \subseteq DOMAIN NoWork /\ ResolvedFields \subseteq DOMAIN NoWork.resolved
  BY DEF WorkFields, ResolvedFields, NoWork
<1>2. BuildOK BY <1>1, PackageAssumption DEF Init, BuildOK
<1>3. FilesOK BY DEF Init, FilesOK
<1>4. ReaderOK
  <2>1. /\ Unopened.state = "unopened" /\ Unopened.position = 0
        /\ Unopened \in [state : {"unopened", "open", "refused"}, position : Nat,
                         read : {Unopened.read}, engine : {Unopened.engine}]
    BY DEF Unopened
  <2> QED BY <2>1 DEF Init, ReaderOK
<1>5. ReadsWhatWasBuilt BY DEF Init, ReadsWhatWasBuilt
<1> QED BY <1>2, <1>3, <1>4, <1>5 DEF IInv

LEMMA PackageNext == IInv /\ [Next]_vars => IInv'
<1> SUFFICES ASSUME IInv, [Next]_vars PROVE IInv' OBVIOUS
<1> BuildOK /\ FilesOK /\ ReaderOK /\ ReadsWhatWasBuilt BY DEF IInv
<1>1. CASE UNCHANGED vars
  <2>1. UNCHANGED buildVars /\ UNCHANGED copyVars BY <1>1 DEF vars
  <2>2. UNCHANGED <<published, result>> /\ UNCHANGED <<copy, damage, reader, uninstaller>>
    BY <2>1 DEF buildVars, copyVars
  <2>3. ReaderOK' BY <2>2 DEF ReaderOK
  <2>4. ReadsWhatWasBuilt' BY <2>2 DEF ReadsWhatWasBuilt, Holds, Intact
  <2> QED BY <2>1, <2>3, <2>4, BuildStands DEF IInv
<1>2. CASE Begin BY <1>2, BeginStep, NothingDelivered DEF Begin, IInv
<1>3. CASE Load BY <1>3, LoadStep, NothingDelivered DEF Load, IInv
<1>4. CASE ResolveFiles BY <1>4, ResolveFilesStep, NothingDelivered DEF ResolveFiles, IInv
<1>5. CASE ResolveCompletions
  BY <1>5, ResolveCompletionsStep, NothingDelivered DEF ResolveCompletions, IInv
<1>6. CASE ResolveDependencies
  BY <1>6, ResolveDependenciesStep, NothingDelivered DEF ResolveDependencies, IInv
<1>7. CASE ResolveActions
  BY <1>7, ResolveActionsStep, NothingDelivered DEF ResolveActions, IInv
<1>8. CASE Describe BY <1>8, DescribeStep, NothingDelivered DEF Describe, IInv
<1>9. CASE Measure BY <1>9, MeasureStep, NothingDelivered DEF Measure, IInv
<1>10. CASE Write BY <1>10, WriteStep, NothingDelivered DEF Write, IInv
<1>11. CASE RemoveOld BY <1>11, RemoveOldStep, NothingDelivered DEF RemoveOld, IInv
<1>12. CASE Rename BY <1>12, RenameStep, NothingDelivered DEF Rename, IInv
<1>13. CASE Verify BY <1>13, VerifyStep, NothingDelivered DEF Verify, IInv
<1>14. CASE Crash BY <1>14, CrashStep, NothingDelivered DEF Crash, IInv
<1>15. CASE Edit BY <1>15, EditStep, NothingDelivered DEF Edit, IInv
<1>16. CASE Deliver BY <1>16, DeliverStep, BuildStands DEF Deliver, IInv
<1>17. CASE RunEngine BY <1>17, RunEngineStep, BuildStands DEF RunEngine, IInv
<1>18. CASE Open BY <1>18, OpenStep, BuildStands DEF Open, IInv
<1>19. CASE ReadEntry BY <1>19, ReadEntryStep, BuildStands DEF ReadEntry, IInv
<1>20. CASE KeepUninstaller
  BY <1>20, KeepUninstallerStep, BuildStands DEF KeepUninstaller, IInv
<1> QED BY <1>1, <1>2, <1>3, <1>4, <1>5, <1>6, <1>7, <1>8, <1>9, <1>10, <1>11, <1>12,
           <1>13, <1>14, <1>15, <1>16, <1>17, <1>18, <1>19, <1>20 DEF Next

\* The invariant holds throughout: what each stage of the build has resolved,
\* what stands in the partial file and at the path once a build composed it,
\* and what the engine has of the file delivered (builder.rs 589-733,
\* installer.rs 72-391).
THEOREM PackageInvariance == Spec => []IInv
<1>1. Init => IInv BY PackageInit
<1>2. IInv /\ [Next]_vars => IInv' BY PackageNext
<1> QED BY <1>1, <1>2, PTL DEF Spec

\* A build that reports success made a file an engine can work through: every
\* file declared is there at its size, every embedded installer and packaged
\* action with the hash it will be asked for, the launched program among
\* them, and the files cut into batches the one way they can be.
THEOREM DeliversWhatIsBuilt == Spec => []DeliversWhatItSays
<1>1. IInv => DeliversWhatItSays
  <2> SUFFICES ASSUME IInv, result = "done" PROVE DeliversWhatItSays
    BY DEF DeliversWhatItSays
  <2>1. Sound(published) /\ Verifies(published) BY DEF IInv, FilesOK
  <2> QED BY <2>1, SoundDelivers DEF DeliversWhatItSays
<1> QED BY <1>1, PackageInvariance, PTL

\* Whatever was altered on the way, what the engine runs, reads and keeps of
\* an installer is what was built into it or an error, and nothing fails in a
\* file that arrived as it was built or signed.
THEOREM ReadsBack == Spec => []ReadsWhatWasBuilt
<1>1. IInv => ReadsWhatWasBuilt BY DEF IInv
<1> QED BY <1>1, PackageInvariance, PTL

\* No step of a build gives up what was published but for a file composed to
\* its end that opens: neither a failure nor a crash does.
THEOREM PublishedStands == Spec => KeepsWhatStood
<1> DEFINE Stood == published' # published =>
                      /\ partial \notin {NoFile, Torn} /\ Opens(partial)
                      /\ published' \in {NoFile, partial}
<1>1. IInv /\ [Next]_vars => [Stood]_vars
  <2> SUFFICES ASSUME IInv, [Next]_vars, published' # published PROVE Stood OBVIOUS
  <2>1. stage \in {"remove", "rename"} => partial \notin {NoFile, Torn} /\ Opens(partial)
    BY SoundOpens DEF IInv, FilesOK
  <2>2. CASE RemoveOld BY <2>1, <2>2 DEF RemoveOld
  <2>3. CASE Rename BY <2>1, <2>3 DEF Rename
  <2>4. CASE UNCHANGED published BY <2>4
  <2>5. RemoveOld \/ Rename \/ UNCHANGED published
    BY DEF Next, vars, buildVars, Begin, Load, ResolveFiles, ResolveCompletions,
           ResolveDependencies, ResolveActions, Describe, Measure, Write, Verify, Crash, Edit,
           Deliver, RunEngine, Open, ReadEntry, KeepUninstaller
  <2> QED BY <2>2, <2>3, <2>4, <2>5
<1> QED BY <1>1, PackageInvariance, PTL DEF Spec, KeepsWhatStood

-----------------------------------------------------------------------------
(* What a build may refuse its metadata for: what it has resolved by each   *)
(* stage is, but for the causes Unforeseen names, what the rules ask for.   *)

\* What the predicates of a table name is declared.
Known(mf, table) == \A i \in DOMAIN table : PredicateKnown(mf.options, table[i].when)

\* A path files stand at: one the rules accept, or a completion script's.
Placed(mf, path) ==
  \/ ValidPath(path)
  \/ \E c \in ToSet(mf.completion) : path = InstalledScript(c.command)

FilesForeseen(mf, files) ==
  /\ Distinct(files, "path") /\ Known(mf, files)
  /\ \A f \in ToSet(files) : Placed(mf, f.path)

CompletionsForeseen(mf, files, table) ==
  /\ Known(mf, table)
  /\ \A i \in DOMAIN table : \E c \in ToSet(mf.completion) :
      /\ table[i].command = c.command /\ table[i].script = InstalledScript(c.command)
      /\ InstalledScript(c.command) \in ByPath(ToSet(files))

\* A dependency as the metadata may hold it, but for what no rule looked at.
Admissible(mf, d) ==
  /\ Plain(d.id) /\ Plain(d.minimum) /\ d.detector
  /\ \/ ValidAcquisition(d)
     \/ d.source = "winget" /\ ~Plain(d.sha256)
     \/ \E e \in ToSet(mf.dependencies) : ~Plain(e.winget) \/ ~Plain(e.url)

DependenciesForeseen(mf, table) ==
  Known(mf, table) /\ Distinct(table, "id") /\ \A i \in DOMAIN table : Admissible(mf, table[i])

ProgramsForeseen(mf, resolved) ==
  /\ ValidPrograms(resolved)
  /\ Known(mf, resolved.actions) /\ Known(mf, resolved.quiescence)

\* What the manifest's rules make certain of what each stage has resolved.
Foreseen ==
  /\ stage # "idle" => result = "none"
  /\ stage \in Accepting => Plain(work.version)
  /\ stage \in Completing => FilesForeseen(manifest, work.files)
  /\ stage \in {"dependencies"} \cup Reserving =>
      CompletionsForeseen(manifest, work.files, work.resolved.completions)
  /\ stage \in Reserving => DependenciesForeseen(manifest, work.resolved.dependencies)
  /\ stage \in Described => ProgramsForeseen(manifest, work.resolved)


\* The files of a stream stand in it one after the other, each where its path
\* is in the order.
LEMMA StreamSteps ==
  ASSUME NEW files
  PROVE  \E n, first :
           /\ n \in Nat
           /\ n = Len(StreamOrder) /\ DOMAIN StreamOrder = 1..n
           /\ InStreamOrder(files) = first[n]
           /\ first[0] = <<>>
           /\ \A i \in 0..n : first[i] \in Seq(Listed(files))
           /\ \A i \in 1..n :
               /\ StreamOrder[i] \in ByPath(files) =>
                   \E f \in files : f.path = StreamOrder[i] /\ first[i] = Append(first[i - 1], f)
               /\ StreamOrder[i] \notin ByPath(files) => first[i] = first[i - 1]
<1>1. PICK n \in Nat : n = Len(StreamOrder) /\ DOMAIN StreamOrder = 1..n
  BY PackageAssumption
<1> DEFINE first == CHOOSE f : Ordering(files, Len(StreamOrder), f)
<1>2. Ordering(files, n, first) BY <1>1, OrderExists, Zenon
<1>3. InStreamOrder(files) = first[n] BY <1>1, Zenon DEF InStreamOrder, Ordering
<1> HIDE DEF first
<1>4. ASSUME NEW i \in 1..n
      PROVE  first[i] = IF StreamOrder[i] \in ByPath(files)
                        THEN Append(first[i - 1], Named(files, StreamOrder[i]))
                        ELSE first[i - 1]
  <2>1. i \in 0..n /\ i # 0 OBVIOUS
  <2> QED BY <1>2, <2>1 DEF Ordering
<1>5. first[0] = <<>> BY <1>2 DEF Ordering
<1>6. ASSUME NEW i \in 1..n, StreamOrder[i] \in ByPath(files)
      PROVE  \E f \in Listed(files) :
               f.path = StreamOrder[i] /\ first[i] = Append(first[i - 1], f)
  <2>1. \E g \in files : g.path = StreamOrder[i] BY <1>6 DEF ByPath
  <2>2. Named(files, StreamOrder[i]) \in files /\ Named(files, StreamOrder[i]).path = StreamOrder[i]
    BY <2>1, Zenon DEF Named
  <2>3. StreamOrder[i] \in ToSet(StreamOrder) BY <1>1 DEF ToSet
  <2>4. first[i] = Append(first[i - 1], Named(files, StreamOrder[i])) BY <1>4, <1>6
  <2> QED BY <2>2, <2>3, <2>4 DEF Listed
<1> DEFINE Bad == {k \in Nat : k <= n /\ first[k] \notin Seq(Listed(files))}
<1>7. Bad = {}
  <2> SUFFICES ASSUME Bad # {} PROVE FALSE OBVIOUS
  <2>1. PICK k \in Bad : \A j \in Bad : k <= j
    <3>1. Bad \in SUBSET Nat OBVIOUS
    <3> HIDE DEF Bad
    <3> QED BY <3>1, Least
  <2>2. k \in 1..n
    <3>1. first[0] \in Seq(Listed(files)) BY <1>5
    <3>2. k # 0 BY <3>1
    <3> QED BY <3>2
  <2>3. first[k - 1] \in Seq(Listed(files)) BY <2>1, <2>2
  <2>4. CASE StreamOrder[k] \in ByPath(files)
    <3>1. PICK f \in Listed(files) : first[k] = Append(first[k - 1], f) BY <1>6, <2>2, <2>4
    <3>2. first[k] \in Seq(Listed(files)) BY <2>3, <3>1
    <3> QED BY <3>2
  <2>5. CASE StreamOrder[k] \notin ByPath(files) BY <1>4, <2>2, <2>3, <2>5
  <2> QED BY <2>4, <2>5
<1>8. \A i \in 0..n : first[i] \in Seq(Listed(files)) BY <1>7
<1>9. \A i \in 1..n : StreamOrder[i] \notin ByPath(files) => first[i] = first[i - 1] BY <1>4
<1>10. \A i \in 1..n : StreamOrder[i] \in ByPath(files) =>
         \E f \in files : f.path = StreamOrder[i] /\ first[i] = Append(first[i - 1], f)
  BY <1>6 DEF Listed
<1> QED BY <1>1, <1>3, <1>5, <1>8, <1>9, <1>10

\* No path stands in it twice.
LEMMA StreamDistinct ==
  ASSUME NEW files
  PROVE  Distinct(InStreamOrder(files), "path")
<1>1. PICK n, first :
        /\ n \in Nat
        /\ n = Len(StreamOrder) /\ DOMAIN StreamOrder = 1..n
        /\ InStreamOrder(files) = first[n]
        /\ first[0] = <<>>
        /\ \A i \in 0..n : first[i] \in Seq(Listed(files))
        /\ \A i \in 1..n :
            /\ StreamOrder[i] \in ByPath(files) =>
                \E f \in files : f.path = StreamOrder[i] /\ first[i] = Append(first[i - 1], f)
            /\ StreamOrder[i] \notin ByPath(files) => first[i] = first[i - 1]
  BY StreamSteps
<1> n \in Nat BY <1>1
<1> DEFINE Before(k) ==
             \A j \in 1..Len(first[k]) : \E i \in 1..k : first[k][j].path = StreamOrder[i]
           Once(k) == \A i, j \in 1..Len(first[k]) : first[k][i].path = first[k][j].path => i = j
           Bad == {k \in Nat : k <= n /\ ~(Before(k) /\ Once(k))}
<1>2. Bad = {}
  <2> SUFFICES ASSUME Bad # {} PROVE FALSE OBVIOUS
  <2>1. PICK k \in Bad : \A j \in Bad : k <= j
    <3>1. Bad \in SUBSET Nat OBVIOUS
    <3> HIDE DEF Bad
    <3> QED BY <3>1, Least
  <2>2. k \in 1..n
    <3>1. Before(0) /\ Once(0) BY <1>1
    <3> QED BY <3>1
  <2>3. Before(k - 1) /\ Once(k - 1)
    <3>1. k - 1 \in Nat /\ k - 1 <= n /\ ~(k <= k - 1) BY <2>2
    <3> HIDE DEF Before, Once
    <3> QED BY <2>1, <3>1
  <2>4. first[k - 1] \in Seq(Listed(files)) /\ first[k] \in Seq(Listed(files))
    <3>1. k - 1 \in 0..n /\ k \in 0..n BY <2>2
    <3> QED BY <1>1, <3>1
  <2>5. CASE StreamOrder[k] \notin ByPath(files)
    <3>1. first[k] = first[k - 1] BY <1>1, <2>2, <2>5
    <3>2. ASSUME NEW j \in 1..Len(first[k]) PROVE \E i \in 1..k : first[k][j].path = StreamOrder[i]
      <4>1. PICK i \in 1..(k - 1) : first[k][j].path = StreamOrder[i] BY <2>3, <3>1
      <4> QED BY <2>2, <4>1
    <3>3. Once(k) BY <2>3, <3>1
    <3> QED BY <3>2, <3>3
  <2>6. CASE StreamOrder[k] \in ByPath(files)
    <3>1. PICK f \in files : f.path = StreamOrder[k] /\ first[k] = Append(first[k - 1], f)
      BY <1>1, <2>2, <2>6
    <3>2. PICK l \in Nat : l = Len(first[k - 1]) BY <2>4
    <3>3. /\ Len(first[k]) = l + 1 /\ first[k][l + 1] = f
          /\ \A j \in 1..l : first[k][j] = first[k - 1][j]
      BY <2>4, <3>1, <3>2
    <3>4. \A j \in 1..l : first[k][j].path # StreamOrder[k]
      <4> SUFFICES ASSUME NEW j \in 1..l, first[k][j].path = StreamOrder[k] PROVE FALSE
        OBVIOUS
      <4>1. PICK i \in 1..(k - 1) : first[k - 1][j].path = StreamOrder[i] BY <2>3, <3>2
      <4>2. StreamOrder[i] = StreamOrder[k] BY <3>3, <4>1
      <4>3. i \in 1..n /\ i # k BY <2>2
      <4> QED BY <1>1, <2>2, <4>2, <4>3, PackageAssumption DEF IsInjective
    <3>5. Before(k)
      <4> SUFFICES ASSUME NEW j \in 1..(l + 1)
                   PROVE  \E i \in 1..k : first[k][j].path = StreamOrder[i]
        BY <3>3
      <4>1. CASE j = l + 1 BY <2>2, <3>1, <3>3, <4>1
      <4>2. CASE j # l + 1
        <5>1. j \in 1..l BY <4>2
        <5>2. PICK i \in 1..(k - 1) : first[k - 1][j].path = StreamOrder[i]
          BY <2>3, <3>2, <5>1
        <5> QED BY <2>2, <3>3, <5>1, <5>2
      <4> QED BY <4>1, <4>2
    <3>6. Once(k)
      <4>1. \A i, j \in 1..l : first[k][i].path = first[k][j].path => i = j
        BY <2>3, <3>2, <3>3
      <4> SUFFICES ASSUME NEW i \in 1..(l + 1), NEW j \in 1..(l + 1),
                          first[k][i].path = first[k][j].path
                   PROVE  i = j
        BY <3>3
      <4>2. (i \in 1..l \/ i = l + 1) /\ (j \in 1..l \/ j = l + 1) OBVIOUS
      <4> QED BY <3>1, <3>3, <3>4, <4>1, <4>2
    <3> QED BY <3>5, <3>6
  <2> QED BY <2>5, <2>6
<1>3. Once(n) BY <1>2
<1>4. first[n] \in Seq(Listed(files)) BY <1>1
<1>5. DOMAIN first[n] = 1..Len(first[n]) BY <1>4
<1> QED BY <1>1, <1>3, <1>5 DEF Distinct

\* What has a place in the order stands in the stream.
LEMMA StreamHolds ==
  ASSUME NEW files, NEW f \in files, f.path \in ToSet(StreamOrder)
  PROVE  f.path \in ByPath(ToSet(InStreamOrder(files)))
<1>1. PICK n, first :
        /\ n \in Nat
        /\ n = Len(StreamOrder) /\ DOMAIN StreamOrder = 1..n
        /\ InStreamOrder(files) = first[n]
        /\ first[0] = <<>>
        /\ \A i \in 0..n : first[i] \in Seq(Listed(files))
        /\ \A i \in 1..n :
            /\ StreamOrder[i] \in ByPath(files) =>
                \E g \in files : g.path = StreamOrder[i] /\ first[i] = Append(first[i - 1], g)
            /\ StreamOrder[i] \notin ByPath(files) => first[i] = first[i - 1]
  BY StreamSteps
<1> n \in Nat BY <1>1
<1>2. PICK i \in 1..n : StreamOrder[i] = f.path BY <1>1 DEF ToSet
<1>3. StreamOrder[i] \in ByPath(files) BY <1>2 DEF ByPath
<1> DEFINE At(k) == \E j \in 1..Len(first[k]) : first[k][j].path = f.path
           Bad == {k \in Nat : i <= k /\ k <= n /\ ~At(k)}
<1>4. ASSUME NEW k \in 1..n, NEW g, first[k] = Append(first[k - 1], g), At(k - 1) \/ g.path = f.path
      PROVE  At(k)
  <2>1. first[k - 1] \in Seq(Listed(files)) BY <1>1
  <2>2. PICK l \in Nat : l = Len(first[k - 1]) BY <2>1
  <2>3. /\ Len(first[k]) = l + 1 /\ first[k][l + 1] = g
        /\ \A j \in 1..l : first[k][j] = first[k - 1][j]
    BY <1>4, <2>1, <2>2
  <2>4. CASE g.path = f.path BY <2>3, <2>4
  <2>5. CASE At(k - 1)
    <3>1. PICK j \in 1..l : first[k - 1][j].path = f.path BY <2>2, <2>5
    <3> QED BY <2>3, <3>1
  <2> QED BY <1>4, <2>4, <2>5
<1>5. Bad = {}
  <2> SUFFICES ASSUME Bad # {} PROVE FALSE OBVIOUS
  <2>1. PICK k \in Bad : \A j \in Bad : k <= j
    <3>1. Bad \in SUBSET Nat OBVIOUS
    <3> HIDE DEF Bad
    <3> QED BY <3>1, Least
  <2>2. k \in 1..n /\ ~At(k) OBVIOUS
  <2>3. CASE k = i
    <3>1. PICK g \in files : g.path = StreamOrder[i] /\ first[i] = Append(first[i - 1], g)
      BY <1>1, <1>3
    <3> QED BY <1>2, <1>4, <2>2, <2>3, <3>1
  <2>4. CASE k # i
    <3>1. At(k - 1) BY <2>1, <2>2, <2>4
    <3>2. CASE StreamOrder[k] \in ByPath(files)
      <4>1. PICK g \in files : first[k] = Append(first[k - 1], g) BY <1>1, <2>2, <3>2
      <4> QED BY <1>4, <2>2, <3>1, <4>1
    <3>3. CASE StreamOrder[k] \notin ByPath(files)
      <4>1. first[k] = first[k - 1] BY <1>1, <2>2, <3>3
      <4> QED BY <2>2, <3>1, <4>1
    <3> QED BY <3>2, <3>3
  <2> QED BY <2>3, <2>4
<1>6. At(n) BY <1>5
<1>7. first[n] \in Seq(Listed(files)) BY <1>1
<1>8. DOMAIN first[n] = 1..Len(first[n]) BY <1>7
<1>9. PICK j \in DOMAIN first[n] : first[n][j].path = f.path BY <1>6, <1>8
<1> QED BY <1>1, <1>9 DEF ByPath, ToSet

\* Sequences laid end to end are a sequence of what they held.
LEMMA FlatteningExists ==
  ASSUME NEW seqs, NEW n \in Nat
  PROVE  \E f : f = [i \in 1..n |-> IF i = 1 THEN seqs[i] ELSE f[i - 1] \o seqs[i]]
<1> DEFINE Flat(k) ==
             \E f : f = [i \in 1..k |-> IF i = 1 THEN seqs[i] ELSE f[i - 1] \o seqs[i]]
           Lacking == {k \in Nat : ~Flat(k)}
<1> SUFFICES ASSUME Lacking # {} PROVE FALSE OBVIOUS
<1>1. PICK k \in Lacking : \A j \in Lacking : k <= j
  <2> HIDE DEF Flat
  <2> QED BY Least
<1>2. k # 0
  <2> DEFINE g == [i \in 1..0 |-> <<>>]
  <2>1. g = [i \in 1..0 |-> IF i = 1 THEN seqs[i] ELSE g[i - 1] \o seqs[i]] OBVIOUS
  <2>2. Flat(0) BY <2>1
  <2> QED BY <2>2
<1>3. Flat(k - 1)
  <2> HIDE DEF Flat
  <2> QED BY <1>1, <1>2
<1>4. PICK f : f = [i \in 1..(k - 1) |-> IF i = 1 THEN seqs[i] ELSE f[i - 1] \o seqs[i]]
  BY <1>3
<1> DEFINE g == [i \in 1..k |-> IF i = k THEN (IF k = 1 THEN seqs[k] ELSE f[k - 1] \o seqs[k])
                                ELSE f[i]]
<1>5. ASSUME NEW i \in 1..k
      PROVE  g[i] = IF i = 1 THEN seqs[i] ELSE g[i - 1] \o seqs[i]
  <2>1. CASE i = k
    <3>1. k # 1 => k - 1 \in 1..k /\ k - 1 # k BY <1>2
    <3> QED BY <1>2, <2>1, <3>1
  <2>2. CASE i # k
    <3>1. i \in 1..(k - 1) /\ g[i] = f[i] BY <2>2
    <3>2. f[i] = IF i = 1 THEN seqs[i] ELSE f[i - 1] \o seqs[i] BY <1>4, <3>1
    <3>3. i # 1 => i - 1 \in 1..k /\ i - 1 # k /\ g[i - 1] = f[i - 1] BY <3>1
    <3> HIDE DEF g
    <3> QED BY <3>1, <3>2, <3>3
  <2> QED BY <2>1, <2>2
<1>6. g = [i \in 1..k |-> IF i = 1 THEN seqs[i] ELSE g[i - 1] \o seqs[i]] BY <1>5
<1>7. Flat(k) BY <1>6
<1> QED BY <1>1, <1>7

\* What is laid end to end holds what the sequences held.
LEMMA FlattenedHolds ==
  ASSUME NEW S, NEW seqs \in Seq(Seq(S))
  PROVE  FlattenSeq(seqs) \in Seq(S)
<1>1. PICK n \in Nat : n = Len(seqs) /\ DOMAIN seqs = 1..n OBVIOUS
<1> DEFINE flat == CHOOSE f :
             f = [i \in 1..Len(seqs) |-> IF i = 1 THEN seqs[i] ELSE f[i - 1] \o seqs[i]]
<1>2. FlattenSeq(seqs) = IF Len(seqs) = 0 THEN seqs ELSE flat[Len(seqs)]
  BY Zenon DEF FlattenSeq
<1>3. flat = [i \in 1..n |-> IF i = 1 THEN seqs[i] ELSE flat[i - 1] \o seqs[i]]
  <2>1. \E f : f = [i \in 1..n |-> IF i = 1 THEN seqs[i] ELSE f[i - 1] \o seqs[i]]
    BY FlatteningExists
  <2> QED BY <1>1, <2>1, Zenon
<1> HIDE DEF flat
<1>4. CASE n = 0
  <2>1. seqs = <<>> BY <1>1, <1>4
  <2> QED BY <1>1, <1>2, <1>4, <2>1
<1>5. CASE n # 0
  <2> DEFINE Bad == {k \in Nat : k \in 1..n /\ flat[k] \notin Seq(S)}
  <2>1. Bad = {}
    <3> SUFFICES ASSUME Bad # {} PROVE FALSE OBVIOUS
    <3>1. PICK k \in Bad : \A j \in Bad : k <= j
      <4>1. Bad \in SUBSET Nat OBVIOUS
      <4> HIDE DEF Bad
      <4> QED BY <4>1, Least
    <3>2. k \in 1..n /\ seqs[k] \in Seq(S) BY <1>1
    <3>3. k # 1 BY <1>3, <3>2
    <3>4. k - 1 \in 1..n /\ flat[k - 1] \in Seq(S) BY <3>1, <3>2, <3>3
    <3>5. flat[k] = flat[k - 1] \o seqs[k] BY <1>3, <3>2, <3>3
    <3>6. flat[k] \in Seq(S) BY <3>2, <3>4, <3>5
    <3> QED BY <3>6
  <2>2. n \in 1..n BY <1>5
  <2> QED BY <1>1, <1>2, <1>5, <2>1, <2>2
<1> QED BY <1>4, <1>5

-----------------------------------------------------------------------------
(* The batches the builder cuts are as they have to be.                     *)

\* A batch that is not over a limit, and one that could not take one more.
Filled(files, b) ==
  /\ b.first > 0 /\ b.count > 0 /\ b.first + b.count - 1 <= Len(files)
  /\ b.bytes = Bytes(files, b.first, b.first + b.count - 1)
  /\ b.count <= BatchMaxFiles /\ (b.count > 1 => b.bytes <= BatchMaxBytes)

Closed(files, b) ==
  b.first + b.count <= Len(files) /\ b.count < BatchMaxFiles =>
    b.bytes + files[b.first + b.count].size > BatchMaxBytes

\* What the first i files are cut into.
CutUpTo(files, batches, i) ==
  /\ batches \in Seq(BatchRecords) /\ (batches = <<>> => i = 0)
  /\ \A k \in 1..Len(batches) :
      /\ k = 1 => batches[k].first = 1
      /\ k # 1 => batches[k].first = batches[k - 1].first + batches[k - 1].count
      /\ Filled(files, batches[k])
      /\ k # Len(batches) => Closed(files, batches[k])
      /\ k = Len(batches) => batches[k].first + batches[k].count = i + 1

\* The last batch takes one more file, and is as long as that makes it.
LEMMA FilledMore ==
  ASSUME NEW files, FileRecords(files), NEW b \in BatchRecords, NEW i \in 1..Len(files),
         Filled(files, b), b.first + b.count = i, b.count < BatchMaxFiles,
         b.bytes + files[i].size <= BatchMaxBytes,
         NEW more,
         more = [first |-> b.first, count |-> b.count + 1, bytes |-> b.bytes + files[i].size]
  PROVE  more \in BatchRecords /\ Filled(files, more) /\ more.first = b.first
         /\ more.first + more.count = i + 1
<1>1. PICK first, count, bytes, size, l \in Nat :
        /\ b = [first |-> first, count |-> count, bytes |-> bytes]
        /\ size = files[i].size /\ l = Len(files) /\ DOMAIN files = 1..l
  <2>1. files[i].size \in Nat /\ Len(files) \in Nat /\ DOMAIN files = 1..Len(files)
    BY DEF FileRecords, IsSequence, ToSet
  <2> QED BY <2>1 DEF BatchRecords
<1>2. more = [first |-> first, count |-> count + 1, bytes |-> bytes + size] BY <1>1
<1>3. /\ first > 0 /\ count > 0 /\ first + count = i /\ bytes = Bytes(files, first, i - 1)
      /\ count < BatchMaxFiles /\ bytes + size <= BatchMaxBytes /\ i <= l
  BY <1>1 DEF Filled
<1>4. Bytes(files, first, i) = bytes + size
  <2>1. first \in 1..(l + 1) /\ i - 1 \in (first - 1)..l /\ i - 1 < l /\ (i - 1) + 1 = i
    BY <1>1, <1>3
  <2>2. Bytes(files, first, (i - 1) + 1) = Bytes(files, first, i - 1) + files[(i - 1) + 1].size
    BY <1>1, <2>1, BytesGrow
  <2> QED BY <1>1, <1>3, <2>1, <2>2
<1>5. /\ more.first = first /\ more.count = count + 1 /\ more.bytes = bytes + size
      /\ more \in BatchRecords
  <2>1. count + 1 \in Nat /\ bytes + size \in Nat OBVIOUS
  <2>2. [first |-> first, count |-> count + 1, bytes |-> bytes + size] \in BatchRecords
    BY <2>1 DEF BatchRecords
  <2>3. more \in BatchRecords BY <1>2, <2>2, Zenon
  <2>4. more.first = first /\ more.count = count + 1 /\ more.bytes = bytes + size BY <1>2
  <2> QED BY <2>3, <2>4
<1>6. first + (count + 1) = i + 1 /\ first + (count + 1) - 1 = i /\ count + 1 <= BatchMaxFiles
  <2>1. BatchMaxFiles \in Nat BY MetadataAssumption
  <2>2. first + count = i /\ count < BatchMaxFiles BY <1>3
  <2>3. count + 1 <= BatchMaxFiles BY <2>1, <2>2
  <2>4. first + (count + 1) = i + 1 BY <2>2
  <2> QED BY <2>3, <2>4
<1>7. Filled(files, more)
  <2>1. /\ more.first > 0 /\ more.count > 0 /\ more.first + more.count - 1 = i
        /\ more.count <= BatchMaxFiles /\ more.bytes <= BatchMaxBytes
    BY <1>3, <1>5, <1>6
  <2>2. more.bytes = Bytes(files, more.first, i) /\ i <= Len(files) BY <1>4, <1>5
  <2> HIDE DEF Bytes
  <2> QED BY <2>1, <2>2 DEF Filled
<1> QED BY <1>1, <1>5, <1>6, <1>7

\* A batch of one file.
LEMMA FilledOne ==
  ASSUME NEW files, FileRecords(files), NEW i \in 1..Len(files),
         NEW one, one = [first |-> i, count |-> 1, bytes |-> files[i].size]
  PROVE  one \in BatchRecords /\ Filled(files, one) /\ one.first + one.count = i + 1
<1>1. PICK size, l \in Nat : size = files[i].size /\ l = Len(files)
  BY DEF FileRecords, IsSequence, ToSet
<1>2. one.first = i /\ one.count = 1 /\ one.bytes = size BY <1>1
<1>3. one \in BatchRecords BY <1>1 DEF BatchRecords
<1>4. Bytes(files, i, i) = size
  <2>1. i \in 1..(l + 1) /\ i - 1 \in (i - 1)..l /\ i - 1 < l /\ (i - 1) + 1 = i BY <1>1
  <2>2. Bytes(files, i, (i - 1) + 1) = Bytes(files, i, i - 1) + files[(i - 1) + 1].size
    BY <1>1, <2>1, BytesGrow
  <2>3. Bytes(files, i, i - 1) = 0
    <3>1. Sizes(files) \in Seq(Nat) /\ Len(Sizes(files)) = Len(files) BY SizesAreNumbers
    <3>2. Ends(Sizes(files))[i - 1] \in Nat BY <1>1, <3>1, EndsAreNumbers
    <3> QED BY <3>2 DEF Bytes
  <2> HIDE DEF Bytes
  <2> QED BY <1>1, <2>1, <2>2, <2>3
<1>5. i + 1 - 1 = i /\ 1 <= BatchMaxFiles /\ i <= l /\ i > 0 BY <1>1, MetadataAssumption
<1>6. Filled(files, one) BY <1>1, <1>2, <1>4, <1>5 DEF Filled
<1> QED BY <1>2, <1>3, <1>6

\* One more file keeps the cut one of the files read so far.
LEMMA CutStep ==
  ASSUME NEW files, FileRecords(files), NEW i \in 1..Len(files), NEW batches,
         CutUpTo(files, batches, i - 1)
  PROVE  CutUpTo(files, Batched(batches, files[i], i), i)
<1> DEFINE open == Last(batches)
           more == [open EXCEPT !.count = @ + 1, !.bytes = @ + files[i].size]
           one == [first |-> i, count |-> 1, bytes |-> files[i].size]
<1>1. PICK n \in Nat : n = Len(batches) /\ DOMAIN batches = 1..n BY DEF CutUpTo
<1>2. /\ batches \in Seq(BatchRecords) /\ (n = 0 => i - 1 = 0)
      /\ \A k \in 1..n :
          /\ k = 1 => batches[k].first = 1
          /\ k # 1 => batches[k].first = batches[k - 1].first + batches[k - 1].count
          /\ Filled(files, batches[k])
          /\ k # n => Closed(files, batches[k])
          /\ k = n => batches[k].first + batches[k].count = (i - 1) + 1
  BY <1>1 DEF CutUpTo
<1>3. n # 0 => open = batches[n] /\ n \in 1..n BY <1>1, <1>2 DEF Last
<1>4. CASE batches # <<>> /\ open.count < BatchMaxFiles /\ more.bytes <= BatchMaxBytes
  <2>1. n # 0 /\ open = batches[n] BY <1>1, <1>2, <1>3, <1>4
  <2>2. /\ open \in BatchRecords /\ Filled(files, open)
        /\ open.first + open.count = i
    <3>1. n \in 1..n /\ batches[n] \in BatchRecords BY <1>1, <1>2, <2>1
    <3>2. (i - 1) + 1 = i OBVIOUS
    <3> QED BY <1>2, <2>1, <3>1, <3>2
  <2>3. more.bytes = open.bytes + files[i].size BY <2>2 DEF BatchRecords
  <2>4. /\ more \in BatchRecords /\ Filled(files, more) /\ more.first = open.first
        /\ more.first + more.count = i + 1
    <3>1. more = [first |-> open.first, count |-> open.count + 1,
                  bytes |-> open.bytes + files[i].size]
      <4>1. PICK first, count, bytes \in Nat :
              open = [first |-> first, count |-> count, bytes |-> bytes]
        BY <2>2 DEF BatchRecords
      <4>2. [open EXCEPT !.count = @ + 1] = [first |-> first, count |-> count + 1, bytes |-> bytes]
        BY <4>1
      <4>3. more = [[first |-> first, count |-> count + 1, bytes |-> bytes]
                      EXCEPT !.bytes = open.bytes + files[i].size]
        BY <4>2
      <4>4. open.first = first /\ open.count = count BY <4>1
      <4> HIDE DEF open, more
      <4> QED BY <4>3, <4>4
    <3> HIDE DEF open, more
    <3>2. open.bytes + files[i].size <= BatchMaxBytes BY <1>4, <2>3
    <3> QED BY <1>4, <2>2, <3>1, <3>2, FilledMore
  <2> DEFINE cut == Append(Front(batches), more)
  <2>5. Batched(batches, files[i], i) = cut BY <1>4 DEF Batched
  <2> HIDE DEF open, more
  <2>6. /\ Front(batches) \in Seq(BatchRecords) /\ Len(Front(batches)) = n - 1
        /\ \A k \in 1..(n - 1) : Front(batches)[k] = batches[k]
    <3>1. 1 \in Int /\ n - 1 \in Int BY <2>1
    <3> HIDE DEF BatchRecords
    <3>2. \A k \in 1..(n - 1) : batches[k] \in BatchRecords BY <1>1, <1>2
    <3> QED BY <1>1, <1>2, <2>1, <3>1, <3>2, SubSeqProperties DEF Front
  <2>7. /\ cut \in Seq(BatchRecords) /\ Len(cut) = n /\ cut[n] = more
        /\ \A k \in 1..(n - 1) : cut[k] = batches[k]
    <3> HIDE DEF BatchRecords
    <3>1. n - 1 \in Nat /\ (n - 1) + 1 = n BY <2>1
    <3> QED BY <2>4, <2>6, <3>1
  <2> HIDE DEF cut
  <2>8. cut # <<>> BY <2>1, <2>7
  <2>9. ASSUME NEW k \in 1..n
        PROVE  /\ k = 1 => cut[k].first = 1
               /\ k # 1 => cut[k].first = cut[k - 1].first + cut[k - 1].count
               /\ Filled(files, cut[k])
               /\ k # n => Closed(files, cut[k])
               /\ k = n => cut[k].first + cut[k].count = i + 1
    <3>1. cut[k].first = batches[k].first
      <4>1. CASE k = n BY <2>1, <2>4, <2>7, <4>1
      <4>2. CASE k # n
        <5>1. k \in 1..(n - 1) BY <4>2
        <5> QED BY <2>7, <5>1
      <4> QED BY <4>1, <4>2
    <3>2. k # 1 => cut[k - 1] = batches[k - 1]
      <4>1. k # 1 => k - 1 \in 1..(n - 1) OBVIOUS
      <4> QED BY <2>7, <4>1
    <3>3. Filled(files, cut[k]) /\ (k # n => Closed(files, cut[k]))
      <4>1. CASE k = n BY <2>4, <2>7, <4>1
      <4>2. CASE k # n
        <5>1. k \in 1..(n - 1) BY <4>2
        <5> QED BY <1>2, <2>7, <4>2, <5>1
      <4> QED BY <4>1, <4>2
    <3> QED BY <1>2, <2>4, <2>7, <3>1, <3>2, <3>3
  <2>10. CutUpTo(files, cut, i) BY <2>7, <2>8, <2>9 DEF CutUpTo
  <2> QED BY <2>5, <2>10
<1>5. CASE ~(batches # <<>> /\ open.count < BatchMaxFiles /\ more.bytes <= BatchMaxBytes)
  <2> DEFINE cut == Append(batches, one)
  <2>1. Batched(batches, files[i], i) = cut BY <1>5 DEF Batched
  <2>2. one \in BatchRecords /\ Filled(files, one) /\ one.first + one.count = i + 1 /\ one.first = i
    BY FilledOne
  <2>3. ASSUME n # 0 PROVE Closed(files, batches[n]) /\ batches[n].first + batches[n].count = i
    <3>1. batches[n] \in BatchRecords /\ open = batches[n] BY <1>1, <1>2, <1>3, <2>3
    <3>2. batches[n].first + batches[n].count = i
      <4>1. (i - 1) + 1 = i OBVIOUS
      <4> QED BY <1>2, <1>3, <2>3, <4>1
    <3>3. batches # <<>> BY <1>1, <2>3
    <3>4. more.bytes = open.bytes + files[i].size BY <3>1 DEF BatchRecords
    <3>5. open.bytes \in Nat /\ files[i].size \in Nat
      BY <3>1 DEF BatchRecords, FileRecords, IsSequence, ToSet
    <3> HIDE DEF open, more
    <3>6. open.count < BatchMaxFiles => open.bytes + files[i].size > BatchMaxBytes
      BY <1>5, <3>3, <3>4, <3>5, MetadataAssumption
    <3> QED BY <3>1, <3>2, <3>6 DEF Closed
  <2> HIDE DEF one
  <2>4. /\ cut \in Seq(BatchRecords) /\ Len(cut) = n + 1 /\ cut[n + 1] = one
        /\ \A k \in 1..n : cut[k] = batches[k]
    <3> HIDE DEF BatchRecords
    <3> QED BY <1>1, <1>2, <2>2
  <2> HIDE DEF cut
  <2>5. cut # <<>> BY <1>1, <2>4
  <2>6. ASSUME NEW k \in 1..(n + 1)
        PROVE  /\ k = 1 => cut[k].first = 1
               /\ k # 1 => cut[k].first = cut[k - 1].first + cut[k - 1].count
               /\ Filled(files, cut[k])
               /\ k # n + 1 => Closed(files, cut[k])
               /\ k = n + 1 => cut[k].first + cut[k].count = i + 1
    <3>1. CASE k = n + 1
      <4>1. k # 1 => k - 1 = n /\ n # 0 /\ n \in 1..n BY <3>1
      <4>2. k = 1 => i = 1 BY <1>2, <3>1
      <4> QED BY <2>2, <2>3, <2>4, <3>1, <4>1, <4>2
    <3>2. CASE k # n + 1
      <4>1. k \in 1..n /\ (k # 1 => k - 1 \in 1..n) BY <3>2
      <4>2. cut[k] = batches[k] /\ (k # 1 => cut[k - 1] = batches[k - 1]) BY <2>4, <4>1
      <4>3. Closed(files, cut[k]) BY <1>2, <2>3, <4>1, <4>2
      <4> QED BY <1>2, <3>2, <4>1, <4>2, <4>3
    <3> QED BY <3>1, <3>2
  <2>7. CutUpTo(files, cut, i) BY <2>4, <2>5, <2>6 DEF CutUpTo
  <2> QED BY <2>1, <2>7
<1> QED BY <1>4, <1>5

\* The batches cut are the ones the metadata rules ask for.
LEMMA BatchesValid ==
  ASSUME NEW files, FileRecords(files)
  PROVE  ValidBatches(files, Batches(files))
<1>1. PICK n \in Nat : n = Len(files) /\ DOMAIN files = 1..n BY DEF FileRecords, IsSequence
<1> DEFINE upTo == CHOOSE f :
             f = [i \in 0..Len(files) |-> IF i = 0 THEN <<>> ELSE Batched(f[i - 1], files[i], i)]
           Bad == {k \in Nat : k <= n /\ ~CutUpTo(files, upTo[k], k)}
<1>2. upTo = [i \in 0..n |-> IF i = 0 THEN <<>> ELSE Batched(upTo[i - 1], files[i], i)]
  <2>1. \E f : f = [i \in 0..n |-> IF i = 0 THEN <<>> ELSE Batched(f[i - 1], files[i], i)]
    BY BatchesExist
  <2> QED BY <1>1, <2>1, Zenon
<1>3. Batches(files) = upTo[n] BY <1>1, Zenon DEF Batches
<1> HIDE DEF upTo
<1>4. Bad = {}
  <2> SUFFICES ASSUME Bad # {} PROVE FALSE OBVIOUS
  <2>1. PICK k \in Bad : \A j \in Bad : k <= j
    <3>1. Bad \in SUBSET Nat OBVIOUS
    <3> HIDE DEF Bad
    <3> QED BY <3>1, Least
  <2>2. k # 0
    <3>1. upTo[0] = <<>> BY <1>2
    <3>2. CutUpTo(files, <<>>, 0) BY DEF CutUpTo
    <3> QED BY <3>1, <3>2
  <2>3. k \in 1..Len(files) /\ CutUpTo(files, upTo[k - 1], k - 1)
    <3>1. k - 1 \in Nat /\ k - 1 <= n /\ ~(k <= k - 1) /\ k \in 1..Len(files) BY <1>1, <2>2
    <3> QED BY <2>1, <3>1
  <2>4. CutUpTo(files, Batched(upTo[k - 1], files[k], k), k) BY <2>3, CutStep
  <2>5. upTo[k] = Batched(upTo[k - 1], files[k], k) BY <1>2, <2>2
  <2> QED BY <2>4, <2>5
<1> DEFINE cut == Batches(files)
<1>5. CutUpTo(files, cut, n) BY <1>3, <1>4
<1> HIDE DEF cut
<1>6. PICK l \in Nat : l = Len(cut) /\ DOMAIN cut = 1..l /\ cut \in Seq(BatchRecords)
  BY <1>5 DEF CutUpTo
<1>7. \A k \in 1..l : /\ k = 1 => cut[k].first = 1
                      /\ k # 1 => cut[k].first = cut[k - 1].first + cut[k - 1].count
                      /\ Filled(files, cut[k])
                      /\ k # l => Closed(files, cut[k])
                      /\ k = l => cut[k].first + cut[k].count = n + 1
  BY <1>5, <1>6 DEF CutUpTo
<1>8. l = 0 => n = 0
  <2>1. l = 0 => cut = <<>> BY <1>6
  <2> QED BY <1>5, <2>1 DEF CutUpTo
<1>9. ASSUME NEW k \in 1..l PROVE ValidBatch(files, cut[k])
  <2>1. Closed(files, cut[k])
    <3>1. CASE k # l BY <1>7, <3>1
    <3>2. CASE k = l
      <4>1. cut[k].first + cut[k].count = n + 1 BY <1>7, <3>2
      <4>2. ~(n + 1 <= n) OBVIOUS
      <4> QED BY <1>1, <4>1, <4>2 DEF Closed
    <3> QED BY <3>1, <3>2
  <2>2. Filled(files, cut[k]) BY <1>7
  <2>3. PICK b \in BatchRecords : b = cut[k]
    <3> HIDE DEF BatchRecords
    <3> QED BY <1>6
  <2>4. b.first \in Nat /\ b.count \in Nat BY DEF BatchRecords
  <2> HIDE DEF Bytes
  <2>5. ValidBatch(files, b) BY <2>1, <2>2, <2>3, <2>4 DEF Filled, Closed, ValidBatch
  <2> QED BY <2>3, <2>5
<1>10. \A k \in DOMAIN cut :
         cut[k].first = IF k - 1 = 0 THEN 1 ELSE cut[k - 1].first + cut[k - 1].count
  <2>1. \A k \in 1..l : k - 1 = 0 <=> k = 1 OBVIOUS
  <2> QED BY <1>6, <1>7, <2>1
<1>11. (IF l = 0 THEN 1 ELSE cut[l].first + cut[l].count) = n + 1
  <2>1. CASE l = 0 BY <1>8, <2>1
  <2>2. CASE l # 0
    <3>1. l \in 1..l BY <2>2
    <3> QED BY <1>7, <2>2, <3>1
  <2> QED BY <2>1, <2>2
<1>12. ValidBatches(files, cut) BY <1>1, <1>6, <1>9, <1>10, <1>11 DEF ValidBatches
<1> QED BY <1>12 DEF cut

-----------------------------------------------------------------------------
(* The metadata of a manifest that was accepted, rule by rule: what the     *)
(* manifest was held to, or one of the causes it could not show.            *)

Describing(m) ==
  /\ stage = "describe" /\ BuildOK /\ Foreseen
  /\ ~Unforeseen(manifest, work.files, work.resolved)
  /\ m = MetadataFor(manifest, work.version, work.files, work.resolved)

\* What the metadata takes from the package and from its files.
LEMMA DescribedFields ==
  ASSUME NEW m, Describing(m)
  PROVE  /\ m.id = manifest.id /\ m.name = manifest.name /\ m.version = work.version
         /\ m.scopes = Scopes(manifest) /\ m.role = "installer" /\ m.payload = <<>>
         /\ m.roots = [s \in {"user", "machine"} |-> RootFor(manifest, s)]
         /\ m.files = [i \in DOMAIN work.files |->
                         [path |-> work.files[i].path, size |-> work.files[i].size,
                          when |-> work.files[i].when]]
         /\ m.directories = DirectoriesOf(work.files) /\ m.batches = Batches(work.files)
BY DEF Describing, MetadataFor

\* The tables it takes over, from the manifest or as they were resolved.
LEMMA DescribedTables ==
  ASSUME NEW m, Describing(m)
  PROVE  /\ m.options = manifest.options /\ m.shortcuts = NamedShortcuts(manifest)
         /\ m.path = Gate(manifest.path) /\ m.environment = manifest.environment
         /\ m.registry = manifest.registry /\ m.associations = manifest.associations
         /\ m.protocols = manifest.protocols /\ m.appPaths = manifest.appPaths
         /\ m.verbs = manifest.verbs /\ m.firewall = manifest.firewall
         /\ m.launch = manifest.launch /\ m.completions = work.resolved.completions
         /\ m.dependencies = work.resolved.dependencies
         /\ m.actions = work.resolved.actions /\ m.quiescence = work.resolved.quiescence
BY DEF Describing, MetadataFor

\* What was made certain before the metadata is made.
LEMMA DescribedManifest ==
  ASSUME NEW m, Describing(m)
  PROVE  /\ manifest \in Manifests /\ WellFormed(manifest) /\ Accepted(manifest)
         /\ FilesForeseen(manifest, work.files)
         /\ CompletionsForeseen(manifest, work.files, work.resolved.completions)
         /\ DependenciesForeseen(manifest, work.resolved.dependencies)
         /\ ValidPrograms(work.resolved)
         /\ Known(manifest, work.resolved.actions) /\ Known(manifest, work.resolved.quiescence)
         /\ Plain(work.version)
<1>1. /\ "describe" \in Accepting /\ "describe" \in Completing /\ "describe" \in Reserving
      /\ "describe" \in Described
  BY DEF Accepting, Completing, Reserving, Described
<1>2. stage = "describe" /\ BuildOK /\ Foreseen BY DEF Describing
<1>3. manifest \in Manifests /\ Accepted(manifest) BY <1>1, <1>2 DEF BuildOK
<1>4. WellFormed(manifest) BY <1>3, PackageAssumption
<1> QED BY <1>1, <1>2, <1>3, <1>4 DEF Foreseen, ProgramsForeseen

\* The files as the metadata lists them.
LEMMA DescribedFiles ==
  ASSUME NEW m, Describing(m)
  PROVE  /\ FileRecords(work.files)
         /\ \A f \in ToSet(work.files) : f.path \in ToSet(StreamOrder)
         /\ DOMAIN m.files = DOMAIN work.files /\ Len(m.files) = Len(work.files)
         /\ \A i \in DOMAIN work.files :
             /\ m.files[i].path = work.files[i].path /\ m.files[i].size = work.files[i].size
             /\ m.files[i].when = work.files[i].when /\ work.files[i] \in ToSet(work.files)
         /\ FilePaths(m) = ByPath(ToSet(work.files))
<1>1. stage = "describe" /\ BuildOK BY DEF Describing
<1>2. IsSequence(work.files) /\ \A f \in ToSet(work.files) : Packable(f)
  BY <1>1 DEF BuildOK, Completing, Reserving, Described
<1>3. FileRecords(work.files) BY <1>2 DEF FileRecords, Packable
<1>4. PICK n \in Nat : n = Len(work.files) /\ DOMAIN work.files = 1..n
  BY <1>2 DEF IsSequence
<1>5. m.files = [i \in 1..n |-> [path |-> work.files[i].path, size |-> work.files[i].size,
                                when |-> work.files[i].when]]
  BY <1>4, DescribedFields
<1>6. DOMAIN m.files = 1..n /\ Len(m.files) = n BY <1>4, <1>5
<1>7. \A i \in 1..n :
        /\ m.files[i].path = work.files[i].path /\ m.files[i].size = work.files[i].size
        /\ m.files[i].when = work.files[i].when /\ work.files[i] \in ToSet(work.files)
  <2>1. \A i \in 1..n : work.files[i] \in ToSet(work.files) BY <1>4 DEF ToSet
  <2> QED BY <1>5, <2>1
<1>8. FilePaths(m) = ByPath(ToSet(work.files))
  <2>1. FilePaths(m) = {work.files[i].path : i \in 1..n} BY <1>6, <1>7 DEF FilePaths
  <2>2. ToSet(work.files) = {work.files[i] : i \in 1..n} BY <1>4 DEF ToSet
  <2> QED BY <2>1, <2>2 DEF ByPath
<1> QED BY <1>2, <1>3, <1>4, <1>6, <1>7, <1>8 DEF Packable

\* There is a scope, and it is one of the two.
LEMMA ScopesAccepted ==
  ASSUME Accepted(manifest)
  PROVE  Scopes(manifest) # <<>> /\ ToSet(Scopes(manifest)) \subseteq {"user", "machine"}
<1>1. ToSet(manifest.scopes) \subseteq {"user", "machine"} BY DEF Accepted, AcceptedPackage
<1>2. ToSet(<<"user">>) = {"user"} BY DEF ToSet
<1> QED BY <1>1, <1>2 DEF Scopes

\* The package: a name, a version and a root for every scope.
LEMMA PackageMade ==
  ASSUME NEW m, Describing(m)
  PROVE  ValidPackage(m)
<1>1. /\ Accepted(manifest) /\ Plain(work.version)
      /\ ~Unforeseen(manifest, work.files, work.resolved)
  BY DescribedManifest DEF Describing
<1>2. Plain(manifest.id) /\ Plain(manifest.name) BY <1>1 DEF Accepted, AcceptedPackage
<1>3. ASSUME NEW s \in ToSet(m.scopes)
      PROVE  m.roots[s] # None /\ Plain(m.roots[s])
  <2>1. s \in ToSet(Scopes(manifest)) /\ s \in {"user", "machine"}
    BY <1>1, DescribedFields, ScopesAccepted
  <2>2. m.roots[s] = RootFor(manifest, s) BY <2>1, DescribedFields
  <2>3. manifest.roots[s] \notin Malformed BY <1>1, <2>1 DEF Unforeseen
  <2> QED BY <2>2, <2>3, ManifestAssumption DEF RootFor, Plain
<1> QED BY <1>1, <1>2, <1>3, DescribedFields, ScopesAccepted DEF ValidPackage

\* The files: valid paths outside the reserved directories, each once, with
\* every directory they need.
LEMMA FilesMade ==
  ASSUME NEW m, Describing(m)
  PROVE  ValidFiles(m)
<1>1. FilesForeseen(manifest, work.files) /\ ~Unforeseen(manifest, work.files, work.resolved)
  BY DescribedManifest DEF Describing
<1>2. ASSUME NEW i \in DOMAIN work.files
      PROVE  /\ ValidPath(work.files[i].path) /\ ~IsReserved(work.files[i].path)
             /\ work.files[i].path \in Seq(ToSet(work.files[i].path))
  <2>1. work.files[i] \in ToSet(work.files) BY DescribedFiles
  <2>2. Placed(manifest, work.files[i].path) /\ work.files[i].path \in ByPath(ToSet(work.files))
    BY <1>1, <2>1 DEF FilesForeseen, ByPath
  <2>3. \A c \in ToSet(manifest.completion) : ValidPath(InstalledScript(c.command))
    BY <1>1 DEF Unforeseen
  <2>4. ~IsReserved(work.files[i].path) BY <1>1, <2>2 DEF Unforeseen
  <2>5. ValidPath(work.files[i].path) BY <2>2, <2>3 DEF Placed
  <2>6. work.files[i].path \in Seq(ToSet(work.files[i].path))
    BY <2>1, DescribedFiles, PackageAssumption
  <2> QED BY <2>4, <2>5, <2>6
<1>3. Distinct(m.files, "path")
  <2>1. Distinct(work.files, "path") BY <1>1 DEF FilesForeseen
  <2> QED BY <2>1, DescribedFiles DEF Distinct
<1>4. m.directories = UNION {Parents(work.files[i].path) : i \in DOMAIN work.files}
  BY DescribedFields DEF DirectoriesOf
<1>5. ASSUME NEW i \in DOMAIN m.files
      PROVE  /\ ValidPath(m.files[i].path) /\ ~IsReserved(m.files[i].path)
             /\ Parents(m.files[i].path) \subseteq m.directories
  BY <1>2, <1>4, DescribedFiles
<1>6. ASSUME NEW path \in m.directories PROVE ValidPath(path)
  <2>1. PICK i \in DOMAIN work.files : path \in Parents(work.files[i].path) BY <1>4
  <2> DEFINE whole == work.files[i].path
  <2>2. ValidPath(whole) /\ whole \in Seq(ToSet(whole)) BY <1>2
  <2>3. PICK n \in 1..(Len(whole) - 1) : path = SubSeq(whole, 1, n) BY <2>1 DEF Parents
  <2> HIDE DEF whole
  <2>4. Len(whole) \in Nat /\ DOMAIN whole = 1..Len(whole) BY <2>2
  <2>5. Len(path) = n /\ DOMAIN path = 1..n /\ \A k \in 1..n : path[k] = whole[k]
    <3>1. 1 \in Int /\ n \in Int /\ \A k \in 1..n : whole[k] \in ToSet(whole)
      BY <2>4 DEF ToSet
    <3> QED BY <2>2, <2>3, <2>4, <3>1, SubSeqProperties
  <2>6. path # Root BY <2>5 DEF Root
  <2> QED BY <2>2, <2>4, <2>5, <2>6 DEF ValidPath
<1> QED BY <1>3, <1>5, <1>6 DEF ValidFiles

\* The batches, of the files as the metadata lists them.
LEMMA BatchesMade ==
  ASSUME NEW m, Describing(m)
  PROVE  ValidBatches(m.files, m.batches)
<1> DEFINE files == work.files
           made == m.files
           cut == Batches(files)
<1>1. FileRecords(files) /\ m.batches = cut BY DescribedFiles, DescribedFields
<1>2. PICK n \in Nat : n = Len(files) /\ DOMAIN files = 1..n
  BY <1>1 DEF FileRecords, IsSequence
<1>3. DOMAIN made = 1..n /\ Len(made) = n /\ \A i \in 1..n : made[i].size = files[i].size
  BY <1>2, DescribedFiles
<1>4. Sizes(made) = Sizes(files) BY <1>2, <1>3 DEF Sizes
<1>5. \A first, upto : Bytes(made, first, upto) = Bytes(files, first, upto)
  BY <1>4 DEF Bytes
<1>6. ValidBatches(files, cut) /\ cut \in Seq(BatchRecords)
  BY <1>1, BatchesValid, BatchesTyped
<1> HIDE DEF files, made, cut
<1>7. ASSUME NEW k \in DOMAIN cut PROVE ValidBatch(made, cut[k])
  <2>1. PICK b \in BatchRecords : b = cut[k]
    <3> HIDE DEF BatchRecords
    <3> QED BY <1>6
  <2>2. ValidBatch(files, b) BY <1>6, <2>1 DEF ValidBatches
  <2>3. b.first \in Nat /\ b.count \in Nat BY DEF BatchRecords
  <2>4. b.count > 0 /\ (b.first + b.count <= n => b.first + b.count \in 1..n)
    BY <2>2, <2>3 DEF ValidBatch
  <2> HIDE DEF Bytes
  <2>5. b.first + b.count <= n => made[b.first + b.count].size = files[b.first + b.count].size
    BY <1>3, <2>4
  <2>6. ValidBatch(made, b) BY <1>2, <1>3, <1>5, <2>2, <2>5 DEF ValidBatch
  <2> QED BY <2>1, <2>6
<1>8. ValidBatches(made, cut) BY <1>2, <1>3, <1>6, <1>7 DEF ValidBatches
<1> QED BY <1>1, <1>8 DEF made

\* A predicate the manifest's rules accept is one the metadata's know.
LEMMA ValueIsPredicate ==
  ASSUME NEW declared, NEW when, ValueKnown(declared, when)
  PROVE  PredicateKnown(declared, when)
BY DEF ValueKnown, PredicateKnown, Accepts, Spellings

\* Gating a table changes its predicates and nothing else.
LEMMA GatedEntries ==
  ASSUME NEW table, \A i \in DOMAIN table : "when" \in DOMAIN table[i]
  PROVE  /\ DOMAIN Gate(table) = DOMAIN table
         /\ \A i \in DOMAIN table :
             /\ DOMAIN Gate(table)[i] = DOMAIN table[i]
             /\ Gate(table)[i].when = PredicateOf(table[i])
             /\ \A field \in DOMAIN table[i] \ {"when"} : Gate(table)[i][field] = table[i][field]
BY DEF Gate

\* PATH entries as the metadata lists them.
LEMMA DescribedPaths ==
  ASSUME NEW m, Describing(m)
  PROVE  /\ DOMAIN m.path = DOMAIN manifest.path
         /\ \A i \in DOMAIN m.path :
             /\ m.path[i].when = PredicateOf(manifest.path[i])
             /\ m.path[i].entry = manifest.path[i].entry
<1>1. \A i \in DOMAIN manifest.path : {"entry", "when"} \subseteq DOMAIN manifest.path[i]
  BY DescribedManifest DEF WellFormed, ToSet
<1>2. m.path = Gate(manifest.path) BY DescribedTables
<1> QED BY <1>1, <1>2, GatedEntries

\* Shortcuts as the metadata lists them.
LEMMA DescribedShortcuts ==
  ASSUME NEW m, Describing(m)
  PROVE  /\ DOMAIN m.shortcuts = DOMAIN manifest.shortcuts
         /\ \A i \in DOMAIN m.shortcuts : LET s == manifest.shortcuts[i] IN
             /\ m.shortcuts[i].when = PredicateOf(s)
             /\ m.shortcuts[i].url = s.url /\ m.shortcuts[i].target = s.target
             /\ m.shortcuts[i].name = IF s.name = None THEN manifest.name ELSE s.name
<1> DEFINE gated == Gate(manifest.shortcuts)
<1>1. \A i \in DOMAIN manifest.shortcuts :
        {"name", "url", "target", "when"} \subseteq DOMAIN manifest.shortcuts[i]
  BY DescribedManifest DEF WellFormed, ToSet
<1>2. /\ DOMAIN gated = DOMAIN manifest.shortcuts
      /\ \A i \in DOMAIN gated :
          /\ DOMAIN gated[i] = DOMAIN manifest.shortcuts[i]
          /\ gated[i].when = PredicateOf(manifest.shortcuts[i])
          /\ gated[i].url = manifest.shortcuts[i].url
          /\ gated[i].target = manifest.shortcuts[i].target
          /\ gated[i].name = manifest.shortcuts[i].name
  BY <1>1, GatedEntries
<1>3. m.shortcuts = [i \in DOMAIN manifest.shortcuts |->
                        [gated[i] EXCEPT !.name = IF @ = None THEN manifest.name ELSE @]]
  BY DescribedTables DEF NamedShortcuts
<1> HIDE DEF gated
<1> QED BY <1>1, <1>2, <1>3

\* Whatever is gated names an option there is, at a value it can have.
LEMMA PredicatesMade ==
  ASSUME NEW m, Describing(m)
  PROVE  ValidPredicates(m)
<1>1. AcceptedPredicates(manifest) /\ m.options = manifest.options
  BY DescribedManifest, DescribedTables DEF Accepted
<1>2. /\ Known(manifest, work.files) /\ Known(manifest, work.resolved.completions)
      /\ Known(manifest, work.resolved.dependencies)
      /\ Known(manifest, work.resolved.actions) /\ Known(manifest, work.resolved.quiescence)
  BY DescribedManifest DEF FilesForeseen, CompletionsForeseen, DependenciesForeseen
<1>3. /\ Known(manifest, m.files) /\ Known(manifest, m.completions)
      /\ Known(manifest, m.dependencies) /\ Known(manifest, m.actions)
      /\ Known(manifest, m.quiescence)
  BY <1>2, DescribedFiles, DescribedTables DEF Known
<1>4. Known(manifest, m.shortcuts) /\ Known(manifest, m.path)
  BY <1>1, DescribedPaths, DescribedShortcuts, ValueIsPredicate DEF Known, AcceptedPredicates
<1>5. \A table \in Gated \ {"completions", "shortcuts", "path"} : Known(manifest, manifest[table])
  BY <1>1, ValueIsPredicate DEF Known, AcceptedPredicates
<1>6. /\ Known(manifest, m.environment) /\ Known(manifest, m.associations)
      /\ Known(manifest, m.protocols) /\ Known(manifest, m.appPaths)
      /\ Known(manifest, m.verbs) /\ Known(manifest, m.firewall) /\ Known(manifest, m.registry)
  BY <1>5, DescribedTables DEF Gated
<1>7. ASSUME NEW table \in Gated PROVE Known(manifest, m[table])
  BY <1>3, <1>4, <1>6 DEF Gated
<1> QED BY <1>1, <1>7 DEF Known, ValidPredicates

\* Shortcuts, PATH entries, variables, values, associations and protocols.
LEMMA IntegrationsMade ==
  ASSUME NEW m, Describing(m)
  PROVE  /\ ValidShortcuts(m) /\ ValidPaths(m) /\ ValidVariables(m) /\ ValidValues(m)
         /\ ValidAssociations(m) /\ ValidProtocols(m)
<1>1. Accepted(manifest) /\ ~Unforeseen(manifest, work.files, work.resolved)
  BY DescribedManifest DEF Describing
<1>2. ValidShortcuts(m)
  <2>1. Plain(manifest.name) BY <1>1 DEF Accepted, AcceptedPackage
  <2> QED BY <1>1, <2>1, DescribedShortcuts DEF Accepted, AcceptedShortcuts, ValidShortcuts
<1>3. ValidPaths(m)
  BY <1>1, DescribedPaths DEF Accepted, AcceptedPaths, Relative, ValidPaths
<1>4. ValidVariables(m)
  BY <1>1, DescribedTables DEF Accepted, AcceptedVariables, ValidVariables
<1>5. ValidValues(m)
  <2>1. m.registry = manifest.registry /\ m.scopes = Scopes(manifest)
    BY DescribedTables, DescribedFields
  <2>2. AcceptedValues(manifest) BY <1>1 DEF Accepted
  <2> QED BY <2>1, <2>2 DEF AcceptedValues, ValidValues
<1>6. ValidAssociations(m)
  <2>1. /\ manifest.associations \in Seq(ToSet(manifest.associations))
        /\ manifest.protocols \in Seq(ToSet(manifest.protocols))
    BY DescribedManifest DEF WellFormed, Tables
  <2>2. /\ \A a \in ToSet(manifest.associations) : Plain(a.progId)
        /\ \A u \in ToSet(manifest.protocols) : u.progId # None => Plain(u.progId)
    BY <1>1 DEF Accepted, AcceptedAssociations, AcceptedProtocols, ToSet
  <2> DEFINE first == manifest.associations
             second == manifest.protocols
             declared == first \o second
  <2>3. \A i \in DOMAIN declared : declared[i] \in ToSet(first) \cup ToSet(second)
    <3> DEFINE all == ToSet(first) \cup ToSet(second)
    <3>1. first \in Seq(all) /\ second \in Seq(all) BY <2>1
    <3> HIDE DEF all, first, second
    <3>2. declared \in Seq(all) BY <3>1
    <3> HIDE DEF declared
    <3> QED BY <3>2 DEF all
  <2> HIDE DEF declared
  <2>4. \A i \in DOMAIN declared : declared[i].progId # None => Plain(declared[i].progId)
    BY <2>2, <2>3
  <2>5. DistinctProgIds(declared) BY <1>1 DEF Unforeseen, declared
  <2>6. m.associations = first /\ m.protocols = second BY DescribedTables
  <2>7. declared = m.associations \o m.protocols BY <2>6 DEF declared
  <2>8. \A i \in DOMAIN m.associations : LET a == m.associations[i] IN
          /\ a.extensions # {} /\ \A e \in a.extensions : Plain(e)
          /\ ValidPath(a.executable)
    BY <1>1, <2>6 DEF Accepted, AcceptedAssociations
  <2> QED BY <2>4, <2>5, <2>7, <2>8 DEF ValidAssociations
<1>7. ValidProtocols(m)
  <2>1. Distinct(manifest.protocols, "scheme") BY <1>1 DEF Unforeseen
  <2> QED BY <1>1, <2>1, DescribedTables DEF Accepted, AcceptedProtocols, ValidProtocols
<1> QED BY <1>2, <1>3, <1>4, <1>5, <1>6, <1>7

\* Application paths, verbs, firewall rules and the program launched.
LEMMA ShellMade ==
  ASSUME NEW m, Describing(m)
  PROVE  ValidAppPaths(m) /\ ValidVerbs(m) /\ ValidRules(m) /\ ValidLaunch(m)
<1>1. Accepted(manifest) /\ ~Unforeseen(manifest, work.files, work.resolved)
  BY DescribedManifest DEF Describing
<1>2. ValidAppPaths(m)
  <2>1. \A i, j \in DOMAIN m.appPaths :
          Last(m.appPaths[i].executable) = Last(m.appPaths[j].executable) => i = j
    BY <1>1, DescribedTables DEF Unforeseen
  <2>2. IsInjective([i \in DOMAIN m.appPaths |-> Last(m.appPaths[i].executable)])
    BY <2>1 DEF IsInjective
  <2> QED BY <1>1, <2>2, DescribedTables DEF Accepted, AcceptedAppPaths, ValidAppPaths
<1>3. ValidVerbs(m)
  <2>1. \A i, j \in DOMAIN m.verbs :
          /\ m.verbs[i].target = m.verbs[j].target /\ m.verbs[i].verb = m.verbs[j].verb
          /\ m.verbs[i].extensions = m.verbs[j].extensions
          => i = j
    BY <1>1, DescribedTables DEF Unforeseen
  <2>2. IsInjective([i \in DOMAIN m.verbs |->
                        <<m.verbs[i].target, m.verbs[i].verb, m.verbs[i].extensions>>])
    BY <2>1 DEF IsInjective
  <2> QED BY <1>1, <2>2, DescribedTables DEF Accepted, AcceptedVerbs, ValidVerbs
<1>4. ValidRules(m)
  <2>1. Distinct(manifest.firewall, "name") /\ \A r \in ToSet(manifest.firewall) : Plain(r.name)
    BY <1>1 DEF Unforeseen
  <2>2. \A i \in DOMAIN manifest.firewall : Plain(manifest.firewall[i].name)
    BY <2>1 DEF ToSet
  <2> QED BY <1>1, <2>1, <2>2, DescribedTables DEF Accepted, AcceptedRules, ValidRules
<1>5. ValidLaunch(m)
  <2> SUFFICES ASSUME m.launch # None
               PROVE  /\ EndsIn(Executables, m.launch.executable)
                      /\ m.launch.executable \in FilePaths(m)
                      /\ m.launch.directory \in m.directories \cup {Root}
    BY DEF ValidLaunch
  <2>1. m.launch = manifest.launch /\ FilePaths(m) = ByPath(ToSet(work.files))
        /\ m.directories = DirectoriesOf(work.files)
    BY DescribedTables, DescribedFields, DescribedFiles
  <2>2. EndsIn(Executables, m.launch.executable) BY <1>1, <2>1 DEF Accepted, AcceptedLaunch
  <2>3. /\ m.launch.executable \in ByPath(ToSet(work.files))
        /\ m.launch.directory \in {Root} \cup UNION {Parents(p) : p \in ByPath(ToSet(work.files))}
    BY <1>1, <2>1 DEF Unforeseen
  <2>4. UNION {Parents(p) : p \in ByPath(ToSet(work.files))} = DirectoriesOf(work.files)
    BY DEF ByPath, ToSet, DirectoriesOf
  <2> QED BY <2>1, <2>2, <2>3, <2>4
<1> QED BY <1>2, <1>3, <1>4, <1>5

\* Completions: a packaged script, one for each command.
LEMMA ScriptsMade ==
  ASSUME NEW m, Describing(m)
  PROVE  ValidCompletions(m)
<1>1. /\ Accepted(manifest) /\ manifest \in Manifests
      /\ CompletionsForeseen(manifest, work.files, work.resolved.completions)
  BY DescribedManifest
<1>2. m.completions = work.resolved.completions /\ FilePaths(m) = ByPath(ToSet(work.files))
  BY DescribedTables, DescribedFiles
<1>3. ASSUME NEW i \in DOMAIN m.completions
      PROVE  /\ Plain(m.completions[i].command)
             /\ m.completions[i].script = InstalledScript(m.completions[i].command)
             /\ EndsIn(Scripts, m.completions[i].script) /\ m.completions[i].script \in FilePaths(m)
  <2>1. PICK c \in ToSet(manifest.completion) :
          /\ m.completions[i].command = c.command
          /\ m.completions[i].script = InstalledScript(c.command)
          /\ InstalledScript(c.command) \in ByPath(ToSet(work.files))
    BY <1>1, <1>2 DEF CompletionsForeseen
  <2>2. Plain(c.command) BY <1>1, <2>1 DEF Accepted, AcceptedCompletions, ToSet
  <2>3. ScriptName[c.command] \in Scripts BY <1>1, <2>1, PackageAssumption
  <2>4. EndsIn(Scripts, InstalledScript(c.command))
    BY <2>3 DEF EndsIn, InstalledScript, Last, Root
  <2> QED BY <1>2, <2>1, <2>2, <2>4
<1> QED BY <1>3 DEF ValidCompletions

\* Dependencies, and the programs the package runs.
LEMMA ProgramsMade ==
  ASSUME NEW m, Describing(m)
  PROVE  ValidDependencies(m) /\ ValidPrograms(m)
<1>1. /\ DependenciesForeseen(manifest, work.resolved.dependencies) /\ ValidPrograms(work.resolved)
      /\ ~Unforeseen(manifest, work.files, work.resolved)
  BY DescribedManifest DEF Describing
<1>2. ValidPrograms(m) BY <1>1, DescribedTables DEF ValidPrograms
<1>3. ASSUME NEW i \in DOMAIN m.dependencies
      PROVE  Plain(m.dependencies[i].id) /\ Plain(m.dependencies[i].minimum)
             /\ m.dependencies[i].detector /\ ValidAcquisition(m.dependencies[i])
  <2>1. m.dependencies = work.resolved.dependencies BY DescribedTables
  <2>2. /\ m.dependencies[i] \in ToSet(work.resolved.dependencies)
        /\ Admissible(manifest, m.dependencies[i])
    BY <1>1, <2>1 DEF DependenciesForeseen, ToSet
  <2> QED BY <1>1, <2>2 DEF Admissible, Unforeseen
<1>4. Distinct(m.dependencies, "id") BY <1>1, DescribedTables DEF DependenciesForeseen
<1> QED BY <1>2, <1>3, <1>4 DEF ValidDependencies

\* Metadata of an accepted manifest is valid, but for the named causes.
LEMMA MetadataMade ==
  ASSUME NEW m, Describing(m)
  PROVE  Valid(m)
<1>1. ValidIndex(m)
  <2>1. m.payload = <<>> BY DescribedFields
  <2>2. <<>> \in Seq({}) /\ Len(<<>>) = 0 OBVIOUS
  <2>3. DOMAIN m.payload = {} BY <2>1, <2>2
  <2> QED BY <2>1, <2>3 DEF ValidIndex, Distinct
<1>2. (\A i \in DOMAIN m.options : ValidOption(m.options[i])) /\ Distinct(m.options, "name")
  BY DescribedManifest, DescribedTables DEF Accepted, AcceptedOptions
<1> QED BY <1>1, <1>2, PackageMade, FilesMade, BatchesMade, PredicatesMade, IntegrationsMade,
           ShellMade, ScriptsMade, ProgramsMade DEF Valid

-----------------------------------------------------------------------------
(* What is foreseen, step by step of the build.                             *)

\* The predicates of the entries of a set.
LEMMA KnownSet ==
  ASSUME NEW mf, NEW table
  PROVE  Known(mf, table) <=> \A e \in ToSet(table) : PredicateKnown(mf.options, e.when)
BY DEF Known, ToSet

\* The predicates an accepted manifest names are declared there.
LEMMA AcceptedKnown ==
  ASSUME NEW mf, Accepted(mf)
  PROVE  /\ \A table \in Gated \ {"completions", "shortcuts", "path"} : Known(mf, mf[table])
         /\ \A table \in {"shortcuts", "path"} : \A i \in DOMAIN mf[table] :
             PredicateKnown(mf.options, PredicateOf(mf[table][i]))
BY ValueIsPredicate DEF Accepted, AcceptedPredicates, Known

\* The files chosen, in stream order.
LEMMA FilesAreForeseen ==
  ASSUME BuildOK, Accepted(manifest), \A f \in Chosen : ValidPath(f.path)
  PROVE  FilesForeseen(manifest, InStreamOrder(Chosen))
<1> DEFINE files == InStreamOrder(Chosen)
<1>1. Distinct(files, "path") BY StreamDistinct
<1>2. files \in Seq(Listed(Chosen)) BY StreamOrdered
<1> HIDE DEF files
<1>3. ToSet(files) \subseteq Chosen BY <1>2, SequenceOf DEF Listed
<1>4. Known(manifest, manifest.files) BY AcceptedKnown DEF Gated
<1>5. ASSUME NEW f \in ToSet(files)
      PROVE  PredicateKnown(manifest.options, f.when) /\ Placed(manifest, f.path)
  <2>1. f \in Chosen /\ ValidPath(f.path) BY <1>3
  <2>2. PICK i \in DOMAIN manifest.files : f.when = manifest.files[i].when
    BY <2>1 DEF Chosen
  <2> QED BY <1>4, <2>1, <2>2 DEF Known, Placed
<1>6. FilesForeseen(manifest, files) BY <1>1, <1>5, KnownSet DEF FilesForeseen
<1> QED BY <1>6 DEF files

\* The declarations of completions, one for each PATH entry of its executable.
Declared ==
  {[command |-> c.command, script |-> InstalledScript(c.command), when |-> PredicateOf(p)] :
     c \in ToSet(manifest.completion), p \in ToSet(manifest.path)}

\* The declarations of all completions are such declarations.
LEMMA DeclarationsHold ==
  ASSUME manifest \in Manifests
  PROVE  FlattenSeq([i \in DOMAIN manifest.completion |-> Declarations(manifest.completion[i])])
           \in Seq(Declared)
<1>1. WellFormed(manifest) BY PackageAssumption
<1>2. /\ manifest.completion \in Seq(ToSet(manifest.completion))
      /\ manifest.path \in Seq(ToSet(manifest.path))
  BY <1>1 DEF WellFormed, Tables
<1>3. PICK n \in Nat, k \in Nat :
        DOMAIN manifest.completion = 1..n /\ DOMAIN manifest.path = 1..k
  BY <1>2
<1>4. ASSUME NEW c \in ToSet(manifest.completion) PROVE Declarations(c) \in Seq(Declared)
  <2> DEFINE one(p) == [command |-> c.command, script |-> InstalledScript(c.command),
                        when |-> PredicateOf(p)]
             some(p) == IF p.entry = Front(c.executable) THEN <<one(p)>> ELSE <<>>
             all == [i \in 1..k |-> some(manifest.path[i])]
  <2>1. ASSUME NEW i \in 1..k PROVE some(manifest.path[i]) \in Seq(Declared)
    <3>1. manifest.path[i] \in ToSet(manifest.path) BY <1>3 DEF ToSet
    <3>2. one(manifest.path[i]) \in Declared BY <3>1 DEF Declared
    <3> HIDE DEF one
    <3> QED BY <3>2
  <2>2. Declarations(c) = FlattenSeq(all) BY <1>3 DEF Declarations
  <2> HIDE DEF some
  <2>3. all \in [1..k -> Seq(Declared)] BY <2>1
  <2> HIDE DEF all
  <2>4. all \in Seq(Seq(Declared)) BY <2>3
  <2> QED BY <2>2, <2>4, FlattenedHolds
<1> DEFINE all == [i \in 1..n |-> Declarations(manifest.completion[i])]
<1>5. all \in [1..n -> Seq(Declared)] BY <1>3, <1>4 DEF ToSet
<1>6. all = [i \in DOMAIN manifest.completion |-> Declarations(manifest.completion[i])]
  BY <1>3
<1> HIDE DEF all
<1>7. all \in Seq(Seq(Declared)) BY <1>5
<1> QED BY <1>6, <1>7, FlattenedHolds

\* The files with the completion scripts among them, and what declares those.
LEMMA CompletionsAreForeseen ==
  ASSUME BuildOK, stage = "completions", FilesForeseen(manifest, work.files),
         \A i \in DOMAIN manifest.completion : CompletionMakeable(manifest.completion[i]),
         NEW made,
         made = {CompletionFile(manifest.completion[i]) : i \in DOMAIN manifest.completion},
         NEW files, files = InStreamOrder(ToSet(work.files) \cup made),
         NEW table,
         table = FlattenSeq([i \in DOMAIN manifest.completion |->
                                Declarations(manifest.completion[i])])
  PROVE  FilesForeseen(manifest, files) /\ CompletionsForeseen(manifest, files, table)
<1>1. Distinct(files, "path") BY StreamDistinct
<1>2. files \in Seq(Listed(ToSet(work.files) \cup made)) BY StreamOrdered
<1>3. ToSet(files) \subseteq ToSet(work.files) \cup made
  <2> DEFINE all == ToSet(work.files) \cup made
  <2>1. files \in Seq(Listed(all)) /\ Listed(all) \subseteq all BY <1>2 DEF Listed
  <2> HIDE DEF all
  <2>2. ToSet(files) \subseteq Listed(all) BY <2>1, SequenceOf
  <2> QED BY <2>1, <2>2 DEF all
<1>4. ASSUME NEW i \in DOMAIN manifest.completion
      PROVE  LET c == manifest.completion[i]
                 f == CompletionFile(c)
             IN  /\ c \in ToSet(manifest.completion) /\ f.path = InstalledScript(c.command)
                 /\ PredicateKnown(manifest.options, f.when)
                 /\ InstalledScript(c.command) \in ByPath(ToSet(files))
  <2> DEFINE c == manifest.completion[i]
             f == CompletionFile(c)
  <2>1. c \in ToSet(manifest.completion) BY DEF ToSet
  <2>2. \E g \in ToSet(work.files) : g.path = c.executable BY DEF CompletionMakeable, ByPath
  <2>3. f \in made OBVIOUS
  <2> HIDE DEF c
  <2>4. Executable(c) \in ToSet(work.files) BY <2>2, Zenon DEF Executable
  <2>5. PredicateKnown(manifest.options, Executable(c).when)
    BY <2>4, KnownSet DEF FilesForeseen
  <2>6. f.path = InstalledScript(c.command) /\ f.when = Executable(c).when
    BY DEF CompletionFile
  <2> HIDE DEF f
  <2>7. InstalledScript(c.command) \in EntriesOf(manifest) BY DEF EntriesOf, c
  <2>8. InstalledScript(c.command) \in ToSet(StreamOrder)
    BY <2>7, PackageAssumption DEF BuildOK
  <2>9. f.path \in ByPath(ToSet(files)) BY <2>3, <2>6, <2>8, StreamHolds
  <2> QED BY <2>1, <2>5, <2>6, <2>9 DEF c, f
<1>5. ASSUME NEW f \in ToSet(files)
      PROVE  PredicateKnown(manifest.options, f.when) /\ Placed(manifest, f.path)
  <2>1. CASE f \in ToSet(work.files) BY <2>1, KnownSet DEF FilesForeseen
  <2>2. CASE f \in made BY <1>4, <2>2 DEF Placed
  <2> QED BY <1>3, <2>1, <2>2
<1>6. FilesForeseen(manifest, files) BY <1>1, <1>5, KnownSet DEF FilesForeseen
<1>7. ToSet(table) \subseteq Declared
  <2>1. table \in Seq(Declared) BY DeclarationsHold DEF BuildOK
  <2> QED BY <2>1, SequenceOf
<1>8. ASSUME NEW i \in DOMAIN table
      PROVE  /\ PredicateKnown(manifest.options, table[i].when)
             /\ \E c \in ToSet(manifest.completion) :
                 /\ table[i].command = c.command
                 /\ table[i].script = InstalledScript(c.command)
                 /\ InstalledScript(c.command) \in ByPath(ToSet(files))
  <2>1. table[i] \in Declared BY <1>7 DEF ToSet
  <2>2. PICK c \in ToSet(manifest.completion), p \in ToSet(manifest.path) :
          table[i] = [command |-> c.command, script |-> InstalledScript(c.command),
                      when |-> PredicateOf(p)]
    BY <2>1 DEF Declared
  <2>3. InstalledScript(c.command) \in ByPath(ToSet(files)) BY <1>4 DEF ToSet
  <2>4. PredicateKnown(manifest.options, PredicateOf(p))
    <3>1. \A j \in DOMAIN manifest.path :
            PredicateKnown(manifest.options, PredicateOf(manifest.path[j]))
      BY AcceptedKnown DEF BuildOK, Accepting, Completing
    <3> QED BY <3>1 DEF ToSet
  <2>5. /\ table[i].command = c.command /\ table[i].script = InstalledScript(c.command)
        /\ table[i].when = PredicateOf(p)
    BY <2>2
  <2> QED BY <2>3, <2>4, <2>5
<1>9. CompletionsForeseen(manifest, files, table) BY <1>8 DEF CompletionsForeseen, Known
<1> QED BY <1>6, <1>9

\* What of a dependency does not depend on where it comes from.
LEMMA DependencyFields ==
  ASSUME NEW d, NEW hash, NEW e, e = Hinted(Dependency(d), hash)
  PROVE  /\ e.id = d.id /\ e.minimum = d.minimum /\ e.detector = d.detector /\ e.when = d.when
         /\ d.file # None =>
             /\ e.source = "embedded" /\ e.entry = DependencyEntry(Last(d.file))
             /\ e.size = disk[d.file].len /\ e.sha256 = disk[d.file] /\ e.install = d.install
         /\ d.file = None /\ d.url # None =>
             e.source = "url" /\ e.url = d.url /\ e.sha256 = d.sha256
         /\ d.file = None /\ d.url = None =>
             /\ e.source = "winget"
             /\ e.package = IF d.winget # None THEN d.winget ELSE d.id
<1>1. PICK plain : plain = Dependency(d) OBVIOUS
<1>2. /\ plain.id = d.id /\ plain.minimum = d.minimum /\ plain.detector = d.detector
      /\ plain.when = d.when
      /\ plain.source = (IF d.file # None THEN "embedded"
                         ELSE IF d.url # None THEN "url" ELSE "winget")
      /\ plain.package = (IF d.winget # None THEN d.winget ELSE d.id)
      /\ plain.url = d.url /\ plain.install = d.install
      /\ d.file # None => /\ plain.entry = DependencyEntry(Last(d.file))
                          /\ plain.size = disk[d.file].len /\ plain.sha256 = disk[d.file]
      /\ d.file = None /\ d.url # None => plain.sha256 = d.sha256
      /\ DOMAIN plain = {"id", "minimum", "detector", "install", "source", "package", "url",
                         "entry", "size", "sha256", "when"}
  BY <1>1 DEF Dependency
<1>3. CASE plain.source # "winget"
  <2>1. e = plain BY <1>1, <1>3 DEF Hinted
  <2> QED BY <1>2, <1>3, <2>1
<1>4. CASE plain.source = "winget"
  <2>1. e = plain \/ e = [plain EXCEPT !.url = "hint", !.sha256 = hash, !.install = TRUE]
    BY <1>1 DEF Hinted
  <2>2. /\ e.id = plain.id /\ e.minimum = plain.minimum /\ e.detector = plain.detector
        /\ e.when = plain.when /\ e.source = plain.source /\ e.package = plain.package
    BY <1>2, <2>1
  <2> QED BY <1>2, <1>4, <2>2
<1> QED BY <1>3, <1>4

\* The first two of three.
LEMMA FirstTwo ==
  ASSUME NEW a, NEW b, NEW c
  PROVE  SubSeq(<<a, b, c>>, 1, 2) = <<a, b>>
<1> DEFINE s == <<a, b, c>>
           t == SubSeq(s, 1, 2)
<1>1. s \in Seq({a, b, c}) /\ Len(s) = 3 /\ s[1] = a /\ s[2] = b OBVIOUS
<1> HIDE DEF s
<1>2. t \in Seq({a, b, c}) /\ Len(t) = 2 /\ t[1] = s[1] /\ t[2] = s[2]
  BY <1>1, SubSeqProperties
<1> HIDE DEF t
<1>3. t = <<a, b>> BY <1>1, <1>2
<1> QED BY <1>3 DEF t, s

\* The entries reserved have the place the engine looks for them.
LEMMA ReservedPlace ==
  ASSUME NEW name
  PROVE  /\ IsDependencyEntry(DependencyEntry(name)) /\ IsActionEntry(ActionEntry(name))
         /\ Last(ActionEntry(name)) = name
<1> DEFINE p == DependencyEntry(name)
           q == ActionEntry(name)
<1>1. /\ p = <<".tigersetup", "dependencies", name>> /\ Len(p) = 3
      /\ q = <<".tigersetup", "actions", name>> /\ Len(q) = 3
  BY DEF DependencyEntry, ActionEntry
<1>2. SubSeq(p, 1, 2) = <<".tigersetup", "dependencies">> BY <1>1, FirstTwo
<1>3. SubSeq(q, 1, 2) = <<".tigersetup", "actions">> BY <1>1, FirstTwo
<1>4. Len(<<".tigersetup", "dependencies">>) = 2 /\ Len(<<".tigersetup", "actions">>) = 2
  OBVIOUS
<1>5. Last(q) = name BY <1>1 DEF Last
<1> QED BY <1>1, <1>2, <1>3, <1>4, <1>5 DEF Within, IsDependencyEntry, IsActionEntry

\* The dependencies, resolved with or without a hint of the catalog.
LEMMA DependenciesAreForeseen ==
  ASSUME BuildOK, Accepted(manifest),
         NEW declared, declared = manifest.dependencies,
         \A i \in DOMAIN declared : declared[i].file # None => Readable(declared[i].file),
         NEW hashes, NEW table,
         table = [i \in DOMAIN declared |-> Hinted(Dependency(declared[i]), hashes[i])]
  PROVE  DependenciesForeseen(manifest, table)
<1>1. AcceptedDependencies(manifest) BY DEF Accepted
<1>2. Known(manifest, declared) BY AcceptedKnown DEF Gated
<1>3. ASSUME NEW i \in DOMAIN declared
      PROVE  Admissible(manifest, table[i])
  <2> DEFINE d == declared[i]
             e == table[i]
  <2>1. e = Hinted(Dependency(d), hashes[i]) OBVIOUS
  <2>2. /\ Plain(d.id) /\ Plain(d.minimum) /\ d.detector
        /\ d.url # None => d.sha256 # None /\ Plain(d.sha256)
        /\ d.file # None => d.install
    BY <1>1 DEF AcceptedDependencies
  <2>3. d \in ToSet(manifest.dependencies) BY DEF ToSet
  <2>4. d.file # None =>
          /\ disk[d.file] # None /\ disk[d.file].len > 0
          /\ DependencyEntry(Last(d.file)) # None
    <3> SUFFICES ASSUME d.file # None PROVE DependencyEntry(Last(d.file)) # None
      BY DEF Readable
    <3>1. DependencyEntry(Last(d.file)) \in EntriesOf(manifest) BY DEF EntriesOf
    <3> QED BY <3>1, PackageAssumption DEF BuildOK
  <2> HIDE DEF d, e
  <2>5. Plain(e.id) /\ Plain(e.minimum) /\ e.detector BY <2>1, <2>2, DependencyFields
  <2>6. CASE d.file # None
    <3>1. /\ e.source = "embedded" /\ e.entry = DependencyEntry(Last(d.file))
          /\ e.size = disk[d.file].len /\ e.sha256 = disk[d.file] /\ e.install = d.install
      BY <2>1, <2>6, DependencyFields
    <3>2. IsDependencyEntry(e.entry) BY <3>1, ReservedPlace
    <3>3. ValidAcquisition(e) BY <2>2, <2>4, <2>6, <3>1, <3>2 DEF ValidAcquisition
    <3> QED BY <2>5, <3>3 DEF Admissible, e
  <2>7. CASE d.file = None /\ d.url # None
    <3>1. e.source = "url" /\ e.url = d.url /\ e.sha256 = d.sha256
      BY <2>1, <2>7, DependencyFields
    <3>2. Plain(d.url) => ValidAcquisition(e) BY <2>2, <2>7, <3>1 DEF ValidAcquisition
    <3> QED BY <2>3, <2>5, <3>2 DEF Admissible, e
  <2>8. CASE d.file = None /\ d.url = None
    <3>1. e.source = "winget" /\ e.package = IF d.winget # None THEN d.winget ELSE d.id
      BY <2>1, <2>8, DependencyFields
    <3>2. Plain(d.winget) /\ Plain(e.sha256) => ValidAcquisition(e)
      BY <2>2, <3>1 DEF ValidAcquisition
    <3> QED BY <2>3, <2>5, <3>1, <3>2 DEF Admissible, e
  <2> QED BY <2>6, <2>7, <2>8 DEF e
<1>4. \A i \in DOMAIN declared : table[i].id = declared[i].id /\ table[i].when = declared[i].when
  BY DependencyFields
<1>5. Distinct(table, "id")
  <2>1. Distinct(declared, "id") BY <1>1 DEF AcceptedDependencies
  <2> QED BY <1>4, <2>1 DEF Distinct
<1>6. Known(manifest, table) BY <1>2, <1>4 DEF Known
<1> QED BY <1>3, <1>5, <1>6 DEF DependenciesForeseen

\* A program that was accepted, resolved: a command it was declared with, or
\* an entry at which its source is packaged.
LEMMA ProgramFields ==
  ASSUME NEW a
  PROVE  /\ Program(a).name = a.name /\ Program(a).phase = a.phase /\ Program(a).kind = a.kind
         /\ Program(a).command = a.command /\ Program(a).directory = a.directory
         /\ Program(a).when = a.when
         /\ Program(a).runOn = IF a.runOn # None THEN a.runOn ELSE DefaultOperations(a.phase)
         /\ a.source = None =>
             Program(a).entry = None /\ Program(a).size = 0 /\ Program(a).sha256 = None
         /\ a.source # None =>
             /\ Program(a).entry = ActionEntry(Last(a.source))
             /\ Program(a).size = disk[a.source].len /\ Program(a).sha256 = disk[a.source]
BY DEF Program

\* The operations it runs on: its own, or those of its phase.
LEMMA OperationsMade ==
  ASSUME NEW a, AcceptedAction(a),
         \/ a.phase \in {"quiesce", "resume"} /\ a.runOn = None
         \/ a.phase \in {"pre-install", "post-install", "pre-uninstall", "post-uninstall"}
  PROVE  ValidOperations(Program(a))
<1>1. Program(a).phase = a.phase
      /\ Program(a).runOn = IF a.runOn # None THEN a.runOn ELSE DefaultOperations(a.phase)
  BY ProgramFields
<1>2. CASE a.phase \in {"quiesce", "resume"}
  BY <1>1, <1>2 DEF ValidOperations, DefaultOperations
<1>3. CASE a.phase \notin {"quiesce", "resume"} /\ a.runOn # None
  BY <1>1, <1>3 DEF ValidOperations, AcceptedAction
<1>4. CASE a.phase \in {"pre-install", "post-install"} /\ a.runOn = None
  <2>1. Program(a).runOn = <<"install", "upgrade", "reinstall">>
    BY <1>1, <1>4 DEF DefaultOperations
  <2>2. Allowed(a.phase) = Operations \ {"uninstall"} BY <1>4 DEF Allowed
  <2>3. DOMAIN <<"install", "upgrade", "reinstall">> = 1..3 OBVIOUS
  <2> QED BY <1>1, <1>4, <2>1, <2>2, <2>3 DEF ValidOperations, Operations, IsInjective
<1>5. CASE a.phase \in {"pre-uninstall", "post-uninstall"} /\ a.runOn = None
  <2>1. Program(a).runOn = <<"uninstall">> BY <1>1, <1>5 DEF DefaultOperations
  <2>2. Allowed(a.phase) = {"uninstall"} BY <1>5 DEF Allowed
  <2>3. DOMAIN <<"uninstall">> = 1..1 OBVIOUS
  <2> QED BY <1>1, <1>5, <2>1, <2>2, <2>3 DEF ValidOperations, IsInjective
<1> QED BY <1>2, <1>3, <1>4, <1>5

\* An accepted program resolved is a valid one: the file it is packaged from
\* was readable.
LEMMA ProgramMade ==
  ASSUME BuildOK, NEW a, AcceptedAction(a), a.source # None => Readable(a.source),
         a.source # None => a.source \in ProgramSources(manifest)
  PROVE  ValidProgram(Program(a))
<1> DEFINE p == Program(a)
<1>1. (a.command = None) # (a.source = None) BY DEF AcceptedAction
<1>2. a.phase = "post-uninstall" => ~NamesInstallRoot(a.directory) BY DEF AcceptedAction
<1>3. /\ p.phase = a.phase /\ p.kind = a.kind /\ p.command = a.command
      /\ p.directory = a.directory
      /\ a.source = None => p.entry = None /\ p.size = 0 /\ p.sha256 = None
      /\ a.source # None =>
          /\ p.entry = ActionEntry(Last(a.source))
          /\ p.size = disk[a.source].len /\ p.sha256 = disk[a.source]
  BY ProgramFields
<1> HIDE DEF p
<1>4. CASE a.source = None
  <2>1. KindAccepts(a.kind, Last(a.command))
        /\ (a.phase = "post-uninstall" => ~NamesInstallRoot(a.command))
    BY <1>1, <1>4 DEF AcceptedAction
  <2>2. ValidProgram(p) BY <1>1, <1>2, <1>3, <1>4, <2>1 DEF ValidProgram
  <2> QED BY <2>2 DEF p
<1>5. CASE a.source # None
  <2>1. KindAccepts(a.kind, Last(a.source)) BY <1>5 DEF AcceptedAction
  <2>2. ActionEntry(Last(a.source)) \in EntriesOf(manifest) BY <1>5 DEF EntriesOf
  <2>3. ActionEntry(Last(a.source)) # None BY <2>2, PackageAssumption DEF BuildOK
  <2>4. IsActionEntry(p.entry) /\ Last(p.entry) = Last(a.source)
    BY <1>3, <1>5, ReservedPlace
  <2>5. p.size > 0 /\ p.sha256 # None BY <1>3, <1>5 DEF Readable
  <2>6. p.entry # None /\ p.command = None BY <1>1, <1>3, <1>5, <2>3
  <2>7. ValidProgram(p) BY <1>2, <1>3, <2>1, <2>4, <2>5, <2>6 DEF ValidProgram
  <2> QED BY <2>7 DEF p
<1> QED BY <1>4, <1>5

\* Two names of two tables, laid end to end, are as distinct as the names of
\* what they are made of.
LEMMA DistinctTogether ==
  ASSUME NEW a, IsSequence(a), NEW b, IsSequence(b), Distinct(a \o b, "name"),
         NEW c, c \in Seq(ToSet(c)), NEW d, d \in Seq(ToSet(d)),
         DOMAIN c = DOMAIN a, DOMAIN d = DOMAIN b,
         \A i \in DOMAIN a : c[i].name = a[i].name, \A i \in DOMAIN b : d[i].name = b[i].name
  PROVE  Distinct(c \o d, "name")
<1>1. PICK n \in Nat, k \in Nat :
        n = Len(a) /\ DOMAIN a = 1..n /\ k = Len(b) /\ DOMAIN b = 1..k
  BY DEF IsSequence
<1>2. Len(c) = n /\ Len(d) = k BY <1>1
<1> DEFINE S == ToSet(a) \cup ToSet(b)
           T == ToSet(c) \cup ToSet(d)
<1>3. /\ a \o b \in Seq(S) /\ Len(a \o b) = n + k
      /\ \A i \in 1..(n + k) : (a \o b)[i] = IF i <= n THEN a[i] ELSE b[i - n]
  <2>1. a \in Seq(S) /\ b \in Seq(S) BY DEF IsSequence
  <2> HIDE DEF S
  <2> QED BY <1>1, <2>1, ConcatProperties
<1>4. /\ c \o d \in Seq(T) /\ Len(c \o d) = n + k
      /\ \A i \in 1..(n + k) : (c \o d)[i] = IF i <= n THEN c[i] ELSE d[i - n]
  <2>1. c \in Seq(T) /\ d \in Seq(T) OBVIOUS
  <2> HIDE DEF T
  <2> QED BY <1>2, <2>1, ConcatProperties
<1>5. DOMAIN (a \o b) = 1..(n + k) /\ DOMAIN (c \o d) = 1..(n + k)
  <2> HIDE DEF S, T
  <2> QED BY <1>1, <1>3, <1>4
<1>6. \A i \in 1..(n + k) : (c \o d)[i].name = (a \o b)[i].name
  <2> SUFFICES ASSUME NEW i \in 1..(n + k) PROVE (c \o d)[i].name = (a \o b)[i].name OBVIOUS
  <2>1. CASE i <= n
    <3>1. i \in DOMAIN a BY <1>1, <2>1
    <3> QED BY <1>3, <1>4, <2>1, <3>1
  <2>2. CASE ~(i <= n)
    <3>1. i - n \in DOMAIN b BY <1>1, <2>2
    <3> QED BY <1>3, <1>4, <2>2, <3>1
  <2> QED BY <2>1, <2>2
<1> QED BY <1>5, <1>6 DEF Distinct

\* The actions and the quiescence entries, resolved.
LEMMA ProgramsAreForeseen ==
  ASSUME BuildOK, Accepted(manifest), \A s \in ProgramSources(manifest) : Readable(s),
         NEW resolved,
         resolved.actions = [i \in DOMAIN manifest.actions |-> Program(manifest.actions[i])],
         resolved.quiescence =
           [i \in DOMAIN manifest.quiescence |-> QuiescenceOf(manifest.quiescence[i])]
  PROVE  ProgramsForeseen(manifest, resolved)
<1> DEFINE actions == manifest.actions
           quiescence == manifest.quiescence
<1>1. AcceptedPrograms(manifest) BY DEF Accepted
<1>2. Known(manifest, actions) /\ Known(manifest, quiescence) BY AcceptedKnown DEF Gated
<1>3. ASSUME NEW i \in DOMAIN actions
      PROVE  /\ ValidAction(Program(actions[i]))
             /\ Program(actions[i]).phase \notin {"quiesce", "resume"}
             /\ Program(actions[i]).name = actions[i].name
             /\ Program(actions[i]).when = actions[i].when
  <2> DEFINE a == actions[i]
  <2>1. /\ Plain(a.name) /\ AcceptedAction(a)
        /\ a.phase \in {"pre-install", "post-install", "pre-uninstall", "post-uninstall"}
    BY <1>1 DEF AcceptedPrograms
  <2>2. a.source # None => a.source \in ProgramSources(manifest)
    BY DEF ProgramSources, ToSet
  <2> HIDE DEF a
  <2>3. ValidOperations(Program(a)) /\ ValidProgram(Program(a))
    BY <2>1, <2>2, OperationsMade, ProgramMade
  <2>4. ValidAction(Program(a)) /\ Program(a).phase \notin {"quiesce", "resume"}
        /\ Program(a).name = a.name /\ Program(a).when = a.when
    BY <2>1, <2>3, ProgramFields DEF ValidAction
  <2> QED BY <2>4 DEF a
<1>4. ASSUME NEW i \in DOMAIN quiescence
      PROVE  /\ ValidQuiescence(QuiescenceOf(quiescence[i]))
             /\ QuiescenceOf(quiescence[i]).name = quiescence[i].name
             /\ QuiescenceOf(quiescence[i]).when = quiescence[i].when
  <2> DEFINE q == quiescence[i]
             stop == AsAction(q.stop, q.name, "quiesce")
             resume == AsAction(q.resume, q.name, "resume")
             e == QuiescenceOf(q)
  <2>1. /\ Plain(q.name)
        /\ q.runOn # None =>
            /\ q.runOn # <<>> /\ IsInjective(q.runOn) /\ ToSet(q.runOn) \subseteq Operations
        /\ q.notRunning \cap q.stop.success = {}
        /\ \A program \in ProgramsOf(q) : AcceptedAction(program)
    BY <1>1 DEF AcceptedPrograms
  <2>2. \A program \in ProgramsOf(q) :
          program.source # None => program.source \in ProgramSources(manifest)
    BY DEF ProgramSources
  <2> HIDE DEF q
  <2>3. \A program \in ProgramsOf(q) :
          /\ program.name = q.name /\ program.when = None /\ program.runOn = None
          /\ program.phase \in {"quiesce", "resume"}
    BY DEF ProgramsOf, AsAction
  <2>4. ASSUME NEW program \in ProgramsOf(q)
        PROVE  /\ ValidAction(Program(program)) /\ Program(program).name = q.name
               /\ Program(program).when = None /\ Program(program).phase = program.phase
    <3>1. ValidOperations(Program(program)) /\ ValidProgram(Program(program))
      BY <2>1, <2>2, <2>3, OperationsMade, ProgramMade
    <3> QED BY <2>1, <2>3, <3>1, ProgramFields DEF ValidAction
  <2>5. stop \in ProgramsOf(q) /\ stop.phase = "quiesce"
        /\ (q.resume # None => resume \in ProgramsOf(q) /\ resume.phase = "resume")
    BY DEF ProgramsOf, AsAction
  <2> HIDE DEF stop, resume
  <2>6. /\ e.name = q.name /\ e.when = q.when /\ e.stop = Program(stop)
        /\ e.runOn = (IF q.runOn = None THEN <<>> ELSE q.runOn)
        /\ e.resume = (IF q.resume = None THEN None ELSE Program(resume))
        /\ e.notRunning = q.notRunning /\ e.success = q.stop.success
    BY DEF QuiescenceOf, stop, resume
  <2> HIDE DEF e
  <2>7. ASSUME NEW program \in Programs(e)
        PROVE  /\ program.name = e.name /\ program.when = None
               /\ program.phase = (IF program = e.stop THEN "quiesce" ELSE "resume")
               /\ ValidAction(program)
    <3>1. CASE program = e.stop BY <2>4, <2>5, <2>6, <3>1
    <3>2. CASE program # e.stop
      <4>1. q.resume # None /\ program = Program(resume) BY <2>6, <3>2 DEF Programs
      <4> QED BY <2>4, <2>5, <2>6, <3>2, <4>1
    <3> QED BY <3>1, <3>2
  <2>8. IsInjective(e.runOn) /\ \A j \in DOMAIN e.runOn : e.runOn[j] \in Operations
    <3>1. CASE q.runOn = None
      <4>1. <<>> \in Seq({}) /\ Len(<<>>) = 0 OBVIOUS
      <4>2. DOMAIN e.runOn = {} BY <2>6, <3>1, <4>1
      <4> QED BY <4>2 DEF IsInjective
    <3>2. CASE q.runOn # None BY <2>1, <2>6, <3>2 DEF ToSet
    <3> QED BY <3>1, <3>2
  <2>9. ValidQuiescence(e) BY <2>1, <2>6, <2>7, <2>8 DEF ValidQuiescence
  <2> QED BY <2>6, <2>9 DEF e, q
<1> DEFINE first == resolved.actions
           second == resolved.quiescence
<1>5. IsSequence(actions) /\ IsSequence(quiescence)
  BY PackageAssumption DEF BuildOK, WellFormed, Tables, IsSequence
<1>6. /\ DOMAIN first = DOMAIN actions /\ DOMAIN second = DOMAIN quiescence
      /\ \A i \in DOMAIN actions : first[i] = Program(actions[i])
      /\ \A i \in DOMAIN quiescence : second[i] = QuiescenceOf(quiescence[i])
  OBVIOUS
<1>7. first \in Seq(ToSet(first)) /\ second \in Seq(ToSet(second))
  <2>1. PICK n \in Nat, k \in Nat : DOMAIN actions = 1..n /\ DOMAIN quiescence = 1..k
    BY <1>5 DEF IsSequence
  <2>2. first \in [1..n -> ToSet(first)] /\ second \in [1..k -> ToSet(second)]
    BY <1>6, <2>1 DEF ToSet
  <2> HIDE DEF first, second
  <2> QED BY <2>2
<1> HIDE DEF first, second
<1>8. Distinct(first \o second, "name")
  <2>1. Distinct(actions \o quiescence, "name") BY <1>1 DEF AcceptedPrograms
  <2> HIDE DEF actions, quiescence
  <2> QED BY <1>3, <1>4, <1>5, <1>6, <1>7, <2>1, DistinctTogether
<1>9. Known(manifest, first) /\ Known(manifest, second) BY <1>2, <1>3, <1>4, <1>6 DEF Known
<1>10. ValidPrograms(resolved) BY <1>3, <1>4, <1>6, <1>8 DEF ValidPrograms, first, second
<1> QED BY <1>9, <1>10 DEF ProgramsForeseen, first, second

-----------------------------------------------------------------------------
(* A build refuses its metadata only for cause.                             *)

\* Nothing is foreseen of a build before it has accepted the manifest, or
\* when it has composed the file or has ended.
LEMMA NothingForeseen ==
  ASSUME stage' \notin Accepting, stage' # "idle" => result' = "none"
  PROVE  Foreseen'
BY DEF Foreseen, Accepting, Completing, Reserving, Described

\* A build that ends leaves nothing to foresee.
LEMMA ForeseenEnds ==
  ASSUME stage' = "idle"
  PROVE  Foreseen'
BY NothingForeseen DEF Accepting, Completing, Reserving, Described, Writing

\* Nor does an edit of a source, or a step of the reader, change it.
LEMMA ForeseenStands ==
  ASSUME Foreseen, UNCHANGED <<manifest, stage, work, result>>
  PROVE  Foreseen'
<1>1. /\ manifest' = manifest /\ stage' = stage /\ result' = result /\ work' = work OBVIOUS
<1>2. UNCHANGED <<Accepting, Completing, Reserving, Described>>
  BY DEF Accepting, Completing, Reserving, Described, Writing
<1> QED BY <1>1, <1>2 DEF Foreseen

\* Each step of the build, from the manifest to the composed file.
LEMMA LoadForeseen ==
  ASSUME Foreseen, Load
  PROVE  Foreseen'
<1>1. CASE Fail BY <1>1, ForeseenEnds DEF Fail
<1>2. CASE ~Fail
  <2>1. Plain(Version) /\ Go("files") /\ work' = [NoWork EXCEPT !.version = Version]
    BY <1>2 DEF Load
  <2>2. stage' = "files" /\ result' = "none" BY <2>1 DEF Go, Foreseen, Load
  <2>3. work'.version = Version BY <2>1 DEF NoWork
  <2> QED BY <2>1, <2>2, <2>3
          DEF Foreseen, Accepting, Completing, Reserving, Described, Writing
<1> QED BY <1>1, <1>2

LEMMA ResolveFilesForeseen ==
  ASSUME BuildOK, Foreseen, ResolveFiles
  PROVE  Foreseen'
<1>1. CASE Fail BY <1>1, ForeseenEnds DEF Fail
<1>2. CASE ~Fail
  <2>1. /\ \A f \in Chosen : ValidPath(f.path)
        /\ Go("completions") /\ work' = [work EXCEPT !.files = InStreamOrder(Chosen)]
        /\ stage = "files" /\ manifest' = manifest
    BY <1>2 DEF ResolveFiles
  <2> DEFINE files == InStreamOrder(Chosen)
  <2>2. stage' = "completions" /\ result' = "none" /\ Plain(work.version) /\ Accepted(manifest)
    BY <2>1 DEF Go, Foreseen, BuildOK, Accepting
  <2>3. FilesForeseen(manifest, files) BY <2>1, <2>2, FilesAreForeseen
  <2> HIDE DEF files
  <2>4. work'.files = files /\ work'.version = work.version
    BY <2>1 DEF BuildOK, WorkFields, files
  <2> QED BY <2>1, <2>2, <2>3, <2>4
          DEF Foreseen, Accepting, Completing, Reserving, Described, Writing
<1> QED BY <1>1, <1>2

LEMMA ResolveCompletionsForeseen ==
  ASSUME BuildOK, Foreseen, ResolveCompletions
  PROVE  Foreseen'
<1>1. CASE Fail BY <1>1, ForeseenEnds DEF Fail
<1>2. CASE ~Fail
  <2> DEFINE made == {CompletionFile(manifest.completion[i]) : i \in DOMAIN manifest.completion}
             files == InStreamOrder(ToSet(work.files) \cup made)
             declared == FlattenSeq([i \in DOMAIN manifest.completion |->
                                       Declarations(manifest.completion[i])])
  <2>1. /\ \A i \in DOMAIN manifest.completion : CompletionMakeable(manifest.completion[i])
        /\ Go("dependencies") /\ stage = "completions" /\ manifest' = manifest
        /\ work' = [work EXCEPT !.files = files, !.resolved.completions = declared]
    BY <1>2 DEF ResolveCompletions
  <2>2. /\ stage' = "dependencies" /\ result' = "none"
        /\ Plain(work.version) /\ FilesForeseen(manifest, work.files)
    BY <2>1 DEF Go, Foreseen, Accepting, Completing
  <2>3. /\ FilesForeseen(manifest, files)
        /\ CompletionsForeseen(manifest, files, declared)
    BY <2>1, <2>2, CompletionsAreForeseen
  <2> HIDE DEF files, declared
  <2>4. /\ work'.files = files /\ work'.version = work.version
        /\ work'.resolved = [work.resolved EXCEPT !.completions = declared]
    BY <2>1 DEF BuildOK, WorkFields
  <2>5. work'.resolved.completions = declared BY <2>4 DEF BuildOK, ResolvedFields
  <2> QED BY <2>1, <2>2, <2>3, <2>4, <2>5
          DEF Foreseen, Accepting, Completing, Reserving, Described, Writing
<1> QED BY <1>1, <1>2

LEMMA ResolveDependenciesForeseen ==
  ASSUME BuildOK, Foreseen, ResolveDependencies
  PROVE  Foreseen'
<1>1. CASE Fail BY <1>1, ForeseenEnds DEF Fail
<1>2. CASE ~Fail
  <2> DEFINE declared == manifest.dependencies
             own == {i \in DOMAIN declared : declared[i].file # None}
             reserved == {[entry |-> DependencyEntry(Last(declared[i].file)),
                           source |-> declared[i].file] : i \in own}
  <2>1. /\ \A i \in own : Readable(declared[i].file)
        /\ Go("actions") /\ stage = "dependencies" /\ manifest' = manifest
    BY <1>2 DEF ResolveDependencies
  <2>2. PICK hashes \in [DOMAIN declared -> Catalogued] :
          work' = [work EXCEPT
                     !.reserved = reserved,
                     !.resolved.dependencies =
                        [i \in DOMAIN declared |-> Hinted(Dependency(declared[i]), hashes[i])]]
    BY <1>2 DEF ResolveDependencies
  <2> DEFINE table == [i \in DOMAIN declared |-> Hinted(Dependency(declared[i]), hashes[i])]
  <2>3. /\ stage' = "actions" /\ result' = "none" /\ Accepted(manifest)
        /\ Plain(work.version) /\ FilesForeseen(manifest, work.files)
        /\ CompletionsForeseen(manifest, work.files, work.resolved.completions)
    BY <2>1 DEF Go, Foreseen, BuildOK, Accepting, Completing
  <2>4. DependenciesForeseen(manifest, table) BY <2>1, <2>3, DependenciesAreForeseen
  <2> HIDE DEF reserved, table
  <2>5. work' = [work EXCEPT !.reserved = reserved, !.resolved.dependencies = table]
    BY <2>2 DEF table
  <2>6. /\ work'.files = work.files /\ work'.version = work.version
        /\ work'.resolved = [work.resolved EXCEPT !.dependencies = table]
    BY <2>5 DEF BuildOK, WorkFields
  <2>7. /\ work'.resolved.dependencies = table
        /\ work'.resolved.completions = work.resolved.completions
    BY <2>6 DEF BuildOK, ResolvedFields
  <2> QED BY <2>1, <2>3, <2>4, <2>6, <2>7
          DEF Foreseen, Accepting, Completing, Reserving, Described, Writing
<1> QED BY <1>1, <1>2

LEMMA ResolveActionsForeseen ==
  ASSUME BuildOK, Foreseen, ResolveActions
  PROVE  Foreseen'
<1>1. CASE Fail BY <1>1, ForeseenEnds DEF Fail
<1>2. CASE ~Fail
  <2> DEFINE packaged == ProgramSources(manifest)
             reserved == work.reserved \cup {[entry |-> ActionEntry(Last(s)), source |-> s] :
                                                s \in packaged}
             actions == [i \in DOMAIN manifest.actions |-> Program(manifest.actions[i])]
             quiescence == [i \in DOMAIN manifest.quiescence |->
                              QuiescenceOf(manifest.quiescence[i])]
  <2>1. /\ \A s \in packaged : Readable(s)
        /\ Go("describe") /\ stage = "actions" /\ manifest' = manifest
        /\ work' = [work EXCEPT !.reserved = reserved, !.resolved.actions = actions,
                                !.resolved.quiescence = quiescence]
    BY <1>2 DEF ResolveActions
  <2>2. /\ stage' = "describe" /\ result' = "none" /\ Accepted(manifest)
        /\ Plain(work.version) /\ FilesForeseen(manifest, work.files)
        /\ CompletionsForeseen(manifest, work.files, work.resolved.completions)
        /\ DependenciesForeseen(manifest, work.resolved.dependencies)
    BY <2>1 DEF Go, Foreseen, BuildOK, Accepting, Completing, Reserving
  <2> HIDE DEF reserved, packaged
  <2>3. /\ work'.files = work.files /\ work'.version = work.version
        /\ work'.resolved = [work.resolved EXCEPT !.actions = actions,
                                                  !.quiescence = quiescence]
    BY <2>1 DEF BuildOK, WorkFields
  <2> HIDE DEF actions, quiescence
  <2>4. /\ work'.resolved.actions = actions /\ work'.resolved.quiescence = quiescence
        /\ work'.resolved.completions = work.resolved.completions
        /\ work'.resolved.dependencies = work.resolved.dependencies
    BY <2>3 DEF BuildOK, ResolvedFields
  <2>5. ProgramsForeseen(manifest, work'.resolved)
    <3>1. PICK resolved : resolved = work'.resolved OBVIOUS
    <3>2. ProgramsForeseen(manifest, resolved)
      BY <2>1, <2>2, <2>4, <3>1, ProgramsAreForeseen DEF packaged, actions, quiescence
    <3> QED BY <3>1, <3>2
  <2> QED BY <2>1, <2>2, <2>3, <2>4, <2>5
          DEF Foreseen, Accepting, Completing, Reserving, Described, Writing
<1> QED BY <1>1, <1>2

\* What is described and measured is what was resolved.
LEMMA ForeseenKept ==
  ASSUME Foreseen, stage \in {"describe", "measure"}, stage' \in {"measure", "write"},
         UNCHANGED <<manifest, result>>, work'.files = work.files,
         work'.version = work.version, work'.resolved = work.resolved
  PROVE  Foreseen'
BY DEF Foreseen, Accepting, Completing, Reserving, Described, Writing

LEMMA DescribeForeseen ==
  ASSUME BuildOK, Foreseen, Describe
  PROVE  Foreseen'
<1>1. CASE Fail BY <1>1, ForeseenEnds DEF Fail
<1>2. CASE ~Fail
  <2> DEFINE m == MetadataFor(manifest, work.version, work.files, work.resolved)
  <2>1. /\ Go("measure") /\ work' = [work EXCEPT !.metadata = m]
        /\ stage = "describe" /\ manifest' = manifest
    BY <1>2 DEF Describe
  <2> HIDE DEF m
  <2>2. /\ work'.files = work.files /\ work'.resolved = work.resolved
        /\ work'.version = work.version
    BY <2>1 DEF BuildOK, WorkFields
  <2> QED BY <2>1, <2>2, ForeseenKept DEF Go
<1> QED BY <1>1, <1>2

LEMMA MeasureForeseen ==
  ASSUME BuildOK, Foreseen, Measure
  PROVE  Foreseen'
<1>1. CASE Fail BY <1>1, ForeseenEnds DEF Fail
<1>2. CASE ~Fail
  <2> DEFINE pledged == Total(Payload)
  <2>1. /\ Go("write") /\ work' = [work EXCEPT !.pledged = pledged]
        /\ stage = "measure" /\ manifest' = manifest
    BY <1>2 DEF Measure
  <2> HIDE DEF pledged
  <2>2. /\ work'.files = work.files /\ work'.resolved = work.resolved
        /\ work'.version = work.version
    BY <2>1 DEF BuildOK, WorkFields
  <2> QED BY <2>1, <2>2, ForeseenKept DEF Go
<1> QED BY <1>1, <1>2

\* The file is composed: there is nothing left to foresee but the success.
LEMMA WrittenForeseen ==
  ASSUME Foreseen, Write \/ RemoveOld \/ Rename
  PROVE  Foreseen'
<1>1. CASE Fail BY <1>1, ForeseenEnds DEF Fail
<1>2. CASE ~Fail
  <2>1. stage # "idle" /\ stage' \in {"remove", "rename", "verify"} /\ UNCHANGED result
    BY <1>2 DEF Write, RemoveOld, Rename, Go
  <2>2. result' = "none" BY <2>1 DEF Foreseen
  <2> QED BY <2>1, <2>2, NothingForeseen
          DEF Accepting, Completing, Reserving, Described, Writing
<1> QED BY <1>1, <1>2

LEMMA ForeseenInit == Init => Foreseen
BY DEF Init, Foreseen, Accepting, Completing, Reserving, Described, Writing

\* No step of anyone breaks what is foreseen.
LEMMA ForeseenNext == BuildOK /\ Foreseen /\ [Next]_vars => Foreseen'
<1> SUFFICES ASSUME BuildOK, Foreseen, [Next]_vars PROVE Foreseen' OBVIOUS
<1>1. CASE Begin
  BY <1>1, NothingForeseen DEF Begin, Accepting, Completing, Reserving, Described, Writing
<1>2. CASE Load BY <1>2, LoadForeseen
<1>3. CASE ResolveFiles BY <1>3, ResolveFilesForeseen
<1>4. CASE ResolveCompletions BY <1>4, ResolveCompletionsForeseen
<1>5. CASE ResolveDependencies BY <1>5, ResolveDependenciesForeseen
<1>6. CASE ResolveActions BY <1>6, ResolveActionsForeseen
<1>7. CASE Describe BY <1>7, DescribeForeseen
<1>8. CASE Measure BY <1>8, MeasureForeseen
<1>9. CASE Write \/ RemoveOld \/ Rename BY <1>9, WrittenForeseen
<1>10. CASE Verify \/ Crash BY <1>10, ForeseenEnds DEF Verify, Crash, Fail
<1>11. CASE Edit BY <1>11, ForeseenStands DEF Edit
<1>12. CASE UNCHANGED buildVars BY <1>12, ForeseenStands DEF buildVars
<1>13. Deliver \/ RunEngine \/ Open \/ ReadEntry \/ KeepUninstaller \/ UNCHANGED vars =>
         UNCHANGED buildVars
  BY DEF Deliver, RunEngine, Open, ReadEntry, KeepUninstaller, vars
<1> QED BY <1>1, <1>2, <1>3, <1>4, <1>5, <1>6, <1>7, <1>8, <1>9, <1>10, <1>11, <1>12, <1>13
        DEF Next

\* Metadata the builder made of a manifest it had accepted is refused for a
\* cause the manifest could not show, and for no other: the rules a manifest
\* is held to and the steps that resolve it leave no other room (manifest.rs
\* 1217-1283, builder.rs 589-733, metadata.rs 877-1050).
THEOREM RefusedOnlyForCause == Spec => RefusedForCause
<1> DEFINE Cause == stage = "describe" /\ result' = "describe" =>
                      Unforeseen(manifest, work.files, work.resolved)
<1>1. Init => Foreseen BY ForeseenInit
<1>2. IInv /\ Foreseen /\ [Next]_vars => Foreseen' BY ForeseenNext DEF IInv
<1>3. IInv /\ Foreseen /\ [Next]_vars => [Cause]_vars
  <2> SUFFICES ASSUME IInv, Foreseen, [Next]_vars, stage = "describe", result' = "describe",
                      ~Unforeseen(manifest, work.files, work.resolved)
               PROVE FALSE
    OBVIOUS
  <2> DEFINE m == MetadataFor(manifest, work.version, work.files, work.resolved)
  <2>1. BuildOK /\ result = "none" BY DEF IInv, Foreseen
  <2>2. Describing(m) BY <2>1 DEF Describing
  <2> HIDE DEF m
  <2>3. Valid(m) BY <2>2, MetadataMade
  <2>4. Describe
    BY <2>1 DEF Next, vars, buildVars, Begin, Load, ResolveFiles, ResolveCompletions,
           ResolveDependencies, ResolveActions, Measure, Write, RemoveOld, Rename, Verify,
           Crash, Edit, Deliver, RunEngine, Open, ReadEntry, KeepUninstaller
  <2>5. Go("measure") BY <2>3, <2>4 DEF Describe, m
  <2> QED BY <2>1, <2>5 DEF Go
<1> QED BY <1>1, <1>2, <1>3, PackageInvariance, PTL DEF Spec, RefusedForCause

-----------------------------------------------------------------------------
(* Sequences and what they hold.                                            *)

LEMMA SequenceShape ==
  ASSUME NEW list, IsSequence(list)
  PROVE  /\ Len(list) \in Nat /\ DOMAIN list = 1..Len(list)
         /\ \A i \in 1..Len(list) : list[i] \in ToSet(list)
         /\ list = [i \in 1..Len(list) |-> list[i]]
<1>1. list \in Seq(ToSet(list)) BY DEF IsSequence
<1>2. PICK n \in Nat : list \in [1..n -> ToSet(list)] /\ n = Len(list) BY <1>1
<1> QED BY <1>1, <1>2

LEMMA Sequencing ==
  ASSUME NEW n \in Nat, NEW list, DOMAIN list = 1..n, list = [i \in 1..n |-> list[i]]
  PROVE  IsSequence(list) /\ Len(list) = n
<1>1. list \in [1..n -> ToSet(list)] BY DEF ToSet
<1>2. list \in Seq(ToSet(list)) /\ Len(list) = n BY <1>1
<1> QED BY <1>2 DEF IsSequence

LEMMA NoneListed == IsSequence(<<>>) /\ ToSet(<<>>) = {}
  BY DEF IsSequence, ToSet

LEMMA OneListed ==
  ASSUME NEW x
  PROVE  IsSequence(<<x>>) /\ ToSet(<<x>>) = {x}
<1>1. <<x>> \in Seq({x}) /\ DOMAIN <<x>> = {1} /\ <<x>>[1] = x OBVIOUS
<1>2. ToSet(<<x>>) = {x} BY <1>1 DEF ToSet
<1> QED BY <1>1, <1>2 DEF IsSequence

LEMMA Joined ==
  ASSUME NEW s, NEW t, IsSequence(s), IsSequence(t)
  PROVE  IsSequence(s \o t) /\ ToSet(s \o t) = ToSet(s) \cup ToSet(t)
<1> DEFINE S == ToSet(s) \cup ToSet(t)
<1>1. s \in Seq(S) /\ t \in Seq(S) BY DEF IsSequence
<1>2. PICK m, n \in Nat : m = Len(s) /\ n = Len(t) /\ DOMAIN s = 1..m /\ DOMAIN t = 1..n
  BY <1>1
<1>3. /\ s \o t \in Seq(S) /\ DOMAIN (s \o t) = 1..(m + n)
      /\ \A i \in 1..(m + n) : (s \o t)[i] = IF i <= m THEN s[i] ELSE t[i - m]
  BY <1>1, <1>2
<1>4. ToSet(s \o t) \subseteq S BY <1>1, <1>3, SequenceOf
<1>5. ASSUME NEW x \in S PROVE x \in ToSet(s \o t)
  <2>1. CASE x \in ToSet(s)
    <3>1. PICK i \in 1..m : s[i] = x BY <1>2, <2>1 DEF ToSet
    <3>2. i \in 1..(m + n) /\ (s \o t)[i] = x BY <1>3, <3>1
    <3> QED BY <1>3, <3>2 DEF ToSet
  <2>2. CASE x \in ToSet(t)
    <3>1. PICK i \in 1..n : t[i] = x BY <1>2, <2>2 DEF ToSet
    <3>2. i + m \in 1..(m + n) /\ (s \o t)[i + m] = x BY <1>3, <3>1
    <3> QED BY <1>3, <3>2 DEF ToSet
  <2> QED BY <2>1, <2>2
<1> QED BY <1>1, <1>3, <1>4, <1>5, SequenceOf

LEMMA OneMore ==
  ASSUME NEW s, NEW x, IsSequence(s)
  PROVE  IsSequence(Append(s, x)) /\ ToSet(Append(s, x)) = ToSet(s) \cup {x}
<1>1. s \in Seq(ToSet(s) \cup {x}) BY DEF IsSequence
<1>2. Append(s, x) = s \o <<x>> BY <1>1
<1> QED BY <1>2, Joined, OneListed

LEMMA SomeOf ==
  ASSUME NEW s, IsSequence(s), NEW n \in 1..Len(s)
  PROVE  IsSequence(SubSeq(s, 1, n)) /\ Len(SubSeq(s, 1, n)) = n
         /\ \A i \in 1..n : SubSeq(s, 1, n)[i] = s[i]
<1>1. s \in Seq(ToSet(s)) BY DEF IsSequence
<1>2. SubSeq(s, 1, n) \in Seq(ToSet(s)) /\ Len(SubSeq(s, 1, n)) = n
         /\ \A i \in 1..n : SubSeq(s, 1, n)[i] = s[i]
  BY <1>1
<1> QED BY <1>2, SequenceOf

LEMMA Turned ==
  ASSUME NEW s, IsSequence(s)
  PROVE  IsSequence(Reverse(s)) /\ ToSet(Reverse(s)) = ToSet(s)
<1>1. PICK n \in Nat : n = Len(s) /\ DOMAIN s = 1..n BY SequenceShape
<1>2. Reverse(s) = [i \in 1..n |-> s[(n - i) + 1]] BY <1>1 DEF Reverse
<1>3. IsSequence(Reverse(s)) BY <1>2, Sequencing
<1>4. ASSUME NEW i \in 1..n PROVE (n - i) + 1 \in 1..n /\ (n - ((n - i) + 1)) + 1 = i
  OBVIOUS
<1>5. ToSet(Reverse(s)) = {s[(n - i) + 1] : i \in 1..n} BY <1>2 DEF ToSet
<1>6. ToSet(s) = {s[i] : i \in 1..n} BY <1>1 DEF ToSet
<1> QED BY <1>3, <1>4, <1>5, <1>6

\* Sequences laid end to end hold what each of them holds.
LEMMA Flattened ==
  ASSUME NEW seqs, IsSequence(seqs), \A i \in DOMAIN seqs : IsSequence(seqs[i])
  PROVE  /\ IsSequence(FlattenSeq(seqs))
         /\ ToSet(FlattenSeq(seqs)) = UNION {ToSet(seqs[i]) : i \in DOMAIN seqs}
<1>1. PICK n \in Nat : n = Len(seqs) /\ DOMAIN seqs = 1..n BY SequenceShape
<1> DEFINE flat == CHOOSE f :
             f = [i \in 1..Len(seqs) |-> IF i = 1 THEN seqs[i] ELSE f[i - 1] \o seqs[i]]
<1>2. FlattenSeq(seqs) = IF Len(seqs) = 0 THEN seqs ELSE flat[Len(seqs)]
  BY Zenon DEF FlattenSeq
<1>3. flat = [i \in 1..n |-> IF i = 1 THEN seqs[i] ELSE flat[i - 1] \o seqs[i]]
  <2>1. \E f : f = [i \in 1..n |-> IF i = 1 THEN seqs[i] ELSE f[i - 1] \o seqs[i]]
    BY FlatteningExists
  <2> QED BY <1>1, <2>1, Zenon
<1> HIDE DEF flat
<1>4. CASE n = 0
  <2>1. DOMAIN seqs = {} /\ FlattenSeq(seqs) = seqs BY <1>1, <1>2, <1>4
  <2> QED BY <2>1 DEF ToSet
<1>5. CASE n # 0
  <2> DEFINE Upto(k) == UNION {ToSet(seqs[i]) : i \in 1..k}
             Good(k) == IsSequence(flat[k]) /\ ToSet(flat[k]) = Upto(k)
             Bad == {k \in Nat : k \in 1..n /\ ~Good(k)}
  <2>1. Bad = {}
    <3> SUFFICES ASSUME Bad # {} PROVE FALSE OBVIOUS
    <3>1. PICK k \in Bad : \A j \in Bad : k <= j
      <4>1. Bad \in SUBSET Nat OBVIOUS
      <4> HIDE DEF Bad
      <4> QED BY <4>1, Least
    <3>2. k \in 1..n /\ IsSequence(seqs[k]) BY <1>1
    <3>3. k # 1
      <4> SUFFICES ASSUME k = 1 PROVE FALSE OBVIOUS
      <4>1. flat[1] = seqs[1] BY <1>3, <3>2
      <4>2. Upto(1) = ToSet(seqs[1]) OBVIOUS
      <4> QED BY <3>2, <4>1, <4>2
    <3>4. k - 1 \in 1..n /\ Good(k - 1) BY <3>1, <3>2, <3>3
    <3>5. flat[k] = flat[k - 1] \o seqs[k] BY <1>3, <3>2, <3>3
    <3>6. IsSequence(flat[k]) /\ ToSet(flat[k]) = Upto(k - 1) \cup ToSet(seqs[k])
      BY <3>2, <3>4, <3>5, Joined
    <3>7. Upto(k) = Upto(k - 1) \cup ToSet(seqs[k])
      <4>1. 1..k = (1..(k - 1)) \cup {k} BY <3>2
      <4> QED BY <4>1
    <3>8. Good(k) BY <3>6, <3>7
    <3> QED BY <3>1, <3>8
  <2>2. n \in 1..n BY <1>5
  <2>3. Good(n) BY <2>1, <2>2
  <2> QED BY <1>1, <1>2, <1>5, <2>3
<1> QED BY <1>4, <1>5

-----------------------------------------------------------------------------
(* Finite sets put in some order.                                           *)

LEMMA FiniteImage ==
  ASSUME NEW S, IsFiniteSet(S), NEW f
  PROVE  IsFiniteSet({f[x] : x \in S})
<1> DEFINE T == {f[x] : x \in S}
           g == [x \in S |-> f[x]]
<1>1. g \in Surjection(S, T) BY DEF Surjection
<1> QED BY <1>1, FS_Surjection

LEMMA FiniteListed ==
  ASSUME NEW list, IsSequence(list)
  PROVE  IsFiniteSet(ToSet(list)) /\ IsFiniteSet(DOMAIN list)
<1>1. PICK n \in Nat : DOMAIN list = 1..n BY SequenceShape
<1>2. IsFiniteSet(1..n) BY FS_Interval
<1> QED BY <1>1, <1>2, FiniteImage DEF ToSet

Pick(S) == CHOOSE x \in S : TRUE

LEMMA EnumerationExists ==
  ASSUME NEW set, IsFiniteSet(set)
  PROVE  \E f : f = [s \in SUBSET set |-> IF s = {} THEN <<>>
                                          ELSE Append(f[s \ {Pick(s)}], Pick(s))]
<1> DEFINE Upto(k) == {s \in SUBSET set : Cardinality(s) <= k}
           Counted(k) == \E f : f = [s \in Upto(k) |-> IF s = {} THEN <<>>
                                       ELSE Append(f[s \ {Pick(s)}], Pick(s))]
           Bad == {k \in Nat : ~Counted(k)}
<1>1. \A s \in SUBSET set :
        IsFiniteSet(s) /\ Cardinality(s) \in Nat /\ Cardinality(s) <= Cardinality(set)
  BY FS_Subset, FS_CardinalityType
<1>2. \A s \in SUBSET set : s # {} =>
         /\ Pick(s) \in s /\ s \ {Pick(s)} \in SUBSET set
         /\ Cardinality(s \ {Pick(s)}) = Cardinality(s) - 1
  BY <1>1, FS_RemoveElement DEF Pick
<1>3. \A s \in SUBSET set : Cardinality(s) = 0 <=> s = {} BY <1>1, FS_EmptySet
<1>4. Bad = {}
  <2> SUFFICES ASSUME Bad # {} PROVE FALSE OBVIOUS
  <2>1. PICK k \in Bad : \A j \in Bad : k <= j
    <3> HIDE DEF Counted
    <3> QED BY Least
  <2>2. k # 0
    <3> SUFFICES ASSUME k = 0 PROVE FALSE OBVIOUS
    <3> DEFINE g == [s \in Upto(0) |-> <<>>]
    <3>1. \A s \in Upto(0) : s = {} BY <1>1, <1>3
    <3>2. g = [s \in Upto(0) |-> IF s = {} THEN <<>> ELSE Append(g[s \ {Pick(s)}], Pick(s))]
      BY <3>1
    <3>3. Counted(0) BY <3>2
    <3> QED BY <2>1, <3>3
  <2>3. k - 1 \in Nat /\ Counted(k - 1)
    <3> HIDE DEF Counted
    <3> QED BY <2>1, <2>2
  <2>4. PICK f : f = [s \in Upto(k - 1) |-> IF s = {} THEN <<>>
                                             ELSE Append(f[s \ {Pick(s)}], Pick(s))]
    BY <2>3
  <2> DEFINE g == [s \in Upto(k) |-> IF s = {} THEN <<>> ELSE Append(f[s \ {Pick(s)}], Pick(s))]
  <2>5. ASSUME NEW s \in Upto(k - 1) PROVE s \in Upto(k) /\ g[s] = f[s]
    <3>1. s \in Upto(k) BY <1>1, <2>1
    <3> QED BY <2>4, <3>1
  <2>6. ASSUME NEW s \in Upto(k), s # {} PROVE s \ {Pick(s)} \in Upto(k - 1)
    BY <1>1, <1>2, <2>6
  <2>7. ASSUME NEW s \in Upto(k)
        PROVE  g[s] = IF s = {} THEN <<>> ELSE Append(g[s \ {Pick(s)}], Pick(s))
    <3>1. s # {} => g[s \ {Pick(s)}] = f[s \ {Pick(s)}] BY <2>5, <2>6
    <3> QED BY <3>1
  <2>8. g = [s \in Upto(k) |-> IF s = {} THEN <<>> ELSE Append(g[s \ {Pick(s)}], Pick(s))]
    <3>1. DOMAIN g = Upto(k) /\ g = [s \in Upto(k) |-> g[s]] OBVIOUS
    <3> HIDE DEF g
    <3> QED BY <2>7, <3>1, Zenon
  <2>9. Counted(k) BY <2>8
  <2> QED BY <2>1, <2>9
<1>5. Cardinality(set) \in Nat BY FS_CardinalityType
<1>6. Counted(Cardinality(set))
  <2> HIDE DEF Counted
  <2> QED BY <1>4, <1>5
<1>7. Upto(Cardinality(set)) = SUBSET set BY <1>1
<1> QED BY <1>6, <1>7

\* A finite set is put in an order that holds it.
LEMMA EnumeratedHolds ==
  ASSUME NEW set, IsFiniteSet(set)
  PROVE  IsSequence(Enumerated(set)) /\ ToSet(Enumerated(set)) = set
<1> DEFINE iter == CHOOSE f : f = [s \in SUBSET set |-> IF s = {} THEN <<>>
                                          ELSE Append(f[s \ {Pick(s)}], Pick(s))]
<1>1. Enumerated(set) = iter[set] BY Zenon DEF Enumerated, FoldSet, MapThenFoldSet, Pick
<1>2. iter = [s \in SUBSET set |-> IF s = {} THEN <<>> ELSE Append(iter[s \ {Pick(s)}], Pick(s))]
  BY EnumerationExists, Zenon
<1> HIDE DEF iter
<1>3. \A s \in SUBSET set : IsFiniteSet(s) /\ Cardinality(s) \in Nat
  BY FS_Subset, FS_CardinalityType
<1>4. \A s \in SUBSET set : s # {} =>
         /\ Pick(s) \in s /\ s \ {Pick(s)} \in SUBSET set
         /\ Cardinality(s \ {Pick(s)}) = Cardinality(s) - 1
  BY <1>3, FS_RemoveElement DEF Pick
<1> DEFINE Good(s) == IsSequence(iter[s]) /\ ToSet(iter[s]) = s
           Bad == {k \in Nat : \E s \in SUBSET set : Cardinality(s) = k /\ ~Good(s)}
<1>5. Bad = {}
  <2> SUFFICES ASSUME Bad # {} PROVE FALSE OBVIOUS
  <2>1. PICK k \in Bad : \A j \in Bad : k <= j
    <3> HIDE DEF Good
    <3> QED BY Least
  <2>2. PICK s \in SUBSET set : Cardinality(s) = k /\ ~Good(s) BY <2>1
  <2>3. s # {}
    <3> SUFFICES ASSUME s = {} PROVE FALSE OBVIOUS
    <3>1. iter[s] = <<>> BY <1>2
    <3> QED BY <2>2, <3>1, NoneListed
  <2> DEFINE t == s \ {Pick(s)}
  <2>4. t \in SUBSET set /\ Cardinality(t) = k - 1 /\ k - 1 \in Nat
    BY <1>3, <1>4, <2>2, <2>3
  <2>5. Good(t)
    <3> HIDE DEF t, Good
    <3> QED BY <2>1, <2>4
  <2>6. iter[s] = Append(iter[t], Pick(s)) /\ Pick(s) \in s BY <1>2, <1>4, <2>3
  <2>7. Good(s)
    <3> DEFINE before == iter[t]
    <3>1. IsSequence(before) /\ ToSet(before) = t BY <2>5
    <3>2. iter[s] = Append(before, Pick(s)) BY <2>6
    <3> HIDE DEF before, t
    <3>3. IsSequence(iter[s]) /\ ToSet(iter[s]) = t \cup {Pick(s)} BY <3>1, <3>2, OneMore
    <3> QED BY <2>6, <3>3 DEF t
  <2> QED BY <2>2, <2>7
<1>6. Good(set)
  <2> HIDE DEF Good
  <2>1. set \in SUBSET set OBVIOUS
  <2> QED BY <1>3, <1>5, <2>1
<1> QED BY <1>1, <1>6

LEMMA MaxHolds ==
  ASSUME NEW S \in SUBSET Nat, IsFiniteSet(S), S # {}
  PROVE  Max(S) \in S /\ \A n \in S : n <= Max(S)
<1> DEFINE list == Enumerated(S)
<1>1. IsSequence(list) /\ ToSet(list) = S BY EnumeratedHolds
<1>2. PICK l \in Nat : DOMAIN list = 1..l BY <1>1, SequenceShape
<1> HIDE DEF list
<1> DEFINE Topped(k) == \E n \in S : \A i \in 1..k : list[i] <= n
           Bad == {k \in Nat : k <= l /\ ~Topped(k)}
<1>3. \A i \in 1..l : list[i] \in S BY <1>1, <1>2 DEF ToSet
<1>4. Bad = {}
  <2> SUFFICES ASSUME Bad # {} PROVE FALSE OBVIOUS
  <2>1. PICK k \in Bad : \A j \in Bad : k <= j
    <3> HIDE DEF Topped
    <3> QED BY Least
  <2>2. k # 0
    <3>1. PICK n \in S : TRUE OBVIOUS
    <3>2. Topped(0) BY <3>1
    <3> QED BY <2>1, <3>2
  <2>3. k - 1 \in Nat /\ k \in 1..l /\ Topped(k - 1)
    <3> HIDE DEF Topped
    <3> QED BY <2>1, <2>2
  <2>4. PICK n \in S : \A i \in 1..(k - 1) : list[i] <= n BY <2>3
  <2>5. Topped(k)
    <3>1. list[k] \in S /\ n \in Nat /\ list[k] \in Nat BY <1>3, <2>3
    <3>2. CASE list[k] <= n
      <4>1. \A i \in 1..k : list[i] <= n BY <2>4, <3>2
      <4> QED BY <4>1
    <3>3. CASE n < list[k]
      <4>1. \A i \in 1..k : list[i] <= list[k]
        <5> TAKE i \in 1..k
        <5>0. i \in 1..l BY <2>3
        <5>1. list[i] \in Nat BY <1>3, <5>0
        <5>2. CASE i = k BY <5>1, <5>2
        <5>3. CASE i \in 1..(k - 1) BY <2>4, <3>1, <3>3, <5>1, <5>3
        <5> QED BY <5>2, <5>3
      <4> QED BY <3>1, <4>1
    <3> QED BY <3>1, <3>2, <3>3
  <2> QED BY <2>1, <2>5
<1>5. Topped(l)
  <2> HIDE DEF Topped
  <2> QED BY <1>2, <1>4
<1>6. PICK n \in S : \A i \in 1..l : list[i] <= n BY <1>5
<1>7. \A j \in S : j <= n BY <1>1, <1>2, <1>6 DEF ToSet
<1>8. \E x \in S : \A y \in S : x >= y BY <1>7
<1>9. Max(S) \in S /\ \A y \in S : Max(S) >= y BY <1>8, Zenon DEF Max
<1> QED BY <1>9

\* Paths by their depth are the paths.
LEMMA ByDepthHolds ==
  ASSUME NEW paths, IsFiniteSet(paths), \A p \in paths : IsSequence(p)
  PROVE  IsSequence(ByDepth(paths)) /\ ToSet(ByDepth(paths)) = paths
<1>1. CASE paths = {} BY <1>1, NoneListed DEF ByDepth
<1>2. CASE paths # {}
  <2> DEFINE depths == {Len(p) : p \in paths}
             most == Max(depths)
             At(n) == {p \in paths : Len(p) = n - 1}
             seqs == [n \in 1..(most + 1) |-> Enumerated(At(n))]
  <2>1. \A p \in paths : Len(p) \in Nat BY SequenceShape
  <2>2. IsFiniteSet(depths)
    <3> DEFINE f == [p \in paths |-> Len(p)]
    <3>1. depths = {f[p] : p \in paths} OBVIOUS
    <3> HIDE DEF f, depths
    <3>2. IsFiniteSet({f[p] : p \in paths}) BY FiniteImage
    <3> QED BY <3>1, <3>2
  <2>3. most \in Nat /\ \A n \in depths : n <= most
    <3>1. depths \in SUBSET Nat /\ depths # {} BY <1>2, <2>1
    <3> HIDE DEF depths
    <3> QED BY <2>2, <3>1, MaxHolds
  <2> HIDE DEF most
  <2>4. \A n \in 1..(most + 1) : IsSequence(Enumerated(At(n))) /\ ToSet(Enumerated(At(n))) = At(n)
    <3> TAKE n \in 1..(most + 1)
    <3>1. At(n) \in SUBSET paths OBVIOUS
    <3>2. IsFiniteSet(At(n)) BY <3>1, FS_Subset
    <3> QED BY <3>2, EnumeratedHolds
  <2>5. IsSequence(seqs) /\ DOMAIN seqs = 1..(most + 1) BY <2>3, Sequencing
  <2>6. \A n \in DOMAIN seqs : IsSequence(seqs[n]) /\ ToSet(seqs[n]) = At(n) BY <2>4
  <2>7. ByDepth(paths) = FlattenSeq(seqs) BY <1>2 DEF ByDepth, most
  <2> HIDE DEF seqs
  <2>8. /\ IsSequence(FlattenSeq(seqs))
        /\ ToSet(FlattenSeq(seqs)) = UNION {ToSet(seqs[n]) : n \in DOMAIN seqs}
    BY <2>5, <2>6, Flattened
  <2>9. {ToSet(seqs[n]) : n \in DOMAIN seqs} = {At(n) : n \in 1..(most + 1)} BY <2>5, <2>6
  <2>10. UNION {At(n) : n \in 1..(most + 1)} = paths
    <3> SUFFICES ASSUME NEW p \in paths PROVE p \in UNION {At(n) : n \in 1..(most + 1)}
      OBVIOUS
    <3>1. Len(p) + 1 \in 1..(most + 1) /\ p \in At(Len(p) + 1) BY <2>1, <2>3
    <3> QED BY <3>1
  <2> QED BY <2>7, <2>8, <2>9, <2>10
<1> QED BY <1>1, <1>2

-----------------------------------------------------------------------------
(* Where the values of a package lie.                                       *)

LEMMA TwoListed ==
  ASSUME NEW x, NEW y
  PROVE  IsSequence(<<x, y>>) /\ ToSet(<<x, y>>) = {x, y} /\ Len(<<x, y>>) = 2
<1>1. <<x, y>> \in Seq({x, y}) /\ DOMAIN <<x, y>> = 1..2 /\ <<x, y>>[1] = x /\ <<x, y>>[2] = y
  OBVIOUS
<1>2. ToSet(<<x, y>>) = {x, y}
  <2>1. 1..2 = {1, 2} OBVIOUS
  <2> QED BY <1>1, <2>1 DEF ToSet
<1> QED BY <1>1, <1>2 DEF IsSequence

LEMMA ThreeListed ==
  ASSUME NEW x, NEW y, NEW z
  PROVE  IsSequence(<<x, y, z>>) /\ ToSet(<<x, y, z>>) = {x, y, z}
<1>1. /\ <<x, y, z>> \in Seq({x, y, z}) /\ DOMAIN <<x, y, z>> = 1..3
      /\ <<x, y, z>>[1] = x /\ <<x, y, z>>[2] = y /\ <<x, y, z>>[3] = z
  OBVIOUS
<1>2. ToSet(<<x, y, z>>) = {x, y, z}
  <2>1. 1..3 = {1, 2, 3} OBVIOUS
  <2> QED BY <1>1, <2>1 DEF ToSet
<1> QED BY <1>1, <1>2 DEF IsSequence

LEMMA JoinedAt ==
  ASSUME NEW s, NEW t, IsSequence(s), IsSequence(t)
  PROVE  /\ Len(s \o t) = Len(s) + Len(t)
         /\ \A i \in 1..Len(s) : (s \o t)[i] = s[i]
         /\ \A i \in 1..Len(t) : (s \o t)[Len(s) + i] = t[i]
<1>1. s \in Seq(ToSet(s) \cup ToSet(t)) /\ t \in Seq(ToSet(s) \cup ToSet(t))
  BY DEF IsSequence
<1> QED BY <1>1

\* A key lies below another one only if it has its components.
LEMMA Elsewhere ==
  ASSUME NEW key, NEW root, IsSequence(key), IsSequence(root),
         NEW i \in 1..Len(root), i <= Len(key) => key[i] # root[i]
  PROVE  ~IsUnder(key, root)
<1>1. key \in Seq(ToSet(key) \cup ToSet(root)) /\ root \in Seq(ToSet(key) \cup ToSet(root))
  BY DEF IsSequence
<1>2. Len(key) \in Nat /\ Len(root) \in Nat BY <1>1
<1>3. CASE key = root BY <1>2, <1>3
<1>4. CASE Within(key, root)
  <2>1. Len(key) > Len(root) /\ SubSeq(key, 1, Len(root)) = root BY <1>4 DEF Within
  <2>2. SubSeq(key, 1, Len(root))[i] = key[i] BY <1>1, <1>2, <2>1
  <2> QED BY <1>2, <2>1, <2>2
<1> QED BY <1>3, <1>4 DEF IsUnder

\* A key of a class, and one elsewhere below Software or in another hive.
InClass(key, class) ==
  IsSequence(key) /\ Len(key) >= 4 /\ key[3] = "Classes" /\ key[4] = class
Outside(key) == IsSequence(key) /\ Len(key) >= 3 /\ key[3] # "Classes"

LEMMA SoftwareKeys ==
  ASSUME NEW scope, NEW below, IsSequence(below), Len(below) >= 1
  PROVE  LET key == SoftwareRoot(scope) \o below
         IN  IsSequence(key) /\ Len(key) = 2 + Len(below) /\ key[3] = below[1]
             /\ \A i \in 1..Len(below) : key[2 + i] = below[i]
<1> DEFINE root == SoftwareRoot(scope)
           key == root \o below
<1>1. IsSequence(root) /\ Len(root) = 2 BY TwoListed DEF SoftwareRoot
<1>2. Len(below) \in Nat /\ 1 \in 1..Len(below) BY SequenceShape
<1> HIDE DEF root
<1>3. IsSequence(key) /\ Len(key) = 2 + Len(below)
      /\ \A i \in 1..Len(below) : key[2 + i] = below[i]
  <2>1. IsSequence(key) /\ Len(key) = Len(root) + Len(below)
        /\ \A i \in 1..Len(below) : key[Len(root) + i] = below[i]
    <3>1. IsSequence(root \o below) BY <1>1, Joined, Zenon
    <3>2. /\ Len(root \o below) = Len(root) + Len(below)
          /\ \A i \in 1..Len(below) : (root \o below)[Len(root) + i] = below[i]
      <4> DEFINE S == ToSet(root) \cup ToSet(below)
      <4>1. root \in Seq(S) /\ below \in Seq(S) BY <1>1 DEF IsSequence
      <4> HIDE DEF S
      <4> QED BY <4>1
    <3> QED BY <3>1, <3>2, Zenon
  <2> QED BY <1>1, <2>1
<1>4. key[2 + 1] = below[1] BY <1>2, <1>3
<1>5. IsSequence(key) /\ Len(key) = 2 + Len(below) /\ key[3] = below[1]
      /\ \A i \in 1..Len(below) : key[2 + i] = below[i]
  BY <1>3, <1>4
<1> QED BY <1>5 DEF root

LEMMA ClassKeys ==
  ASSUME NEW scope, NEW below, IsSequence(below), Len(below) >= 1
  PROVE  InClass(Class(scope, below), below[1]) /\ Len(Class(scope, below)) = 3 + Len(below)
<1> DEFINE root == ClassesRoot(scope)
<1>1. IsSequence(<<"Classes">>) /\ Len(<<"Classes">>) = 1 /\ <<"Classes">>[1] = "Classes"
  BY OneListed
<1>2. IsSequence(root) /\ Len(root) = 3 /\ root[3] = "Classes"
  <2> DEFINE last1 == <<"Classes">>
  <2>1. IsSequence(last1) /\ Len(last1) = 1 /\ last1[1] = "Classes" BY <1>1
  <2>2. root = SoftwareRoot(scope) \o last1 BY DEF ClassesRoot
  <2> HIDE DEF last1, root
  <2>3. LET key == SoftwareRoot(scope) \o last1
        IN  IsSequence(key) /\ Len(key) = 2 + Len(last1) /\ key[3] = last1[1]
    <3>1. Len(last1) >= 1 BY <2>1
    <3> QED BY <2>1, <3>1, SoftwareKeys, Zenon
  <2> QED BY <2>1, <2>2, <2>3
<1>3. Len(below) \in Nat /\ 1 \in 1..Len(below) BY SequenceShape
<1> HIDE DEF root
<1> DEFINE key == root \o below
<1>4. IsSequence(key) /\ Len(key) = 3 + Len(below) /\ key[3] = "Classes" /\ key[4] = below[1]
  <2>1. IsSequence(key) /\ Len(key) = Len(root) + Len(below) BY <1>2, Joined, JoinedAt
  <2>2. key[3] = root[3] BY <1>2, JoinedAt
  <2>3. key[3 + 1] = below[1]
    <3>1. \A i \in 1..Len(below) : key[Len(root) + i] = below[i]
      <4> DEFINE S == ToSet(root) \cup ToSet(below)
      <4>1. root \in Seq(S) /\ below \in Seq(S) BY <1>2 DEF IsSequence
      <4> HIDE DEF S
      <4> QED BY <4>1
    <3> QED BY <1>2, <1>3, <3>1
  <2> QED BY <1>2, <2>1, <2>2, <2>3
<1>5. Class(scope, below) = key BY DEF Class, root
<1> QED BY <1>3, <1>4, <1>5 DEF InClass

LEMMA ClassBelow ==
  ASSUME NEW key, NEW class, InClass(key, class), NEW below, IsSequence(below)
  PROVE  InClass(key \o below, class)
<1>1. /\ IsSequence(key) /\ Len(key) \in Nat /\ Len(below) \in Nat
      /\ 3 \in 1..Len(key) /\ 4 \in 1..Len(key)
  BY SequenceShape DEF InClass
<1> QED BY <1>1, Joined, JoinedAt DEF InClass

LEMMA OutsideBelow ==
  ASSUME NEW key, Outside(key), NEW below, IsSequence(below)
  PROVE  Outside(key \o below)
<1>1. IsSequence(key) /\ Len(key) \in Nat /\ Len(below) \in Nat /\ 3 \in 1..Len(key)
  BY SequenceShape DEF Outside
<1> QED BY <1>1, Joined, JoinedAt DEF Outside

LEMMA SchemeClass ==
  ASSUME NEW scope, NEW scheme
  PROVE  InClass(Class(scope, <<scheme>>), scheme) /\ Len(Class(scope, <<scheme>>)) = 4
<1> DEFINE below == <<scheme>>
<1>1. IsSequence(below) /\ Len(below) = 1 /\ below[1] = scheme BY OneListed
<1> HIDE DEF below
<1>2. InClass(Class(scope, below), below[1]) /\ Len(Class(scope, below)) = 3 + Len(below)
  <2>1. Len(below) >= 1 BY <1>1
  <2> QED BY <1>1, <2>1, ClassKeys, Zenon
<1> QED BY <1>1, <1>2 DEF below

LEMMA OtherClass ==
  ASSUME NEW key, NEW class, InClass(key, class), NEW scope, NEW scheme, scheme # class
  PROVE  ~IsUnder(key, Class(scope, <<scheme>>))
<1> DEFINE root == Class(scope, <<scheme>>)
<1>1. IsSequence(root) /\ Len(root) = 4 /\ root[4] = scheme BY SchemeClass DEF InClass
<1> HIDE DEF root
<1>2. IsSequence(key) /\ key[4] # root[4] /\ 4 \in 1..Len(root) BY <1>1 DEF InClass
<1>3. ~IsUnder(key, root) BY <1>1, <1>2, Elsewhere
<1> QED BY <1>3 DEF root

LEMMA NoClass ==
  ASSUME NEW key, Outside(key), NEW scope, NEW scheme
  PROVE  ~IsUnder(key, Class(scope, <<scheme>>))
<1> DEFINE root == Class(scope, <<scheme>>)
<1>1. IsSequence(root) /\ Len(root) = 4 /\ root[3] = "Classes" BY SchemeClass DEF InClass
<1> HIDE DEF root
<1>2. IsSequence(key) /\ key[3] # root[3] /\ 3 \in 1..Len(root) BY <1>1 DEF Outside
<1>3. ~IsUnder(key, root) BY <1>1, <1>2, Elsewhere
<1> QED BY <1>3 DEF root

LEMMA Mapped ==
  ASSUME NEW table, IsSequence(table), NEW seqs, DOMAIN seqs = DOMAIN table,
         seqs = [i \in DOMAIN seqs |-> seqs[i]]
  PROVE  IsSequence(seqs)
  BY SequenceShape, Sequencing

\* What is enabled of a table is of the table.
LEMMA WantedOf ==
  ASSUME NEW table, IsSequence(table), NEW opts
  PROVE  IsSequence(Wanted(table, opts)) /\ ToSet(Wanted(table, opts)) \subseteq ToSet(table)
<1> DEFINE seqs == [i \in DOMAIN table |-> IF Enabled(table[i], opts) THEN <<table[i]>> ELSE <<>>]
<1>1. Wanted(table, opts) = FlattenSeq(seqs) BY DEF Wanted, Each
<1>2. ASSUME NEW i \in DOMAIN table
      PROVE  IsSequence(seqs[i]) /\ ToSet(seqs[i]) \subseteq ToSet(table)
  <2>1. table[i] \in ToSet(table) BY DEF ToSet
  <2>2. seqs[i] \in {<<table[i]>>, <<>>} OBVIOUS
  <2> QED BY <2>1, <2>2, OneListed, NoneListed
<1>3. IsSequence(seqs) /\ DOMAIN seqs = DOMAIN table BY Mapped
<1> HIDE DEF seqs
<1> QED BY <1>1, <1>2, <1>3, Flattened

\* A value whose key lies in none of some schemes' classes.
Clear(key, scope, schemes) ==
  IsSequence(key) /\ \A s \in schemes : ~IsUnder(key, Class(scope, <<s>>))

ClearValues(list, scope, schemes) ==
  /\ IsSequence(list)
  /\ \A x \in ToSet(list) : x.id[1] = "value" /\ Clear(x.id[2], scope, schemes)

LEMMA InClassClear ==
  ASSUME NEW key, NEW class, InClass(key, class), NEW scope, NEW schemes, class \notin schemes
  PROVE  Clear(key, scope, schemes)
  BY OtherClass DEF Clear, InClass

LEMMA OutsideClear ==
  ASSUME NEW key, Outside(key), NEW scope, NEW schemes
  PROVE  Clear(key, scope, schemes)
  BY NoClass DEF Clear, Outside

LEMMA ClearNone ==
  ASSUME NEW scope, NEW schemes
  PROVE  ClearValues(<<>>, scope, schemes)
  BY NoneListed DEF ClearValues

LEMMA ClearOne ==
  ASSUME NEW scope, NEW schemes, NEW key, Clear(key, scope, schemes), NEW name, NEW text
  PROVE  ClearValues(<<String(key, name, text)>>, scope, schemes)
<1> DEFINE x == String(key, name, text)
<1>1. x.id[1] = "value" /\ x.id[2] = key BY DEF String
<1> HIDE DEF x
<1>2. ClearValues(<<x>>, scope, schemes) BY <1>1, OneListed DEF ClearValues
<1> QED BY <1>2 DEF x

LEMMA ClearJoined ==
  ASSUME NEW scope, NEW schemes, NEW a, NEW b,
         ClearValues(a, scope, schemes), ClearValues(b, scope, schemes)
  PROVE  ClearValues(a \o b, scope, schemes)
<1>1. IsSequence(a) /\ IsSequence(b) BY DEF ClearValues
<1>2. IsSequence(a \o b) /\ ToSet(a \o b) = ToSet(a) \cup ToSet(b) BY <1>1, Joined, Zenon
<1> QED BY <1>2 DEF ClearValues

LEMMA ClearTwo ==
  ASSUME NEW scope, NEW schemes, NEW k1, NEW n1, NEW t1, NEW k2, NEW n2, NEW t2,
         Clear(k1, scope, schemes), Clear(k2, scope, schemes)
  PROVE  ClearValues(<<String(k1, n1, t1), String(k2, n2, t2)>>, scope, schemes)
<1> DEFINE x == String(k1, n1, t1)
           y == String(k2, n2, t2)
<1>1. x.id[1] = "value" /\ x.id[2] = k1 /\ y.id[1] = "value" /\ y.id[2] = k2 BY DEF String
<1> HIDE DEF x, y
<1>2. ClearValues(<<x, y>>, scope, schemes) BY <1>1, TwoListed DEF ClearValues
<1> QED BY <1>2 DEF x, y

LEMMA ClearThree ==
  ASSUME NEW scope, NEW schemes, NEW k1, NEW n1, NEW t1, NEW k2, NEW n2, NEW t2,
         NEW k3, NEW n3, NEW t3,
         Clear(k1, scope, schemes), Clear(k2, scope, schemes), Clear(k3, scope, schemes)
  PROVE  ClearValues(<<String(k1, n1, t1), String(k2, n2, t2), String(k3, n3, t3)>>, scope, schemes)
<1> DEFINE x == String(k1, n1, t1)
           y == String(k2, n2, t2)
           z == String(k3, n3, t3)
<1>1. /\ x.id[1] = "value" /\ x.id[2] = k1 /\ y.id[1] = "value" /\ y.id[2] = k2
      /\ z.id[1] = "value" /\ z.id[2] = k3
  BY DEF String
<1> HIDE DEF x, y, z
<1>2. ClearValues(<<x, y, z>>, scope, schemes) BY <1>1, ThreeListed DEF ClearValues
<1> QED BY <1>2 DEF x, y, z

LEMMA ClearFlattened ==
  ASSUME NEW scope, NEW schemes, NEW seqs, IsSequence(seqs),
         \A i \in DOMAIN seqs : ClearValues(seqs[i], scope, schemes)
  PROVE  ClearValues(FlattenSeq(seqs), scope, schemes)
<1>1. \A i \in DOMAIN seqs : IsSequence(seqs[i]) BY DEF ClearValues
<1>2. /\ IsSequence(FlattenSeq(seqs))
      /\ ToSet(FlattenSeq(seqs)) = UNION {ToSet(seqs[i]) : i \in DOMAIN seqs}
  BY <1>1, Flattened
<1> QED BY <1>2 DEF ClearValues

LEMMA ClearHandler ==
  ASSUME NEW scope, NEW schemes, NEW class, NEW name, InClass(class, name), name \notin schemes,
         NEW description, NEW d, NEW urlProtocol
  PROVE  ClearValues(HandlerClass(class, description, d, urlProtocol), scope, schemes)
<1> DEFINE icon == class \o <<"DefaultIcon">>
           command == class \o <<"shell", "open", "command">>
<1>1. Clear(class, scope, schemes) BY InClassClear
<1>2. IsSequence(<<"DefaultIcon">>) /\ IsSequence(<<"shell", "open", "command">>)
  BY OneListed, ThreeListed
<1>3. Clear(icon, scope, schemes) /\ Clear(command, scope, schemes)
  <2>1. InClass(icon, name) BY <1>2, ClassBelow
  <2>2. InClass(command, name) BY <1>2, ClassBelow
  <2> HIDE DEF icon, command
  <2> QED BY <2>1, <2>2, InClassClear
<1> HIDE DEF icon, command
<1> DEFINE first == <<String(class, "", description)>>
           protocol == IF urlProtocol THEN <<String(class, "URL Protocol", <<>>)>> ELSE <<>>
           rest == <<String(icon, "", Append(Icon(d), ",0")),
                     String(command, "", Command(d, "%1"))>>
<1>4. ClearValues(first, scope, schemes) BY <1>1, ClearOne
<1>5. ClearValues(protocol, scope, schemes) BY <1>1, ClearOne, ClearNone
<1>6. ClearValues(rest, scope, schemes) BY <1>3, ClearTwo
<1>7. HandlerClass(class, description, d, urlProtocol) = (first \o protocol) \o rest
  BY DEF HandlerClass, icon, command
<1> HIDE DEF first, protocol, rest
<1>8. ClearValues(first \o protocol, scope, schemes) BY <1>4, <1>5, ClearJoined
<1>9. ClearValues((first \o protocol) \o rest, scope, schemes) BY <1>6, <1>8, ClearJoined
<1> QED BY <1>7, <1>9

LEMMA FourListed ==
  ASSUME NEW w, NEW x, NEW y, NEW z
  PROVE  /\ IsSequence(<<w, x, y, z>>) /\ Len(<<w, x, y, z>>) = 4 /\ <<w, x, y, z>>[1] = w
         /\ ToSet(<<w, x, y, z>>) = {w, x, y, z}
<1>1. /\ <<w, x, y, z>> \in Seq({w, x, y, z}) /\ DOMAIN <<w, x, y, z>> = 1..4
      /\ <<w, x, y, z>>[1] = w /\ <<w, x, y, z>>[2] = x /\ <<w, x, y, z>>[3] = y
      /\ <<w, x, y, z>>[4] = z /\ Len(<<w, x, y, z>>) = 4
  OBVIOUS
<1>2. ToSet(<<w, x, y, z>>) = {w, x, y, z}
  <2>1. 1..4 = {1, 2, 3, 4} OBVIOUS
  <2> QED BY <1>1, <2>1 DEF ToSet
<1> QED BY <1>1, <1>2 DEF IsSequence

LEMMA OutsideMore ==
  ASSUME NEW key, Outside(key), NEW x
  PROVE  Outside(Append(key, x))
<1>1. key \in Seq(ToSet(key)) BY DEF Outside, IsSequence
<1>2. Append(key, x) = key \o <<x>> BY <1>1
<1>3. IsSequence(<<x>>) BY OneListed
<1>4. Outside(key \o <<x>>) BY <1>3, OutsideBelow, Zenon
<1> QED BY <1>2, <1>4

LEMMA ClassMore ==
  ASSUME NEW key, NEW class, InClass(key, class), NEW x
  PROVE  InClass(Append(key, x), class)
<1>1. key \in Seq(ToSet(key)) BY DEF InClass, IsSequence
<1>2. Append(key, x) = key \o <<x>> BY <1>1
<1>3. IsSequence(<<x>>) BY OneListed
<1>4. InClass(key \o <<x>>, class) BY <1>3, ClassBelow, Zenon
<1> QED BY <1>2, <1>4

LEMMA SoftwareOutside ==
  ASSUME NEW scope, NEW below, IsSequence(below), Len(below) >= 1, below[1] # "Classes"
  PROVE  Outside(SoftwareRoot(scope) \o below)
<1> DEFINE key == SoftwareRoot(scope) \o below
<1>1. IsSequence(key) /\ Len(key) = 2 + Len(below) /\ key[3] = below[1]
  BY SoftwareKeys, Zenon
<1>2. Len(below) \in Nat BY SequenceShape
<1> HIDE DEF key
<1>3. Outside(key) BY <1>1, <1>2 DEF Outside
<1> QED BY <1>3 DEF key

LEMMA CapabilitiesOutside ==
  ASSUME NEW m, NEW scope, m.publisher # "Classes"
  PROVE  Outside(CapabilitiesKey(m, scope))
<1> DEFINE below == <<m.publisher, m.name, "Capabilities">>
<1>1. IsSequence(below) /\ Len(below) = 3 /\ below[1] = m.publisher BY ThreeListed
<1>2. CapabilitiesKey(m, scope) = SoftwareRoot(scope) \o below BY DEF CapabilitiesKey
<1> HIDE DEF below
<1>3. Len(below) >= 1 /\ below[1] # "Classes" BY <1>1
<1> QED BY <1>1, <1>2, <1>3, SoftwareOutside

LEMMA AppPathsOutside ==
  ASSUME NEW scope
  PROVE  Outside(AppPathsRoot(scope)) /\ Outside(UninstallRoot(scope))
<1>1. ASSUME NEW leaf
      PROVE  Outside(SoftwareRoot(scope) \o <<"Microsoft", "Windows", "CurrentVersion", leaf>>)
  <2> DEFINE below == <<"Microsoft", "Windows", "CurrentVersion", leaf>>
  <2>1. IsSequence(below) /\ Len(below) = 4 /\ below[1] = "Microsoft" BY FourListed
  <2> HIDE DEF below
  <2>2. Len(below) >= 1 /\ below[1] # "Classes" BY <2>1
  <2>3. Outside(SoftwareRoot(scope) \o below) BY <2>1, <2>2, SoftwareOutside
  <2> QED BY <2>3 DEF below
<1> QED BY <1>1 DEF AppPathsRoot, UninstallRoot

LEMMA OneBefore ==
  ASSUME NEW x, NEW y
  PROVE  <<x>> \o <<y>> = <<x, y>>
<1> DEFINE s == <<x>>
           t == <<y>>
<1>1. IsSequence(s) /\ IsSequence(t) /\ Len(s) = 1 /\ Len(t) = 1 /\ s[1] = x /\ t[1] = y
  BY OneListed
<1> HIDE DEF s, t
<1>2. IsSequence(s \o t) BY <1>1, Joined, Zenon
<1>3. Len(s \o t) = Len(s) + Len(t) /\ (\A i \in 1..Len(s) : (s \o t)[i] = s[i])
      /\ (\A i \in 1..Len(t) : (s \o t)[Len(s) + i] = t[i])
  BY <1>1, JoinedAt
<1> DEFINE u == s \o t
<1>4. Len(u) = 2 /\ u[1] = x /\ u[2] = y BY <1>1, <1>3
<1>5. IsSequence(u) BY <1>2
<1> HIDE DEF u
<1>6. u \in Seq(ToSet(u)) BY <1>5 DEF IsSequence
<1>7. u = <<x, y>> BY <1>4, <1>6
<1> QED BY <1>7 DEF u, s, t

LEMMA OfClass ==
  ASSUME NEW scope, NEW name
  PROVE  InClass(Class(scope, <<name>>), name)
  BY SchemeClass

LEMMA OfClassBelow ==
  ASSUME NEW scope, NEW name, NEW rest, IsSequence(rest)
  PROVE  InClass(Class(scope, <<name>> \o rest), name)
<1> DEFINE below == <<name>> \o rest
<1>1. IsSequence(<<name>>) /\ Len(<<name>>) = 1 /\ <<name>>[1] = name BY OneListed
<1>2. Len(rest) \in Nat BY SequenceShape
<1>3. IsSequence(below) BY <1>1, Joined, Zenon
<1>4. Len(below) >= 1 /\ below[1] = name
  <2> DEFINE S == ToSet(rest) \cup {name}
  <2>1. <<name>> \in Seq(S) /\ rest \in Seq(S) BY DEF IsSequence
  <2> HIDE DEF S
  <2> QED BY <1>2, <2>1
<1> HIDE DEF below
<1>5. InClass(Class(scope, below), below[1]) BY <1>3, <1>4, ClassKeys, Zenon
<1>6. InClass(Class(scope, below), name) BY <1>4, <1>5
<1> QED BY <1>6 DEF below

\* The capabilities lie outside the classes, or in the class of the product's
\* name for a publisher of that of the classes.
LEMMA CapabilitiesClear ==
  ASSUME NEW m, NEW scope, NEW schemes, m.publisher = "Classes" => m.name \notin schemes
  PROVE  /\ Clear(CapabilitiesKey(m, scope), scope, schemes)
         /\ \A rest : IsSequence(rest) => Clear(CapabilitiesKey(m, scope) \o rest, scope, schemes)
<1> DEFINE key == CapabilitiesKey(m, scope)
<1>1. CASE m.publisher # "Classes"
  <2>1. Outside(key) BY <1>1, CapabilitiesOutside
  <2>2. \A rest : IsSequence(rest) => Outside(key \o rest)
    <3> HIDE DEF key
    <3> QED BY <2>1, OutsideBelow
  <2> HIDE DEF key
  <2>3. Clear(key, scope, schemes) /\ \A rest : IsSequence(rest) => Clear(key \o rest, scope, schemes)
    BY <2>1, <2>2, OutsideClear
  <2> QED BY <2>3 DEF key
<1>2. CASE m.publisher = "Classes"
  <2>1. InClass(key, m.name)
    <3> DEFINE below == <<m.publisher, m.name, "Capabilities">>
    <3>1. IsSequence(below) /\ Len(below) = 3 /\ below[1] = m.publisher /\ below[2] = m.name
      BY ThreeListed
    <3> DEFINE root == SoftwareRoot(scope)
    <3>2. key = root \o below BY DEF CapabilitiesKey
    <3>3. IsSequence(root) /\ Len(root) = 2 BY TwoListed DEF SoftwareRoot
    <3> HIDE DEF below, key, root
    <3>4. IsSequence(key) BY <3>1, <3>2, <3>3, Joined
    <3>5. /\ Len(key) = Len(root) + Len(below)
          /\ \A i \in 1..Len(below) : key[Len(root) + i] = below[i]
      <4>1. /\ Len(root \o below) = Len(root) + Len(below)
            /\ \A i \in 1..Len(below) : (root \o below)[Len(root) + i] = below[i]
        <5> DEFINE S == ToSet(root) \cup ToSet(below)
        <5>1. root \in Seq(S) /\ below \in Seq(S) BY <3>1, <3>3 DEF IsSequence
        <5> HIDE DEF S
        <5> QED BY <5>1
      <4> QED BY <3>2, <4>1
    <3>6. Len(key) = 5 /\ key[3] = below[1] /\ key[4] = below[2] BY <3>1, <3>3, <3>5
    <3> QED BY <1>2, <3>1, <3>4, <3>6 DEF InClass
  <2>2. \A rest : IsSequence(rest) => InClass(key \o rest, m.name)
    <3> HIDE DEF key
    <3> QED BY <2>1, ClassBelow
  <2> HIDE DEF key
  <2>3. Clear(key, scope, schemes) /\ \A rest : IsSequence(rest) => Clear(key \o rest, scope, schemes)
    BY <1>2, <2>1, <2>2, InClassClear
  <2> QED BY <2>3 DEF key
<1> QED BY <1>1, <1>2

LEMMA ClearAssociation ==
  ASSUME NEW m, NEW scope, NEW a, NEW schemes,
         m.publisher = "Classes" => m.name \notin schemes,
         ({a.progId} \cup a.extensions) \cap schemes = {}, IsFiniteSet(a.extensions)
  PROVE  ClearValues(AssociationValues(m, scope, a), scope, schemes)
<1> DEFINE class == Class(scope, <<a.progId>>)
           handler == HandlerClass(class, <<a.description>>, a, FALSE)
           list == Enumerated(a.extensions)
           entry(e) == <<String(Class(scope, <<e, "OpenWithProgids">>), a.progId, <<>>),
                         String(CapabilitiesKey(m, scope) \o <<"FileAssociations">>,
                                e, <<a.progId>>)>>
           seqs == [i \in DOMAIN list |-> entry(list[i])]
<1>1. AssociationValues(m, scope, a) = handler \o FlattenSeq(seqs)
  BY DEF AssociationValues, Each
<1>2. ClearValues(handler, scope, schemes)
  <2>1. InClass(class, a.progId) /\ a.progId \notin schemes BY OfClass
  <2> HIDE DEF class
  <2> QED BY <2>1, ClearHandler
<1>3. IsSequence(list) /\ ToSet(list) = a.extensions BY EnumeratedHolds
<1>4. ASSUME NEW e \in a.extensions PROVE ClearValues(entry(e), scope, schemes)
  <2> DEFINE below == CapabilitiesKey(m, scope) \o <<"FileAssociations">>
             own == Class(scope, <<e, "OpenWithProgids">>)
  <2>1. Clear(below, scope, schemes)
    <3>1. IsSequence(<<"FileAssociations">>) BY OneListed
    <3> QED BY <3>1, CapabilitiesClear
  <2>2. Clear(own, scope, schemes)
    <3>1. IsSequence(<<"OpenWithProgids">>) BY OneListed
    <3>2. InClass(Class(scope, <<e>> \o <<"OpenWithProgids">>), e) BY <3>1, OfClassBelow
    <3>3. <<e>> \o <<"OpenWithProgids">> = <<e, "OpenWithProgids">> BY OneBefore, Zenon
    <3>4. InClass(own, e) /\ e \notin schemes BY <3>2, <3>3
    <3> HIDE DEF own
    <3> QED BY <3>4, InClassClear
  <2> HIDE DEF below, own
  <2>3. ClearValues(<<String(own, a.progId, <<>>), String(below, e, <<a.progId>>)>>, scope, schemes)
    BY <2>1, <2>2, ClearTwo
  <2> QED BY <2>3 DEF below, own
<1> HIDE DEF handler, list, entry
<1>5. \A i \in DOMAIN list : list[i] \in a.extensions BY <1>3 DEF ToSet
<1>6. IsSequence(seqs) /\ DOMAIN seqs = DOMAIN list BY <1>3, Mapped
<1>7. \A i \in DOMAIN seqs : ClearValues(seqs[i], scope, schemes) BY <1>4, <1>5
<1> HIDE DEF seqs
<1>8. ClearValues(FlattenSeq(seqs), scope, schemes) BY <1>6, <1>7, ClearFlattened
<1> QED BY <1>1, <1>2, <1>8, ClearJoined

\* The scheme's own class only where it may be claimed.
LEMMA ClearProtocol ==
  ASSUME NEW m, NEW holds, NEW owned, NEW scope, NEW u, NEW schemes,
         m.publisher = "Classes" => m.name \notin schemes,
         ProgIdOf(m, u) \notin schemes,
         u.scheme \in schemes => ~MayClaim(holds, owned, scope, u.scheme)
  PROVE  ClearValues(ProtocolValues(m, holds, owned, scope, u), scope, schemes)
<1> DEFINE class == Class(scope, <<ProgIdOf(m, u)>>)
           own == Class(scope, <<u.scheme>>)
           text == <<"URL:", IF u.description = None THEN u.scheme ELSE u.description>>
           key == CapabilitiesKey(m, scope) \o <<"URLAssociations">>
           handler == HandlerClass(class, text, u, TRUE)
           entry == <<String(key, u.scheme, <<ProgIdOf(m, u)>>)>>
           claim == IF MayClaim(holds, owned, scope, u.scheme)
                    THEN HandlerClass(own, text, u, TRUE) ELSE <<>>
<1>1. ProtocolValues(m, holds, owned, scope, u) = (handler \o entry) \o claim
  BY DEF ProtocolValues
<1>2. ClearValues(handler, scope, schemes)
  <2>1. InClass(class, ProgIdOf(m, u)) BY OfClass
  <2> HIDE DEF class, text
  <2> QED BY <2>1, ClearHandler
<1>3. ClearValues(entry, scope, schemes)
  <2>1. IsSequence(<<"URLAssociations">>) BY OneListed
  <2>2. Clear(key, scope, schemes) BY <2>1, CapabilitiesClear
  <2> HIDE DEF key
  <2> QED BY <2>2, ClearOne
<1>4. ClearValues(claim, scope, schemes)
  <2>1. InClass(own, u.scheme) BY OfClass
  <2> HIDE DEF own, text
  <2>2. CASE MayClaim(holds, owned, scope, u.scheme)
    <3>1. u.scheme \notin schemes BY <2>2
    <3>2. ClearValues(HandlerClass(own, text, u, TRUE), scope, schemes)
      BY <2>1, <3>1, ClearHandler
    <3> QED BY <2>2, <3>2
  <2>3. CASE ~MayClaim(holds, owned, scope, u.scheme) BY <2>3, ClearNone
  <2> QED BY <2>2, <2>3
<1> HIDE DEF handler, entry, claim
<1>5. ClearValues(handler \o entry, scope, schemes) BY <1>2, <1>3, ClearJoined
<1> QED BY <1>1, <1>4, <1>5, ClearJoined

LEMMA ClearAppPath ==
  ASSUME NEW scope, NEW p, NEW schemes
  PROVE  ClearValues(AppPathValues(scope, p), scope, schemes)
<1> DEFINE key == Append(AppPathsRoot(scope), Last(p.executable))
           first == <<String(key, "", Absolute(p.executable))>>
           rest == IF p.addDirectory THEN <<String(key, "Path", Front(Absolute(p.executable)))>>
                   ELSE <<>>
<1>1. AppPathValues(scope, p) = first \o rest BY DEF AppPathValues
<1>2. Outside(key) BY AppPathsOutside, OutsideMore
<1> HIDE DEF key
<1>3. Clear(key, scope, schemes) BY <1>2, OutsideClear
<1>4. ClearValues(first, scope, schemes) /\ ClearValues(rest, scope, schemes)
  BY <1>3, ClearOne, ClearNone
<1> HIDE DEF first, rest
<1> QED BY <1>1, <1>4, ClearJoined

LEMMA ClearVerb ==
  ASSUME NEW scope, NEW v, NEW schemes, IsFiniteSet(v.extensions),
         {"*", "Directory", "SystemFileAssociations"} \cap schemes = {}
  PROVE  ClearValues(VerbValues(scope, v), scope, schemes)
<1> DEFINE associated == {<<"SystemFileAssociations", e>> : e \in v.extensions}
           classes == CASE v.target = "directories" -> {<<"Directory">>}
                        [] v.target = "directory-background" -> {<<"Directory", "Background">>}
                        [] v.target = "files" /\ v.extensions = {} -> {<<"*">>}
                        [] OTHER -> associated
           argument == IF v.target = "directory-background" THEN "%V" ELSE "%1"
           Key(class) == Class(scope, class \o <<"shell", v.verb>>)
           first(class) == <<String(Key(class), "", <<v.label>>)>>
           second(class) == IF v.icon = Root THEN <<>> ELSE <<String(Key(class), "Icon", Icon(v))>>
           third(class) == <<String(Append(Key(class), "command"), "", Command(v, argument))>>
           list == Enumerated(classes)
           seqs == [i \in DOMAIN list |->
                      (first(list[i]) \o second(list[i])) \o third(list[i])]
<1>1. VerbValues(scope, v) = FlattenSeq(seqs) BY DEF VerbValues, Each
<1>2. IsFiniteSet(classes)
  <2>1. IsFiniteSet(associated)
    <3> DEFINE f == [e \in v.extensions |-> <<"SystemFileAssociations", e>>]
    <3>1. associated = {f[e] : e \in v.extensions} OBVIOUS
    <3> HIDE DEF f, associated
    <3>2. IsFiniteSet({f[e] : e \in v.extensions}) BY FiniteImage
    <3> QED BY <3>1, <3>2
  <2>2. \/ \E x : classes = {x}
        \/ classes = associated
    <3> HIDE DEF associated
    <3> QED OBVIOUS
  <2>3. \A x : IsFiniteSet({x}) BY FS_Singleton
  <2> HIDE DEF associated, classes
  <2> QED BY <2>1, <2>2, <2>3
<1>3. ASSUME NEW class \in classes
      PROVE  \E name \in {"*", "Directory", "SystemFileAssociations"} : \E rest :
               IsSequence(rest) /\ class = <<name>> \o rest
  <2>1. \/ class = <<"Directory">> \o <<>> \/ class = <<"Directory">> \o <<"Background">>
        \/ class = <<"*">> \o <<>>
        \/ \E e \in v.extensions : class = <<"SystemFileAssociations">> \o <<e>>
    OBVIOUS
  <2>2. IsSequence(<<>>) /\ \A x : IsSequence(<<x>>) BY OneListed, NoneListed
  <2> QED BY <2>1, <2>2
<1>4. ASSUME NEW class \in classes
      PROVE  ClearValues((first(class) \o second(class)) \o third(class), scope, schemes)
  <2>0. PICK name \in {"*", "Directory", "SystemFileAssociations"} : \E rest :
               IsSequence(rest) /\ class = <<name>> \o rest
    BY <1>3
  <2>1. PICK rest : IsSequence(rest) /\ class = <<name>> \o rest BY <2>0
  <2>2. IsSequence(<<name>>) /\ IsSequence(<<"shell", v.verb>>) BY OneListed, TwoListed
  <2>3. class \o <<"shell", v.verb>> = <<name>> \o (rest \o <<"shell", v.verb>>)
    <3> DEFINE S == ToSet(rest) \cup {name, "shell", v.verb}
               a == <<name>>
               b == <<"shell", v.verb>>
    <3>1. a \in Seq(S) /\ rest \in Seq(S) /\ b \in Seq(S) BY <2>1 DEF IsSequence
    <3> HIDE DEF S, a, b
    <3>2. (a \o rest) \o b = a \o (rest \o b) BY <3>1
    <3> QED BY <2>1, <3>2 DEF a, b
  <2>4. IsSequence(rest \o <<"shell", v.verb>>) BY <2>1, <2>2, Joined, Zenon
  <2>5. InClass(Key(class), name) /\ name \notin schemes BY <2>3, <2>4, OfClassBelow
  <2>6. InClass(Append(Key(class), "command"), name) BY <2>5, ClassMore
  <2> HIDE DEF Key
  <2>7. Clear(Key(class), scope, schemes) /\ Clear(Append(Key(class), "command"), scope, schemes)
    BY <2>5, <2>6, InClassClear
  <2>8. /\ ClearValues(first(class), scope, schemes) /\ ClearValues(second(class), scope, schemes)
        /\ ClearValues(third(class), scope, schemes)
    BY <2>7, ClearOne, ClearNone
  <2> HIDE DEF first, second, third
  <2> QED BY <2>8, ClearJoined
<1> HIDE DEF classes, Key, first, second, third
<1>5. IsSequence(list) /\ ToSet(list) = classes BY <1>2, EnumeratedHolds
<1> HIDE DEF list
<1>6. \A i \in DOMAIN list : list[i] \in classes BY <1>5 DEF ToSet
<1>7. IsSequence(seqs) /\ DOMAIN seqs = DOMAIN list BY <1>5, Mapped
<1>8. \A i \in DOMAIN seqs : ClearValues(seqs[i], scope, schemes) BY <1>4, <1>6
<1> HIDE DEF seqs
<1> QED BY <1>1, <1>7, <1>8, ClearFlattened

LEMMA ClearCapabilities ==
  ASSUME NEW m, NEW scope, NEW schemes, m.publisher = "Classes" => m.name \notin schemes
  PROVE  ClearValues(CapabilityValues(m, scope), scope, schemes)
<1> DEFINE key == CapabilitiesKey(m, scope)
           list == SoftwareRoot(scope) \o <<"RegisteredApplications">>
           description == IF m.description = None THEN m.name ELSE m.description
<1>1. Clear(key, scope, schemes) BY CapabilitiesClear
<1>2. Clear(list, scope, schemes)
  <2> DEFINE below == <<"RegisteredApplications">>
  <2>1. IsSequence(below) /\ Len(below) >= 1 /\ below[1] # "Classes" BY OneListed
  <2> HIDE DEF below
  <2>2. Outside(SoftwareRoot(scope) \o below) BY <2>1, SoftwareOutside
  <2>3. Clear(SoftwareRoot(scope) \o below, scope, schemes) BY <2>2, OutsideClear
  <2> QED BY <2>3 DEF below
<1>3. CapabilityValues(m, scope) =
        <<String(key, "ApplicationName", <<m.name>>),
          String(key, "ApplicationDescription", <<description>>), String(list, m.name, Tail(key))>>
  BY DEF CapabilityValues
<1> HIDE DEF key, list, description
<1> QED BY <1>1, <1>2, <1>3, ClearThree

-----------------------------------------------------------------------------
(* What a package wants.                                                    *)

LEMMA ClearProduct ==
  ASSUME NEW m, Typed(m), NEW opts, NEW scope, NEW schemes,
         \A v \in ToSet(m.registry), s \in schemes :
            ~IsUnder(ValueKey(v, scope), Class(scope, <<s>>))
  PROVE  ClearValues(ProductValues(m, opts, scope), scope, schemes)
<1> DEFINE list == Wanted(m.registry, opts)
           item(v) == [id |-> <<"value", ValueKey(v, scope), v.name>>,
                       data |-> <<<<v.kind>>, Expand(m, v.data)>>]
           entry(v) == <<item(v)>>
           seqs == [i \in DOMAIN list |-> entry(list[i])]
<1>1. ProductValues(m, opts, scope) = FlattenSeq(seqs) BY DEF ProductValues, Each
<1>2. IsSequence(list) /\ ToSet(list) \subseteq ToSet(m.registry)
  <2>1. IsSequence(m.registry) BY DEF Typed
  <2> QED BY <2>1, WantedOf
<1>3. ASSUME NEW v \in ToSet(m.registry) PROVE ClearValues(entry(v), scope, schemes)
  <2> DEFINE key == ValueKey(v, scope)
  <2>1. IsSequence(key)
    <3>1. IsSequence(v.key) BY DEF Typed
    <3>2. IsSequence(SoftwareRoot(scope)) /\ IsSequence(<<v.root>>)
      BY OneListed, TwoListed DEF SoftwareRoot
    <3> DEFINE root == IF v.root = None THEN SoftwareRoot(scope) ELSE <<v.root>>
    <3>3. IsSequence(root) BY <3>2
    <3>4. key = root \o v.key BY DEF ValueKey
    <3> HIDE DEF root, key
    <3> QED BY <3>1, <3>3, <3>4, Joined
  <2>2. Clear(key, scope, schemes) BY <2>1 DEF Clear
  <2> HIDE DEF key
  <2> DEFINE x == [id |-> <<"value", key, v.name>>, data |-> <<<<v.kind>>, Expand(m, v.data)>>]
  <2>3. x.id[1] = "value" /\ x.id[2] = key OBVIOUS
  <2>4. entry(v) = <<x>> BY DEF key
  <2> HIDE DEF x, entry
  <2> QED BY <2>2, <2>3, <2>4, OneListed DEF ClearValues
<1> HIDE DEF list, entry
<1>4. \A i \in DOMAIN list : list[i] \in ToSet(m.registry) BY <1>2 DEF ToSet
<1>5. IsSequence(seqs) /\ DOMAIN seqs = DOMAIN list BY <1>2, Mapped
<1>6. \A i \in DOMAIN seqs : ClearValues(seqs[i], scope, schemes) BY <1>3, <1>4
<1> HIDE DEF seqs
<1> QED BY <1>1, <1>5, <1>6, ClearFlattened

LEMMA ClearAssociations ==
  ASSUME NEW m, NEW list, IsSequence(list), NEW scope, NEW schemes,
         m.publisher = "Classes" => m.name \notin schemes,
         \A a \in ToSet(list) : ({a.progId} \cup a.extensions) \cap schemes = {}
                                /\ IsFiniteSet(a.extensions)
  PROVE  ClearValues(FlattenSeq([i \in DOMAIN list |-> AssociationValues(m, scope, list[i])]),
                     scope, schemes)
<1> DEFINE seqs == [i \in DOMAIN list |-> AssociationValues(m, scope, list[i])]
<1>1. \A i \in DOMAIN list : list[i] \in ToSet(list) BY DEF ToSet
<1>2. IsSequence(seqs) /\ DOMAIN seqs = DOMAIN list BY Mapped
<1>3. \A i \in DOMAIN seqs : ClearValues(seqs[i], scope, schemes) BY <1>1, ClearAssociation
<1> HIDE DEF seqs
<1>9. ClearValues(FlattenSeq(seqs), scope, schemes) BY <1>2, <1>3, ClearFlattened
<1> QED BY <1>9 DEF seqs

LEMMA ClearProtocols ==
  ASSUME NEW m, NEW list, IsSequence(list), NEW scope, NEW schemes,
         m.publisher = "Classes" => m.name \notin schemes,
         NEW holds, NEW owned,
         \A u \in ToSet(list) : ProgIdOf(m, u) \notin schemes,
         \A s \in schemes : ~MayClaim(holds, owned, scope, s)
  PROVE  ClearValues(FlattenSeq([i \in DOMAIN list |->
                                   ProtocolValues(m, holds, owned, scope, list[i])]),
                     scope, schemes)
<1> DEFINE seqs == [i \in DOMAIN list |-> ProtocolValues(m, holds, owned, scope, list[i])]
<1>1. \A i \in DOMAIN list : list[i] \in ToSet(list) BY DEF ToSet
<1>2. IsSequence(seqs) /\ DOMAIN seqs = DOMAIN list BY Mapped
<1>3. \A i \in DOMAIN seqs : ClearValues(seqs[i], scope, schemes) BY <1>1, ClearProtocol
<1> HIDE DEF seqs
<1>9. ClearValues(FlattenSeq(seqs), scope, schemes) BY <1>2, <1>3, ClearFlattened
<1> QED BY <1>9 DEF seqs

LEMMA ClearAppPaths ==
  ASSUME NEW list, IsSequence(list), NEW scope, NEW schemes
  PROVE  ClearValues(FlattenSeq([i \in DOMAIN list |-> AppPathValues(scope, list[i])]),
                     scope, schemes)
<1> DEFINE seqs == [i \in DOMAIN list |-> AppPathValues(scope, list[i])]
<1>1. IsSequence(seqs) BY Mapped
<1>2. \A i \in DOMAIN seqs : ClearValues(seqs[i], scope, schemes) BY ClearAppPath
<1> HIDE DEF seqs
<1>9. ClearValues(FlattenSeq(seqs), scope, schemes) BY <1>1, <1>2, ClearFlattened
<1> QED BY <1>9 DEF seqs

LEMMA ClearVerbs ==
  ASSUME NEW list, IsSequence(list), NEW scope, NEW schemes,
         \A v \in ToSet(list) : IsFiniteSet(v.extensions),
         {"*", "Directory", "SystemFileAssociations"} \cap schemes = {}
  PROVE  ClearValues(FlattenSeq([i \in DOMAIN list |-> VerbValues(scope, list[i])]), scope, schemes)
<1> DEFINE seqs == [i \in DOMAIN list |-> VerbValues(scope, list[i])]
<1>1. \A i \in DOMAIN list : list[i] \in ToSet(list) BY DEF ToSet
<1>2. IsSequence(seqs) /\ DOMAIN seqs = DOMAIN list BY Mapped
<1>3. \A i \in DOMAIN seqs : ClearValues(seqs[i], scope, schemes) BY <1>1, ClearVerb
<1> HIDE DEF seqs
<1>9. ClearValues(FlattenSeq(seqs), scope, schemes) BY <1>2, <1>3, ClearFlattened
<1> QED BY <1>9 DEF seqs

\* Nothing a version wants in the registry lies under the class of a scheme
\* that it may not claim.
LEMMA ClearIntegrations ==
  ASSUME NEW c \in Cases, NEW m \in c.versions, NEW opts, NEW holds, NEW owned,
         NEW schemes \in SUBSET PlainSchemes(c),
         \A s \in schemes : ~MayClaim(holds, owned, c.scope, s)
  PROVE  ClearValues(Integrations(m, opts, c.scope, holds, owned), c.scope, schemes)
<1> DEFINE scope == c.scope
           associations == Wanted(m.associations, opts)
           protocols == Wanted(m.protocols, opts)
           appPaths == Wanted(m.appPaths, opts)
           verbs == Wanted(m.verbs, opts)
           one == FlattenSeq([i \in DOMAIN associations |->
                                AssociationValues(m, scope, associations[i])])
           two == FlattenSeq([i \in DOMAIN protocols |->
                                ProtocolValues(m, holds, owned, scope, protocols[i])])
           three == FlattenSeq([i \in DOMAIN appPaths |-> AppPathValues(scope, appPaths[i])])
           four == FlattenSeq([i \in DOMAIN verbs |-> VerbValues(scope, verbs[i])])
           five == IF associations \o protocols = <<>> THEN <<>> ELSE CapabilityValues(m, scope)
<1>1. /\ Typed(m) /\ {"*", "Directory", "SystemFileAssociations"} \cap schemes = {}
      /\ \A x \in schemes : /\ \A a \in ToSet(m.associations) : x \notin {a.progId} \cup a.extensions
                            /\ \A u \in ToSet(m.protocols) : x # ProgIdOf(m, u)
                            /\ m.publisher = "Classes" => x # m.name
  BY InstallationAssumption DEF PlainSchemes
<1>2. /\ IsSequence(m.associations) /\ IsSequence(m.protocols) /\ IsSequence(m.appPaths)
      /\ IsSequence(m.verbs)
  BY <1>1 DEF Typed
<1>3. /\ IsSequence(associations) /\ ToSet(associations) \subseteq ToSet(m.associations)
      /\ IsSequence(protocols) /\ ToSet(protocols) \subseteq ToSet(m.protocols)
      /\ IsSequence(appPaths)
      /\ IsSequence(verbs) /\ ToSet(verbs) \subseteq ToSet(m.verbs)
  BY <1>2, WantedOf
<1>4. m.publisher = "Classes" => m.name \notin schemes BY <1>1
<1>5. \A a \in ToSet(associations) : ({a.progId} \cup a.extensions) \cap schemes = {}
                                     /\ IsFiniteSet(a.extensions)
  <2> HIDE DEF associations
  <2> QED BY <1>1, <1>3 DEF Typed
<1>6. \A u \in ToSet(protocols) : ProgIdOf(m, u) \notin schemes
  <2> HIDE DEF protocols
  <2> QED BY <1>1, <1>3
<1>7. \A v \in ToSet(verbs) : IsFiniteSet(v.extensions)
  <2> HIDE DEF verbs
  <2> QED BY <1>1, <1>3 DEF Typed
<1>8. Integrations(m, opts, scope, holds, owned) = (((one \o two) \o three) \o four) \o five
  BY DEF Integrations, Each
<1> HIDE DEF associations, protocols, appPaths, verbs, scope
<1>9. ClearValues(one, scope, schemes) BY <1>3, <1>4, <1>5, ClearAssociations
<1>10. ClearValues(two, scope, schemes) BY <1>3, <1>4, <1>6, ClearProtocols DEF scope
<1>11. ClearValues(three, scope, schemes) /\ ClearValues(four, scope, schemes)
  BY <1>1, <1>3, <1>7, ClearAppPaths, ClearVerbs
<1>12. ClearValues(five, scope, schemes) BY <1>4, ClearNone, ClearCapabilities
<1> HIDE DEF one, two, three, four, five
<1>13. ClearValues(one \o two, scope, schemes) BY <1>9, <1>10, ClearJoined, Zenon
<1>14. ClearValues((one \o two) \o three, scope, schemes)
  BY <1>11, <1>13, ClearJoined, Zenon
<1>15. ClearValues(((one \o two) \o three) \o four, scope, schemes)
  BY <1>11, <1>14, ClearJoined, Zenon
<1>16. ClearValues((((one \o two) \o three) \o four) \o five, scope, schemes)
  BY <1>12, <1>15, ClearJoined, Zenon
<1> QED BY <1>8, <1>16 DEF scope

-----------------------------------------------------------------------------
(* The kinds of what is wanted, and the shapes of the resources.            *)

Shaped(id) ==
  /\ id[1] \in {"key", "directory"} => id = <<id[1], id[2], "">> /\ IsSequence(id[2])
  /\ id[1] = "rule" => id = <<"rule", <<>>, id[3]>>

LEMMA PlainShape ==
  ASSUME NEW id, id[1] \notin {"key", "directory", "rule"}
  PROVE  Shaped(id)
  BY DEF Shaped

LEMMA RuleShape ==
  ASSUME NEW id, id[1] = "rule", id = <<"rule", <<>>, id[3]>>
  PROVE  Shaped(id)
  BY DEF Shaped

Of(list, kinds) ==
  IsSequence(list) /\ \A x \in ToSet(list) : x.id[1] \in kinds /\ Shaped(x.id)

LEMMA OfNone ==
  ASSUME NEW kinds
  PROVE  Of(<<>>, kinds)
  BY NoneListed DEF Of

LEMMA OfOne ==
  ASSUME NEW kinds, NEW x, x.id[1] \in kinds, Shaped(x.id)
  PROVE  Of(<<x>>, kinds)
  BY OneListed DEF Of

LEMMA OfFlattened ==
  ASSUME NEW kinds, NEW seqs, IsSequence(seqs), \A i \in DOMAIN seqs : Of(seqs[i], kinds)
  PROVE  Of(FlattenSeq(seqs), kinds)
<1>1. \A i \in DOMAIN seqs : IsSequence(seqs[i]) BY DEF Of
<1>2. /\ IsSequence(FlattenSeq(seqs))
      /\ ToSet(FlattenSeq(seqs)) = UNION {ToSet(seqs[i]) : i \in DOMAIN seqs}
  BY <1>1, Flattened
<1> QED BY <1>2 DEF Of

LEMMA FilesOf ==
  ASSUME NEW m, Typed(m), NEW opts
  PROVE  Of(DesiredFiles(m, opts), {"file"})
<1> DEFINE list == Wanted(m.files, opts)
           item(f) == [id |-> <<"file", f.path, "">>, data |-> Content(m, f.entry)]
           seqs == [i \in DOMAIN list |-> <<item(list[i])>>]
<1>1. DesiredFiles(m, opts) = FlattenSeq(seqs) BY DEF DesiredFiles, Each
<1>2. IsSequence(list)
  <2>1. IsSequence(m.files) BY DEF Typed
  <2> QED BY <2>1, WantedOf
<1>3. ASSUME NEW f PROVE Of(<<item(f)>>, {"file"})
  <2>1. item(f).id[1] = "file" OBVIOUS
  <2> HIDE DEF item
  <2> QED BY <2>1, OfOne, PlainShape
<1> HIDE DEF list, item
<1>4. IsSequence(seqs) BY <1>2, Mapped
<1>5. \A i \in DOMAIN seqs : Of(seqs[i], {"file"}) BY <1>3
<1> HIDE DEF seqs
<1> QED BY <1>1, <1>4, <1>5, OfFlattened

LEMMA DirectoriesListed ==
  ASSUME NEW m, Typed(m), NEW files
  PROVE  LET paths == DesiredDirectories(m, files)
         IN  IsSequence(paths) /\ \A path \in ToSet(paths) : IsSequence(path)
<1> DEFINE below == m.directories \cap UNION {Parents(files[i].id[2]) : i \in DOMAIN files}
<1>1. IsFiniteSet(below) /\ \A path \in below : IsSequence(path)
  <2>1. IsFiniteSet(m.directories) /\ \A path \in m.directories : IsSequence(path)
    BY DEF Typed
  <2>2. below \subseteq m.directories OBVIOUS
  <2> HIDE DEF below
  <2> QED BY <2>1, <2>2, FS_Subset
<1>2. DesiredDirectories(m, files) = <<Root>> \o ByDepth(below) BY DEF DesiredDirectories
<1> HIDE DEF below
<1>3. IsSequence(ByDepth(below)) /\ ToSet(ByDepth(below)) = below BY <1>1, ByDepthHolds
<1>4. IsSequence(<<Root>>) /\ ToSet(<<Root>>) = {Root} /\ IsSequence(Root)
  BY OneListed, NoneListed DEF Root
<1> DEFINE first == <<Root>>
           rest == ByDepth(below)
<1> HIDE DEF first, rest
<1>5. IsSequence(first \o rest) /\ ToSet(first \o rest) = ToSet(first) \cup ToSet(rest)
  BY <1>3, <1>4, Joined DEF first, rest
<1> QED BY <1>1, <1>2, <1>3, <1>4, <1>5 DEF first, rest

LEMMA PathOf ==
  ASSUME NEW m, Typed(m), NEW opts
  PROVE  Of(PathEntries(m, opts), {"path"})
<1> DEFINE wanted == ToSet(Wanted(m.path, opts))
           item(p) == [id |-> <<"path", Absolute(p.entry), "">>, data |-> <<>>]
           items == {item(p) : p \in wanted}
           list == Enumerated(items)
           seqs == [i \in DOMAIN list |-> <<list[i]>>]
<1>1. PathEntries(m, opts) = FlattenSeq(seqs) BY DEF PathEntries, Each
<1>2. IsFiniteSet(wanted)
  <2>1. IsSequence(m.path) BY DEF Typed
  <2>2. IsSequence(Wanted(m.path, opts)) BY <2>1, WantedOf
  <2> QED BY <2>2, FiniteListed
<1>3. IsFiniteSet(items)
  <2> DEFINE f == [p \in wanted |-> item(p)]
  <2>1. items = {f[p] : p \in wanted} OBVIOUS
  <2> HIDE DEF f, items, wanted
  <2> QED BY <1>2, <2>1, FiniteImage
<1>4. \A x \in items : x.id[1] = "path"
  <2>1. \A p : item(p).id[1] = "path" OBVIOUS
  <2> HIDE DEF item, wanted
  <2> QED BY <2>1
<1> HIDE DEF items
<1>5. IsSequence(list) /\ ToSet(list) = items BY <1>3, EnumeratedHolds
<1> HIDE DEF list
<1>6. \A i \in DOMAIN list : list[i] \in items BY <1>5 DEF ToSet
<1>7. IsSequence(seqs) BY <1>5, Mapped
<1>8. \A i \in DOMAIN seqs : Of(seqs[i], {"path"}) BY <1>4, <1>6, OfOne, PlainShape
<1> HIDE DEF seqs
<1> QED BY <1>1, <1>7, <1>8, OfFlattened

LEMMA VariablesOf ==
  ASSUME NEW m, Typed(m), NEW opts, NEW scope
  PROVE  Of(Variables(m, opts, scope), {"variable"})
<1> DEFINE list == Wanted(m.environment, opts)
           item(v) == [id |-> <<"variable", EnvironmentKey(scope), v.name>>,
                       data |-> <<<<IF v.expandable THEN "expand_string" ELSE "string">>,
                                  Expand(m, v.value)>>]
           seqs == [i \in DOMAIN list |-> <<item(list[i])>>]
<1>1. Variables(m, opts, scope) = FlattenSeq(seqs) BY DEF Variables, Each
<1>2. IsSequence(list)
  <2>1. IsSequence(m.environment) BY DEF Typed
  <2> QED BY <2>1, WantedOf
<1>3. ASSUME NEW v PROVE Of(<<item(v)>>, {"variable"})
  <2>1. item(v).id[1] = "variable" OBVIOUS
  <2> HIDE DEF item
  <2> QED BY <2>1, OfOne, PlainShape
<1> HIDE DEF list, item
<1>4. IsSequence(seqs) BY <1>2, Mapped
<1>5. \A i \in DOMAIN seqs : Of(seqs[i], {"variable"}) BY <1>3
<1> HIDE DEF seqs
<1> QED BY <1>1, <1>4, <1>5, OfFlattened

LEMMA ShortcutsOf ==
  ASSUME NEW m, Typed(m), NEW opts, NEW scope
  PROVE  Of(Shortcuts(m, opts, scope), {"shortcut", "url"})
<1> DEFINE list == Wanted(m.shortcuts, opts)
           Place(s) == ShortcutFolder(scope, s.location) \o s.folder
           Directory(s) == IF s.directory = Root THEN Front(Absolute(s.target))
                           ELSE Absolute(s.directory)
           Link(s) == [id |-> <<"shortcut", Place(s), s.name>>,
                       data |-> <<Absolute(s.target),
                                  Absolute(IF s.icon = Root THEN s.target ELSE s.icon),
                                  Directory(s), s.arguments>>]
           Url(s) == [id |-> <<"url", Place(s), s.name>>,
                      data |-> <<<<s.url>>, IF s.icon = Root THEN <<>> ELSE Absolute(s.icon),
                                 <<>>, <<>>>>]
           entry(s) == IF ShortcutFolder(scope, s.location) = None THEN <<>>
                       ELSE <<IF s.url = None THEN Link(s) ELSE Url(s)>>
           seqs == [i \in DOMAIN list |-> entry(list[i])]
<1>1. Shortcuts(m, opts, scope) = FlattenSeq(seqs) BY DEF Shortcuts, Each
<1>2. IsSequence(list)
  <2>1. IsSequence(m.shortcuts) BY DEF Typed
  <2> QED BY <2>1, WantedOf
<1>3. ASSUME NEW s PROVE Of(entry(s), {"shortcut", "url"})
  <2>1. Link(s).id[1] = "shortcut" /\ Url(s).id[1] = "url" OBVIOUS
  <2> HIDE DEF Link, Url
  <2>2. Of(<<Link(s)>>, {"shortcut", "url"}) /\ Of(<<Url(s)>>, {"shortcut", "url"})
    BY <2>1, OfOne, PlainShape
  <2> QED BY <2>2, OfNone
<1> HIDE DEF list, entry
<1>4. IsSequence(seqs) BY <1>2, Mapped
<1>5. \A i \in DOMAIN seqs : Of(seqs[i], {"shortcut", "url"}) BY <1>3
<1> HIDE DEF seqs
<1> QED BY <1>1, <1>4, <1>5, OfFlattened

LEMMA RulesOf ==
  ASSUME NEW m, Typed(m), NEW opts
  PROVE  Of(Rules(m, opts), {"rule"})
<1> DEFINE list == Wanted(m.firewall, opts)
           item(r) == [id |-> <<"rule", <<>>, r.name>>,
                       data |-> <<Grouping(m), Absolute(r.program),
                                  <<r.direction, r.protocol, r.ports>>>>]
           seqs == [i \in DOMAIN list |-> <<item(list[i])>>]
<1>1. Rules(m, opts) = FlattenSeq(seqs) BY DEF Rules, Each
<1>2. IsSequence(list)
  <2>1. IsSequence(m.firewall) BY DEF Typed
  <2> QED BY <2>1, WantedOf
<1>3. ASSUME NEW r PROVE Of(<<item(r)>>, {"rule"})
  <2>1. item(r).id[1] = "rule" /\ item(r).id = <<"rule", <<>>, item(r).id[3]>> OBVIOUS
  <2> HIDE DEF item
  <2>2. Shaped(item(r).id) BY <2>1, RuleShape, Zenon
  <2> QED BY <2>1, <2>2, OfOne
<1> HIDE DEF list, item
<1>4. IsSequence(seqs) BY <1>2, Mapped
<1>5. \A i \in DOMAIN seqs : Of(seqs[i], {"rule"}) BY <1>3
<1> HIDE DEF seqs
<1> QED BY <1>1, <1>4, <1>5, OfFlattened

LEMMA BlocksOf ==
  ASSUME NEW m, Typed(m), NEW opts, NEW files, NEW s
  PROVE  Of(Blocks(m, opts, files, s), {"block"})
<1> DEFINE completions == Completions(m, opts, files)
           scripts == {[command |-> c.command, script |-> c.script] : c \in completions}
           list == Enumerated(scripts)
           item(c, profile) == [id |-> <<"block", <<s.account, profile>>, c.command>>,
                                data |-> <<Absolute(c.script)>>]
           entries(c) == [i \in DOMAIN Profiles |-> <<item(c, Profiles[i])>>]
           seqs == [i \in DOMAIN list |-> FlattenSeq(entries(list[i]))]
<1>1. Blocks(m, opts, files, s) = IF Reaches(s) /\ ~s.shared THEN FlattenSeq(seqs) ELSE <<>>
  BY DEF Blocks, Each
<1>2. IsFiniteSet(completions)
  <2>1. IsSequence(m.completions) BY DEF Typed
  <2>2. IsSequence(Wanted(m.completions, opts)) BY <2>1, WantedOf
  <2>3. completions \subseteq ToSet(Wanted(m.completions, opts)) BY DEF Completions
  <2> HIDE DEF completions
  <2> QED BY <2>2, <2>3, FiniteListed, FS_Subset
<1>3. IsFiniteSet(scripts)
  <2> DEFINE f == [c \in completions |-> [command |-> c.command, script |-> c.script]]
  <2>1. scripts = {f[c] : c \in completions} OBVIOUS
  <2> HIDE DEF f, scripts, completions
  <2> QED BY <1>2, <2>1, FiniteImage
<1>4. ASSUME NEW c PROVE Of(FlattenSeq(entries(c)), {"block"})
  <2>1. \A profile : item(c, profile).id[1] = "block" OBVIOUS
  <2> HIDE DEF item
  <2>2. IsSequence(Profiles) BY TwoListed DEF Profiles
  <2>3. IsSequence(entries(c)) BY <2>2, Mapped
  <2>4. \A i \in DOMAIN entries(c) : Of(entries(c)[i], {"block"}) BY <2>1, OfOne, PlainShape
  <2> HIDE DEF entries
  <2> QED BY <2>3, <2>4, OfFlattened
<1> HIDE DEF scripts, entries
<1>5. IsSequence(list) BY <1>3, EnumeratedHolds
<1> HIDE DEF list
<1>6. IsSequence(seqs) BY <1>5, Mapped
<1>7. \A i \in DOMAIN seqs : Of(seqs[i], {"block"}) BY <1>4
<1> HIDE DEF seqs
<1>8. Of(FlattenSeq(seqs), {"block"}) BY <1>6, <1>7, OfFlattened
<1> QED BY <1>1, <1>8, OfNone

\* A registration is values of its key.
LEMMA RegistrationOf ==
  ASSUME NEW m, NEW scope
  PROVE  /\ IsSequence(Registration(m, scope))
         /\ \A x \in ToSet(Registration(m, scope)) :
               x.id[1] = "value" /\ x.id[2] = RegistrationKey(m, scope)
<1> DEFINE r == m.registration
           Given(text, otherwise) == <<IF text = None THEN otherwise ELSE text>>
           Optional(name, present, text) == IF present THEN <<<<name, text>>>> ELSE <<>>
           a == <<<<"DisplayName", Given(r.displayName, m.name)>>,
                  <<"DisplayVersion", Given(r.displayVersion, m.version)>>,
                  <<"Publisher", <<m.publisher>>>>,
                  <<"InstallLocation", InstallRoot>>>>
           b == Optional("DisplayIcon", r.displayIcon # Root, Absolute(r.displayIcon))
           d == <<<<"UninstallString", Uninstaller>>,
                  <<"QuietUninstallString", Uninstaller \o <<"uninstall", "--quiet">>>>>>
           e == Optional("URLInfoAbout", m.website # None, <<m.website>>)
           f == Optional("HelpLink", m.help # None, <<m.help>>)
           list == (((a \o b) \o d) \o e) \o f
           item(v) == String(RegistrationKey(m, scope), v[1], v[2])
           seqs == [i \in DOMAIN list |-> <<item(list[i])>>]
<1>1. Registration(m, scope) = FlattenSeq(seqs) BY DEF Registration, Each
<1>2. IsSequence(a) /\ IsSequence(b) /\ IsSequence(d) /\ IsSequence(e) /\ IsSequence(f)
  BY FourListed, TwoListed, OneListed, NoneListed
<1> HIDE DEF a, b, d, e, f
<1>3. IsSequence(a \o b) BY <1>2, Joined
<1>4. IsSequence((a \o b) \o d) BY <1>2, <1>3, Joined
<1>5. IsSequence(((a \o b) \o d) \o e) BY <1>2, <1>4, Joined
<1>6. IsSequence(list) BY <1>2, <1>5, Joined
<1> HIDE DEF list
<1>7. \A v : item(v).id[1] = "value" /\ item(v).id[2] = RegistrationKey(m, scope)
  BY DEF String
<1> HIDE DEF item
<1>8. IsSequence(seqs) BY <1>6, Mapped
<1>9. \A i \in DOMAIN seqs : IsSequence(seqs[i]) /\ \A x \in ToSet(seqs[i]) :
          x.id[1] = "value" /\ x.id[2] = RegistrationKey(m, scope)
  BY <1>7, OneListed
<1> HIDE DEF seqs
<1>10. /\ IsSequence(FlattenSeq(seqs))
       /\ ToSet(FlattenSeq(seqs)) = UNION {ToSet(seqs[i]) : i \in DOMAIN seqs}
  BY <1>8, <1>9, Flattened
<1> QED BY <1>1, <1>9, <1>10

-----------------------------------------------------------------------------
(* The operations of a plan, one after another.                             *)

\* The schemes of some that are not this installation's to claim.
Foreign(c, schemes) == {s \in schemes : ~MayClaim(c.machine, c.rows, c.scope, s)}

\* What a reconciliation starts from.
Ready(c, schemes) ==
  /\ c.repair \in BOOLEAN
  /\ IsFiniteSet(DOMAIN c.rows)
  /\ \A id \in DOMAIN c.rows : Shaped(id)
  /\ Of(c.wanted.files, {"file"})
  /\ IsSequence(c.wanted.directories)
  /\ \A path \in ToSet(c.wanted.directories) : IsSequence(path)
  /\ ClearValues(c.wanted.values, c.scope, Foreign(c, schemes))
  /\ Of(c.wanted.path, {"path"})
  /\ Of(c.wanted.variables, {"variable"})
  /\ Of(c.wanted.shortcuts, {"shortcut", "url"})
  /\ Of(c.wanted.blocks, {"block"})
  /\ Of(c.wanted.rules, {"rule"})
  /\ IsSequence(c.wanted.registration)
  /\ \A x \in ToSet(c.wanted.registration) : x.id[1] = "value" /\ x.id[2] = c.registrationKey
  /\ Outside(c.registrationKey)

\* A key is put in for a value below it, or is the value's own.
Needed(c, key) ==
  \E x \in ToSet(c.wanted.values) \cup ToSet(c.wanted.registration) :
    key = x.id[2] \/ \E n \in 1..Len(x.id[2]) : key = SubSeq(x.id[2], 1, n)

\* What is owned and was changed since.
Disturbed(c, id) ==
  id \in DOMAIN c.rows /\ Held(c.machine, id) \notin {Absent, c.rows[id].data}

Leftover == {"key", "directory", "shortcut", "url"}

OpStands(c, op) ==
  /\ op.do \in {"keep", "put", "take"}
  /\ op.do = "take" => op.id \in DOMAIN c.rows /\ (AsWritten(c, op.id) \/ op.id[1] \in Leftover)
  /\ op.do # "take" =>
       /\ Shaped(op.id)
       /\ op.id[1] \in {"key", "value"} => Needed(c, op.id[2])
       /\ op.id[1] = "key" => \/ op.was = Absent
                              \/ /\ KeyExists(c.machine, c.scope, op.id[2])
                                 /\ op.was = c.rows[op.id].was
  /\ op.do = "put" /\ op.id[1] \in {"value", "variable", "rule"} /\ Disturbed(c, op.id) =>
       c.repair \/ op.id[2] = c.registrationKey

Segment(c, list) == IsSequence(list) /\ \A op \in ToSet(list) : OpStands(c, op)

LEMMA KeptStands ==
  ASSUME NEW c, NEW id, NEW data, NEW was, Shaped(id),
         id[1] \in {"key", "value"} => Needed(c, id[2]),
         id[1] = "key" => was = Absent \/ (KeyExists(c.machine, c.scope, id[2])
                                           /\ was = c.rows[id].was)
  PROVE  OpStands(c, Keep(id, data, was))
<1> DEFINE op == Keep(id, data, was)
<1>1. op.do = "keep" /\ op.id = id /\ op.was = was BY DEF Keep
<1> HIDE DEF op
<1>2. OpStands(c, op) BY <1>1 DEF OpStands
<1> QED BY <1>2 DEF op

LEMMA PutStands ==
  ASSUME NEW c, NEW id, NEW data, NEW was, Shaped(id),
         id[1] \in {"key", "value"} => Needed(c, id[2]),
         id[1] = "key" => was = Absent,
         id[1] \in {"value", "variable", "rule"} /\ Disturbed(c, id) =>
            c.repair \/ id[2] = c.registrationKey
  PROVE  OpStands(c, Put(id, data, was))
<1> DEFINE op == Put(id, data, was)
<1>1. op.do = "put" /\ op.id = id /\ op.was = was BY DEF Put
<1> HIDE DEF op
<1>2. OpStands(c, op) BY <1>1 DEF OpStands
<1> QED BY <1>2 DEF op

LEMMA TakeStands ==
  ASSUME NEW c, NEW id \in DOMAIN c.rows, NEW was, AsWritten(c, id) \/ id[1] \in Leftover
  PROVE  OpStands(c, Take(id, was))
<1> DEFINE op == Take(id, was)
<1>1. op.do = "take" /\ op.id = id BY DEF Take
<1> HIDE DEF op
<1>2. OpStands(c, op) BY <1>1 DEF OpStands
<1> QED BY <1>2 DEF op

LEMMA SegmentNone ==
  ASSUME NEW c
  PROVE  Segment(c, <<>>)
  BY NoneListed DEF Segment

LEMMA SegmentOne ==
  ASSUME NEW c, NEW op, OpStands(c, op)
  PROVE  Segment(c, <<op>>)
  BY OneListed DEF Segment

LEMMA SegmentJoined ==
  ASSUME NEW c, NEW a, NEW b, Segment(c, a), Segment(c, b)
  PROVE  Segment(c, a \o b) /\ ToSet(a) \subseteq ToSet(a \o b)
<1>1. IsSequence(a) /\ IsSequence(b) BY DEF Segment
<1>2. IsSequence(a \o b) /\ ToSet(a \o b) = ToSet(a) \cup ToSet(b) BY <1>1, Joined, Zenon
<1> QED BY <1>2 DEF Segment

LEMMA SegmentFlattened ==
  ASSUME NEW c, NEW list, IsSequence(list), NEW seqs, DOMAIN seqs = DOMAIN list,
         seqs = [i \in DOMAIN seqs |-> seqs[i]],
         \A i \in DOMAIN seqs : Segment(c, seqs[i])
  PROVE  Segment(c, FlattenSeq(seqs))
<1>1. IsSequence(seqs) BY Mapped
<1>2. \A i \in DOMAIN seqs : IsSequence(seqs[i]) BY DEF Segment
<1>3. /\ IsSequence(FlattenSeq(seqs))
      /\ ToSet(FlattenSeq(seqs)) = UNION {ToSet(seqs[i]) : i \in DOMAIN seqs}
  BY <1>1, <1>2, Flattened
<1> QED BY <1>3 DEF Segment

LEMMA Member ==
  ASSUME NEW list, NEW i \in DOMAIN list
  PROVE  list[i] \in ToSet(list)
  BY DEF ToSet

LEMMA FilesStand ==
  ASSUME NEW c, Of(c.wanted.files, {"file"})
  PROVE  Segment(c, FileOps(c))
<1> DEFINE list == c.wanted.files
           entry(f) == IF Held(c.machine, f.id) = f.data THEN <<Keep(f.id, f.data, Absent)>>
                       ELSE <<Put(f.id, f.data, Absent)>>
           seqs == [i \in DOMAIN list |-> entry(list[i])]
<1>1. FileOps(c) = FlattenSeq(seqs) BY DEF FileOps, Each
<1>2. ASSUME NEW f \in ToSet(list) PROVE Segment(c, entry(f))
  <2>1. f.id[1] = "file" /\ Shaped(f.id) BY DEF Of
  <2>2. OpStands(c, Keep(f.id, f.data, Absent)) /\ OpStands(c, Put(f.id, f.data, Absent))
    BY <2>1, KeptStands, PutStands
  <2> QED BY <2>2, SegmentOne
<1>3. IsSequence(list) BY DEF Of
<1> HIDE DEF list, entry
<1>4. \A i \in DOMAIN seqs : Segment(c, seqs[i]) BY <1>2, Member
<1>5. DOMAIN seqs = DOMAIN list /\ seqs = [i \in DOMAIN seqs |-> seqs[i]] OBVIOUS
<1> HIDE DEF seqs
<1> QED BY <1>1, <1>3, <1>4, <1>5, SegmentFlattened

LEMMA DirectoriesStand ==
  ASSUME NEW c, IsSequence(c.wanted.directories),
         \A path \in ToSet(c.wanted.directories) : IsSequence(path)
  PROVE  Segment(c, DirectoryOps(c))
<1> DEFINE list == c.wanted.directories
           op(id) == IF id \notin DOMAIN c.machine THEN Put(id, <<>>, Absent)
                     ELSE IF Owned(c, id) THEN Keep(id, <<>>, c.rows[id].was)
                     ELSE Put(id, <<>>, <<>>)
           entry(path) == <<op(<<"directory", path, "">>)>>
           seqs == [i \in DOMAIN list |-> entry(list[i])]
<1>1. DirectoryOps(c) = FlattenSeq(seqs) BY DEF DirectoryOps, Each
<1>2. ASSUME NEW path \in ToSet(list) PROVE Segment(c, entry(path))
  <2> DEFINE id == <<"directory", path, "">>
  <2>1. id[1] = "directory" /\ Shaped(id) BY DEF Shaped
  <2> HIDE DEF id
  <2>2. \A data, was : OpStands(c, Keep(id, data, was)) /\ OpStands(c, Put(id, data, was))
    BY <2>1, KeptStands, PutStands
  <2>3. OpStands(c, op(id)) BY <2>2
  <2> HIDE DEF op
  <2>4. Segment(c, <<op(id)>>) BY <2>3, SegmentOne
  <2> QED BY <2>4 DEF id
<1> HIDE DEF list, entry
<1>4. \A i \in DOMAIN seqs : Segment(c, seqs[i]) BY <1>2, Member
<1>5. DOMAIN seqs = DOMAIN list /\ seqs = [i \in DOMAIN seqs |-> seqs[i]] OBVIOUS
<1>6. IsSequence(list) BY DEF list
<1> HIDE DEF seqs
<1> QED BY <1>1, <1>4, <1>5, <1>6, SegmentFlattened

LEMMA KeysStand ==
  ASSUME NEW c, NEW keys, IsFiniteSet(keys), \A key \in keys : IsSequence(key) /\ Needed(c, key)
  PROVE  Segment(c, KeyOps(c, keys))
<1> DEFINE list == ByDepth(keys)
           op(id) == IF ~KeyExists(c.machine, c.scope, id[2]) THEN <<Put(id, <<>>, Absent)>>
                     ELSE IF Owned(c, id) THEN <<Keep(id, <<>>, c.rows[id].was)>>
                     ELSE <<>>
           entry(key) == op(<<"key", key, "">>)
           seqs == [i \in DOMAIN list |-> entry(list[i])]
<1>1. KeyOps(c, keys) = FlattenSeq(seqs) BY DEF KeyOps, Each
<1>2. ASSUME NEW key \in keys PROVE Segment(c, entry(key))
  <2> DEFINE id == <<"key", key, "">>
  <2>1. id[1] = "key" /\ Shaped(id) /\ Needed(c, id[2]) BY DEF Shaped
  <2> HIDE DEF id
  <2>2. OpStands(c, Put(id, <<>>, Absent)) BY <2>1, PutStands
  <2>3. KeyExists(c.machine, c.scope, id[2]) => OpStands(c, Keep(id, <<>>, c.rows[id].was))
    BY <2>1, KeptStands
  <2>4. Segment(c, op(id)) BY <2>2, <2>3, SegmentOne, SegmentNone
  <2> HIDE DEF op
  <2> QED BY <2>4 DEF id
<1>3. IsSequence(list) /\ ToSet(list) = keys BY ByDepthHolds
<1> HIDE DEF list, entry
<1>4. \A i \in DOMAIN seqs : Segment(c, seqs[i]) BY <1>2, <1>3, Member
<1>5. DOMAIN seqs = DOMAIN list /\ seqs = [i \in DOMAIN seqs |-> seqs[i]] OBVIOUS
<1> HIDE DEF seqs
<1> QED BY <1>1, <1>3, <1>4, <1>5, SegmentFlattened

\* A changed value is overwritten by a repair alone, the registration apart.
LEMMA ValuesStand ==
  ASSUME NEW c, NEW items, IsSequence(items), NEW overwrite \in BOOLEAN,
         \A x \in ToSet(items) :
            /\ x.id[1] \in {"value", "variable"}
            /\ x.id[1] = "value" => Needed(c, x.id[2])
            /\ overwrite => c.repair \/ x.id[2] = c.registrationKey
  PROVE  Segment(c, ValueOps(c, items, overwrite))
<1> DEFINE seqs == [i \in DOMAIN items |-> <<ValueOp(c, items[i], overwrite)>>]
<1>1. ValueOps(c, items, overwrite) = FlattenSeq(seqs) BY DEF ValueOps, Each
<1>2. ASSUME NEW x \in ToSet(items) PROVE OpStands(c, ValueOp(c, x, overwrite))
  <2> DEFINE id == x.id
             now == Held(c.machine, id)
  <2>1. Shaped(id) /\ (id[1] \in {"key", "value"} => Needed(c, id[2])) /\ id[1] # "key"
        /\ (overwrite => c.repair \/ id[2] = c.registrationKey)
    BY DEF Shaped
  <2> HIDE DEF id, now
  <2>2. \A data, was : OpStands(c, Keep(id, data, was)) BY <2>1, KeptStands
  <2>3. \A data, was : ~Disturbed(c, id) \/ c.repair \/ id[2] = c.registrationKey
                          => OpStands(c, Put(id, data, was))
    BY <2>1, PutStands
  <2>4. ValueOp(c, x, overwrite) =
          IF ~Owned(c, id) THEN
              IF now = x.data THEN Keep(id, now, now) ELSE Put(id, x.data, now)
          ELSE IF now = x.data THEN Keep(id, now, c.rows[id].was)
          ELSE IF now = Absent \/ AsWritten(c, id) \/ overwrite THEN Put(id, x.data, c.rows[id].was)
          ELSE Keep(id, c.rows[id].data, c.rows[id].was)
    BY DEF ValueOp, id, now
  <2>5. ~Owned(c, id) \/ now = Absent \/ AsWritten(c, id) => ~Disturbed(c, id)
    BY DEF Disturbed, Owned, AsWritten, now
  <2> QED BY <2>1, <2>2, <2>3, <2>4, <2>5
<1>4. \A i \in DOMAIN seqs : Segment(c, seqs[i]) BY <1>2, Member, SegmentOne
<1>5. DOMAIN seqs = DOMAIN items /\ seqs = [i \in DOMAIN seqs |-> seqs[i]] OBVIOUS
<1> HIDE DEF seqs
<1> QED BY <1>1, <1>4, <1>5, SegmentFlattened

LEMMA PathStands ==
  ASSUME NEW c, Of(c.wanted.path, {"path"})
  PROVE  Segment(c, PathOps(c))
<1> DEFINE list == c.wanted.path
           op(id) == IF Owned(c, id) /\ c.rows[id].was # Absent THEN Keep(id, <<>>, c.rows[id].was)
                     ELSE IF id \notin DOMAIN c.machine THEN Put(id, <<>>, Absent)
                     ELSE IF Owned(c, id) THEN Keep(id, <<>>, Absent)
                     ELSE Keep(id, <<>>, <<>>)
           entry(x) == <<op(x.id)>>
           seqs == [i \in DOMAIN list |-> entry(list[i])]
<1>1. PathOps(c) = FlattenSeq(seqs) BY DEF PathOps, Each
<1>2. ASSUME NEW x \in ToSet(list) PROVE Segment(c, entry(x))
  <2>1. x.id[1] = "path" /\ Shaped(x.id) BY DEF Of
  <2>2. \A data, was : OpStands(c, Keep(x.id, data, was)) /\ OpStands(c, Put(x.id, data, was))
    BY <2>1, KeptStands, PutStands
  <2>3. OpStands(c, op(x.id)) BY <2>2
  <2> HIDE DEF op
  <2> QED BY <2>3, SegmentOne
<1>3. IsSequence(list) BY DEF Of
<1> HIDE DEF list, entry
<1>4. \A i \in DOMAIN seqs : Segment(c, seqs[i]) BY <1>2, Member
<1>5. DOMAIN seqs = DOMAIN list /\ seqs = [i \in DOMAIN seqs |-> seqs[i]] OBVIOUS
<1> HIDE DEF seqs
<1> QED BY <1>1, <1>3, <1>4, <1>5, SegmentFlattened

LEMMA PlacedStand ==
  ASSUME NEW c, NEW list, Of(list, {"shortcut", "url", "block"})
  PROVE  Segment(c, PlacedOps(c, list))
<1> DEFINE entry(x) == IF Held(c.machine, x.id) = x.data THEN <<Keep(x.id, x.data, Absent)>>
                       ELSE <<Put(x.id, x.data, Absent)>>
           seqs == [i \in DOMAIN list |-> entry(list[i])]
<1>1. PlacedOps(c, list) = FlattenSeq(seqs) BY DEF PlacedOps, Each
<1>2. ASSUME NEW x \in ToSet(list) PROVE Segment(c, entry(x))
  <2>1. x.id[1] \in {"shortcut", "url", "block"} /\ Shaped(x.id) BY DEF Of
  <2>2. OpStands(c, Keep(x.id, x.data, Absent)) /\ OpStands(c, Put(x.id, x.data, Absent))
    BY <2>1, KeptStands, PutStands
  <2> QED BY <2>2, SegmentOne
<1>3. IsSequence(list) BY DEF Of
<1> HIDE DEF entry
<1>4. \A i \in DOMAIN seqs : Segment(c, seqs[i]) BY <1>2, Member
<1>5. DOMAIN seqs = DOMAIN list /\ seqs = [i \in DOMAIN seqs |-> seqs[i]] OBVIOUS
<1> HIDE DEF seqs
<1> QED BY <1>1, <1>3, <1>4, <1>5, SegmentFlattened

\* A changed rule is written again by a repair alone, and none where two
\* share the name.
LEMMA RulesStand ==
  ASSUME NEW c, Of(c.wanted.rules, {"rule"})
  PROVE  Segment(c, RuleOps(c))
<1> DEFINE list == c.wanted.rules
           recorded(r) == IF Owned(c, r.id) THEN <<Keep(r.id, c.rows[r.id].data, Absent)>> ELSE <<>>
           named(r) == RulesNamed(c.machine, r.id[3])
           now(r) == c.machine[CHOOSE id \in named(r) : TRUE]
           entry(r) ==
             IF ~c.site.elevated \/ Ambiguous(c.machine, r.id[3]) THEN recorded(r)
             ELSE IF named(r) = {} THEN <<Put(r.id, r.data, Absent)>>
             ELSE IF now(r) = r.data THEN <<Keep(r.id, r.data, Absent)>>
             ELSE IF ~Owned(c, r.id) THEN <<>>
             ELSE IF now(r) = c.rows[r.id].data \/ c.repair THEN <<Put(r.id, r.data, Absent)>>
             ELSE recorded(r)
           seqs == [i \in DOMAIN list |-> entry(list[i])]
<1>1. RuleOps(c) = FlattenSeq(seqs) BY DEF RuleOps, Each
<1>2. ASSUME NEW r \in ToSet(list) PROVE Segment(c, entry(r))
  <2>1. r.id[1] = "rule" /\ Shaped(r.id) BY DEF Of
  <2>2. \A data, was : OpStands(c, Keep(r.id, data, was)) BY <2>1, KeptStands
  <2>3. ~Disturbed(c, r.id) \/ c.repair => OpStands(c, Put(r.id, r.data, Absent))
    BY <2>1, PutStands
  <2>4. Disturbed(c, r.id) => r.id \in named(r)
    BY <2>1 DEF Disturbed, Held, RulesNamed, OfKind
  <2>5. ASSUME Disturbed(c, r.id), ~Ambiguous(c.machine, r.id[3])
        PROVE  now(r) = Held(c.machine, r.id) /\ now(r) # c.rows[r.id].data /\ named(r) # {}
    <3>1. (CHOOSE id \in named(r) : TRUE) \in named(r)
      <4> HIDE DEF named
      <4> QED BY <2>4, <2>5
    <3>2. (CHOOSE id \in named(r) : TRUE) = r.id BY <2>4, <2>5, <3>1 DEF Ambiguous
    <3>3. r.id \in DOMAIN c.machine BY <2>4, <2>5 DEF RulesNamed, OfKind
    <3>4. now(r) = c.machine[r.id] BY <3>2
    <3> QED BY <2>4, <2>5, <3>3, <3>4 DEF Disturbed, Held
  <2>6. Segment(c, recorded(r)) BY <2>2, SegmentOne, SegmentNone
  <2> HIDE DEF recorded, named, now
  <2> QED BY <2>2, <2>3, <2>5, <2>6, SegmentOne, SegmentNone
<1>3. IsSequence(list) BY DEF Of
<1> HIDE DEF list, entry
<1>4. \A i \in DOMAIN seqs : Segment(c, seqs[i]) BY <1>2, Member
<1>5. DOMAIN seqs = DOMAIN list /\ seqs = [i \in DOMAIN seqs |-> seqs[i]] OBVIOUS
<1> HIDE DEF seqs
<1> QED BY <1>1, <1>3, <1>4, <1>5, SegmentFlattened

-----------------------------------------------------------------------------
(* What a plan takes away.                                                  *)

LEMMA TakenStands ==
  ASSUME NEW c, IsFiniteSet(DOMAIN c.rows), NEW ids \in SUBSET DOMAIN c.rows
  PROVE  Segment(c, TakenBack(c, ids))
<1> DEFINE unchanged == {id \in ids : AsWritten(c, id)}
           list == Enumerated(unchanged)
           seqs == [i \in DOMAIN list |-> <<Take(list[i], c.rows[list[i]].was)>>]
<1>1. TakenBack(c, ids) = FlattenSeq(seqs) BY DEF TakenBack, Each
<1>2. IsFiniteSet(unchanged) /\ \A id \in unchanged : id \in DOMAIN c.rows /\ AsWritten(c, id)
  <2>1. unchanged \subseteq DOMAIN c.rows OBVIOUS
  <2> QED BY <2>1, FS_Subset
<1> HIDE DEF unchanged
<1>3. IsSequence(list) /\ ToSet(list) = unchanged BY <1>2, EnumeratedHolds
<1> HIDE DEF list
<1>4. \A i \in DOMAIN seqs : Segment(c, seqs[i])
  BY <1>2, <1>3, Member, TakeStands, SegmentOne
<1>5. DOMAIN seqs = DOMAIN list /\ seqs = [i \in DOMAIN seqs |-> seqs[i]] OBVIOUS
<1> HIDE DEF seqs
<1> QED BY <1>1, <1>3, <1>4, <1>5, SegmentFlattened

LEMMA DroppedStands ==
  ASSUME NEW c, NEW list, IsSequence(list),
         \A id \in ToSet(list) : id \in DOMAIN c.rows /\ id[1] \in Leftover
  PROVE  Segment(c, Dropped(list))
<1> DEFINE seqs == [i \in DOMAIN list |-> <<Take(list[i], Absent)>>]
<1>1. Dropped(list) = FlattenSeq(seqs) BY DEF Dropped, Each
<1>4. \A i \in DOMAIN seqs : Segment(c, seqs[i]) BY Member, TakeStands, SegmentOne
<1>5. DOMAIN seqs = DOMAIN list /\ seqs = [i \in DOMAIN seqs |-> seqs[i]] OBVIOUS
<1> HIDE DEF seqs
<1> QED BY <1>1, <1>4, <1>5, SegmentFlattened

LEMMA SomeHeld ==
  ASSUME NEW list, IsSequence(list), NEW seqs, DOMAIN seqs = DOMAIN list,
         seqs = [i \in DOMAIN seqs |-> seqs[i]],
         \A i \in DOMAIN seqs : seqs[i] = <<list[i]>> \/ seqs[i] = <<>>
  PROVE  IsSequence(FlattenSeq(seqs)) /\ ToSet(FlattenSeq(seqs)) \subseteq ToSet(list)
<1>1. IsSequence(seqs) BY Mapped
<1>2. \A i \in DOMAIN seqs : IsSequence(seqs[i]) /\ ToSet(seqs[i]) \subseteq ToSet(list)
  <2> SUFFICES ASSUME NEW i \in DOMAIN seqs
               PROVE  IsSequence(seqs[i]) /\ ToSet(seqs[i]) \subseteq ToSet(list)
    OBVIOUS
  <2> DEFINE x == list[i]
             one == <<x>>
  <2>1. x \in ToSet(list) BY Member
  <2>2. IsSequence(one) /\ ToSet(one) = {x} BY OneListed
  <2>3. seqs[i] = one \/ seqs[i] = <<>> OBVIOUS
  <2> HIDE DEF x, one
  <2> QED BY <2>1, <2>2, <2>3, NoneListed
<1>3. /\ IsSequence(FlattenSeq(seqs))
      /\ ToSet(FlattenSeq(seqs)) = UNION {ToSet(seqs[i]) : i \in DOMAIN seqs}
  BY <1>1, <1>2, Flattened
<1> QED BY <1>2, <1>3

\* The places of some rows of a kind, in an order of their depth.
LEMMA PlacesListed ==
  ASSUME NEW c, IsFiniteSet(DOMAIN c.rows), \A id \in DOMAIN c.rows : Shaped(id),
         NEW kind \in {"key", "directory"}, NEW others
  PROVE  LET created == {id[2] : id \in {k \in OfKind(kind, c.rows) : c.rows[k].was = Absent}}
             list == Reverse(ByDepth(created \ others))
         IN  /\ IsSequence(list)
             /\ \A place \in ToSet(list) : <<kind, place, "">> \in DOMAIN c.rows
<1> DEFINE ids == {k \in OfKind(kind, c.rows) : c.rows[k].was = Absent}
           created == {id[2] : id \in ids}
           places == created \ others
<1>1. ids \subseteq DOMAIN c.rows /\ \A id \in ids : id = <<kind, id[2], "">> /\ IsSequence(id[2])
  BY DEF OfKind, Shaped
<1> HIDE DEF ids
<1>2. IsFiniteSet(ids) BY <1>1, FS_Subset
<1>3. IsFiniteSet(created)
  <2> DEFINE f == [id \in ids |-> id[2]]
  <2>1. created = {f[id] : id \in ids} OBVIOUS
  <2> HIDE DEF f, created
  <2> QED BY <1>2, <2>1, FiniteImage
<1>4. \A place \in places : IsSequence(place) /\ <<kind, place, "">> \in DOMAIN c.rows
  BY <1>1
<1>5. IsFiniteSet(places)
  <2>1. places \subseteq created OBVIOUS
  <2> HIDE DEF created, places
  <2> QED BY <1>3, <2>1, FS_Subset
<1> HIDE DEF places
<1>6. IsSequence(ByDepth(places)) /\ ToSet(ByDepth(places)) = places
  BY <1>4, <1>5, ByDepthHolds
<1>7. IsSequence(Reverse(ByDepth(places))) /\ ToSet(Reverse(ByDepth(places))) = places
  BY <1>6, Turned
<1> QED BY <1>4, <1>7 DEF places, ids

LEMMA PlaceIds ==
  ASSUME NEW list, IsSequence(list)
  PROVE  /\ IsSequence(KeyIds(list))
         /\ \A id \in ToSet(KeyIds(list)) : \E place \in ToSet(list) : id = <<"key", place, "">>
         /\ IsSequence(DirectoryIds(list))
         /\ \A id \in ToSet(DirectoryIds(list)) :
              \E place \in ToSet(list) : id = <<"directory", place, "">>
<1> DEFINE keys == KeyIds(list)
           directories == DirectoryIds(list)
<1>1. /\ DOMAIN keys = DOMAIN list /\ \A i \in DOMAIN list : keys[i] = <<"key", list[i], "">>
      /\ keys = [i \in DOMAIN keys |-> keys[i]]
  BY DEF KeyIds
<1>2. /\ DOMAIN directories = DOMAIN list
      /\ \A i \in DOMAIN list : directories[i] = <<"directory", list[i], "">>
      /\ directories = [i \in DOMAIN directories |-> directories[i]]
  BY DEF DirectoryIds
<1> HIDE DEF keys, directories
<1>3. IsSequence(keys) /\ IsSequence(directories) BY <1>1, <1>2, Mapped
<1>4. \A id \in ToSet(keys) : \E place \in ToSet(list) : id = <<"key", place, "">>
  BY <1>1 DEF ToSet
<1>5. \A id \in ToSet(directories) : \E place \in ToSet(list) : id = <<"directory", place, "">>
  BY <1>2 DEF ToSet
<1> QED BY <1>3, <1>4, <1>5 DEF keys, directories

LEMMA RemovalsStand ==
  ASSUME NEW c, IsFiniteSet(DOMAIN c.rows), \A id \in DOMAIN c.rows : Shaped(id)
  PROVE  Segment(c, Removals(c))
<1> DEFINE values == Surplus(c, "value", ValueIds(c))
           keys == KeyIds(SurplusKeys(c))
           single == {id \in SurplusRules(c) :
                        c.site.elevated /\ RulesNamed(c.machine, id[3]) = {id}}
           own == FlattenSeq([i \in DOMAIN keys |->
                                IF IsRegistration(c, keys[i]) THEN <<keys[i]>> ELSE <<>>])
           rest == FlattenSeq([i \in DOMAIN keys |->
                                 IF ~IsRegistration(c, keys[i]) THEN <<keys[i]>> ELSE <<>>])
           s1 == TakenBack(c, {id \in values : IsRegistration(c, id)})
           s2 == Dropped(own)
           s3 == TakenBack(c, single)
           s4 == TakenBack(c, {id \in SurplusBlocks(c) : MyBlock(c, id)})
           s5 == Dropped(Enumerated(SurplusShortcuts(c)))
           s6 == TakenBack(c, Surplus(c, "variable", Ids(c.wanted.variables)))
           s7 == TakenBack(c, Surplus(c, "path", Ids(c.wanted.path)))
           s8 == TakenBack(c, {id \in values : ~IsRegistration(c, id)})
           s9 == Dropped(rest)
           s10 == TakenBack(c, SurplusFiles(c))
           s11 == Dropped(DirectoryIds(SurplusDirectories(c)))
<1>1. Removals(c) =
        ((((((((((s1 \o s2) \o s3) \o s4) \o s5) \o s6) \o s7) \o s8) \o s9) \o s10) \o s11)
  BY DEF Removals, Those, Each
<1>2. /\ values \subseteq DOMAIN c.rows /\ single \subseteq DOMAIN c.rows
      /\ SurplusBlocks(c) \subseteq DOMAIN c.rows
      /\ Surplus(c, "variable", Ids(c.wanted.variables)) \subseteq DOMAIN c.rows
      /\ Surplus(c, "path", Ids(c.wanted.path)) \subseteq DOMAIN c.rows
      /\ SurplusFiles(c) \subseteq DOMAIN c.rows
      /\ SurplusShortcuts(c) \subseteq DOMAIN c.rows
      /\ \A id \in SurplusShortcuts(c) : id[1] \in Leftover
  BY DEF Surplus, OfKind, SurplusRules, SurplusBlocks, SurplusFiles, SurplusShortcuts, Leftover
<1> HIDE DEF values, single
<1>3. Segment(c, s1) /\ Segment(c, s8)
  <2>1. /\ {id \in values : IsRegistration(c, id)} \in SUBSET DOMAIN c.rows
        /\ {id \in values : ~IsRegistration(c, id)} \in SUBSET DOMAIN c.rows
    BY <1>2
  <2> QED BY <2>1, TakenStands
<1>4. Segment(c, s3) /\ Segment(c, s6) /\ Segment(c, s7) /\ Segment(c, s10)
  BY <1>2, TakenStands
<1>5. Segment(c, s4)
  <2>1. {id \in SurplusBlocks(c) : MyBlock(c, id)} \in SUBSET DOMAIN c.rows BY <1>2
  <2> QED BY <2>1, TakenStands
<1>6. Segment(c, s5)
  <2>1. IsFiniteSet(SurplusShortcuts(c)) BY <1>2, FS_Subset
  <2> DEFINE list == Enumerated(SurplusShortcuts(c))
  <2>2. IsSequence(list) /\ ToSet(list) = SurplusShortcuts(c) BY <2>1, EnumeratedHolds
  <2> HIDE DEF list
  <2>3. Segment(c, Dropped(list)) BY <1>2, <2>2, DroppedStands
  <2> QED BY <2>3 DEF list
<1>7. IsSequence(keys) /\ \A id \in ToSet(keys) : id \in DOMAIN c.rows /\ id[1] \in Leftover
  <2>1. /\ IsSequence(SurplusKeys(c))
        /\ \A place \in ToSet(SurplusKeys(c)) : <<"key", place, "">> \in DOMAIN c.rows
    BY PlacesListed DEF SurplusKeys
  <2>2. \A place : <<"key", place, "">>[1] = "key" OBVIOUS
  <2>3. IsSequence(keys) /\ \A id \in ToSet(keys) :
          \E place \in ToSet(SurplusKeys(c)) : id = <<"key", place, "">>
    BY <2>1, PlaceIds
  <2> HIDE DEF keys
  <2>4. \A id \in ToSet(keys) : id \in DOMAIN c.rows /\ id[1] = "key"
    BY <2>1, <2>2, <2>3, Zenon
  <2> QED BY <2>3, <2>4 DEF Leftover
<1> HIDE DEF keys
<1>8. Segment(c, s2) /\ Segment(c, s9)
  <2>1. IsSequence(own) /\ ToSet(own) \subseteq ToSet(keys) BY <1>7, SomeHeld
  <2>2. IsSequence(rest) /\ ToSet(rest) \subseteq ToSet(keys) BY <1>7, SomeHeld
  <2> HIDE DEF own, rest
  <2> QED BY <1>7, <2>1, <2>2, DroppedStands
<1>9. Segment(c, s11)
  <2> DEFINE list == SurplusDirectories(c)
             ids == DirectoryIds(list)
  <2>1. IsSequence(list) /\ \A place \in ToSet(list) : <<"directory", place, "">> \in DOMAIN c.rows
    BY PlacesListed DEF SurplusDirectories
  <2> HIDE DEF list
  <2>2. IsSequence(ids) /\ \A id \in ToSet(ids) : id \in DOMAIN c.rows /\ id[1] \in Leftover
    <3>1. \A place : <<"directory", place, "">>[1] = "directory" OBVIOUS
    <3>2. IsSequence(ids) /\ \A id \in ToSet(ids) :
            \E place \in ToSet(list) : id = <<"directory", place, "">>
      BY <2>1, PlaceIds
    <3> HIDE DEF ids
    <3>3. \A id \in ToSet(ids) : id \in DOMAIN c.rows /\ id[1] = "directory"
      BY <2>1, <3>1, <3>2, Zenon
    <3> QED BY <3>2, <3>3 DEF Leftover
  <2> HIDE DEF ids
  <2>3. Segment(c, Dropped(ids)) BY <2>2, DroppedStands
  <2> QED BY <2>3 DEF ids, list
<1> HIDE DEF s1, s2, s3, s4, s5, s6, s7, s8, s9, s10, s11
<1>10. Segment(c, s1 \o s2) BY <1>3, <1>8, SegmentJoined
<1>11. Segment(c, (s1 \o s2) \o s3) BY <1>4, <1>10, SegmentJoined
<1>12. Segment(c, ((s1 \o s2) \o s3) \o s4) BY <1>5, <1>11, SegmentJoined
<1>13. Segment(c, (((s1 \o s2) \o s3) \o s4) \o s5) BY <1>6, <1>12, SegmentJoined
<1>14. Segment(c, ((((s1 \o s2) \o s3) \o s4) \o s5) \o s6) BY <1>4, <1>13, SegmentJoined
<1>15. Segment(c, (((((s1 \o s2) \o s3) \o s4) \o s5) \o s6) \o s7)
  BY <1>4, <1>14, SegmentJoined
<1>16. Segment(c, ((((((s1 \o s2) \o s3) \o s4) \o s5) \o s6) \o s7) \o s8)
  BY <1>3, <1>15, SegmentJoined
<1>17. Segment(c, (((((((s1 \o s2) \o s3) \o s4) \o s5) \o s6) \o s7) \o s8) \o s9)
  BY <1>8, <1>16, SegmentJoined
<1>18. Segment(c, ((((((((s1 \o s2) \o s3) \o s4) \o s5) \o s6) \o s7) \o s8) \o s9) \o s10)
  BY <1>4, <1>17, SegmentJoined
<1>19. Segment(c,
         (((((((((s1 \o s2) \o s3) \o s4) \o s5) \o s6) \o s7) \o s8) \o s9) \o s10) \o s11)
  BY <1>9, <1>18, SegmentJoined
<1> QED BY <1>1, <1>19

LEMMA CarriedStand ==
  ASSUME NEW c, IsFiniteSet(DOMAIN c.rows), \A id \in DOMAIN c.rows : Shaped(id)
  PROVE  Segment(c, Carried(c))
<1> DEFINE ids == ForeignBlocks(c) \cup (IF c.site.elevated THEN {} ELSE SurplusRules(c))
           list == Enumerated(ids)
           seqs == [i \in DOMAIN list |->
                      <<Keep(list[i], c.rows[list[i]].data, c.rows[list[i]].was)>>]
<1>1. Carried(c) = FlattenSeq(seqs) BY DEF Carried, Each
<1>2. ids \subseteq DOMAIN c.rows /\ \A id \in ids : id[1] \in {"block", "rule"} /\ Shaped(id)
  BY DEF ForeignBlocks, SurplusBlocks, SurplusRules, Surplus, OfKind
<1> HIDE DEF ids
<1>3. IsSequence(list) /\ ToSet(list) = ids
  <2>1. IsFiniteSet(ids) BY <1>2, FS_Subset
  <2> QED BY <2>1, EnumeratedHolds
<1> HIDE DEF list
<1>4. \A i \in DOMAIN seqs : Segment(c, seqs[i])
  <2> SUFFICES ASSUME NEW i \in DOMAIN seqs PROVE Segment(c, seqs[i]) OBVIOUS
  <2>1. list[i] \in ids BY <1>3, Member
  <2>2. OpStands(c, Keep(list[i], c.rows[list[i]].data, c.rows[list[i]].was))
    BY <1>2, <2>1, KeptStands
  <2> QED BY <2>2, SegmentOne
<1>5. DOMAIN seqs = DOMAIN list /\ seqs = [i \in DOMAIN seqs |-> seqs[i]] OBVIOUS
<1> HIDE DEF seqs
<1> QED BY <1>1, <1>3, <1>4, <1>5, SegmentFlattened

-----------------------------------------------------------------------------
(* The whole plan.                                                          *)

LEMMA UnderAt ==
  ASSUME NEW key, NEW root, IsSequence(key), IsSequence(root), IsUnder(key, root)
  PROVE  Len(key) >= Len(root) /\ \A i \in 1..Len(root) : key[i] = root[i]
<1>1. \A i \in 1..Len(root) : i <= Len(key) /\ key[i] = root[i] BY Elsewhere
<1>2. Len(root) \in Nat /\ Len(key) \in Nat BY SequenceShape
<1>3. Len(key) >= Len(root)
  <2>1. CASE Len(root) = 0 BY <1>2, <2>1
  <2>2. CASE Len(root) \in 1..Len(root) BY <1>1, <1>2, <2>2
  <2> QED BY <1>2, <2>1, <2>2
<1> QED BY <1>1, <1>3

LEMMA Reached ==
  ASSUME NEW key, NEW root, IsSequence(key), IsSequence(root), Len(key) > Len(root),
         \A i \in 1..Len(root) : key[i] = root[i]
  PROVE  IsUnder(key, root)
<1>1. /\ Len(root) \in Nat /\ Len(key) \in Nat /\ root = [i \in 1..Len(root) |-> root[i]]
  BY SequenceShape
<1>2. CASE Len(root) = 0
  <2>1. root = <<>> BY <1>2 DEF IsSequence
  <2>2. SubSeq(key, 1, 0) = <<>> BY DEF IsSequence
  <2> QED BY <1>2, <2>1, <2>2 DEF IsUnder, Within
<1>3. CASE Len(root) # 0
  <2>1. /\ IsSequence(SubSeq(key, 1, Len(root))) /\ Len(SubSeq(key, 1, Len(root))) = Len(root)
        /\ \A i \in 1..Len(root) : SubSeq(key, 1, Len(root))[i] = key[i]
    BY <1>1, <1>3, SomeOf
  <2> DEFINE first == SubSeq(key, 1, Len(root))
  <2>2. first = [i \in 1..Len(first) |-> first[i]] BY <2>1, SequenceShape
  <2>3. Len(first) = Len(root) /\ \A i \in 1..Len(root) : first[i] = root[i] BY <2>1
  <2> HIDE DEF first
  <2>4. first = root BY <1>1, <2>2, <2>3
  <2> QED BY <2>4 DEF first, IsUnder, Within
<1> QED BY <1>2, <1>3

\* What a prefix of a key lies under the key lies under.
LEMMA PrefixUnder ==
  ASSUME NEW key, NEW root, IsSequence(key), IsSequence(root), NEW n \in 1..Len(key),
         IsUnder(SubSeq(key, 1, n), root)
  PROVE  IsUnder(key, root)
<1> DEFINE first == SubSeq(key, 1, n)
<1>1. IsSequence(first) /\ Len(first) = n /\ \A i \in 1..n : first[i] = key[i] BY SomeOf
<1>2. IsUnder(first, root) OBVIOUS
<1> HIDE DEF first
<1>3. n >= Len(root) /\ \A i \in 1..Len(root) : first[i] = root[i] BY <1>1, <1>2, UnderAt
<1>4. Len(root) \in Nat /\ Len(key) \in Nat BY SequenceShape
<1>5. \A i \in 1..Len(root) : key[i] = root[i] BY <1>1, <1>3, <1>4
<1>6. CASE Len(key) > Len(root) BY <1>5, <1>6, Reached
<1>7. CASE Len(key) = Len(root)
  <2>1. key = [i \in 1..Len(key) |-> key[i]] /\ root = [i \in 1..Len(root) |-> root[i]]
    BY SequenceShape
  <2>2. key = root BY <1>5, <1>7, <2>1
  <2> QED BY <2>2 DEF IsUnder
<1> QED BY <1>3, <1>4, <1>6, <1>7

LEMMA ClassBegins ==
  ASSUME NEW scope, NEW scheme
  PROVE  LET class == Class(scope, <<scheme>>)
             root == ClassesRoot(scope)
         IN  /\ IsSequence(class) /\ Len(class) = 4 /\ class[3] = "Classes"
             /\ IsSequence(root) /\ Len(root) = 3 /\ root[3] = "Classes"
             /\ \A i \in 1..3 : class[i] = root[i]
<1> DEFINE class == Class(scope, <<scheme>>)
           root == ClassesRoot(scope)
           last1 == <<"Classes">>
           one == <<scheme>>
<1>1. IsSequence(class) /\ Len(class) = 4 /\ class[3] = "Classes" BY SchemeClass DEF InClass
<1>2. IsSequence(last1) /\ Len(last1) = 1 /\ last1[1] = "Classes" /\ IsSequence(one)
  BY OneListed
<1> HIDE DEF last1, one
<1>3. IsSequence(SoftwareRoot(scope) \o last1) /\ Len(SoftwareRoot(scope) \o last1) = 2 + 1
      /\ (SoftwareRoot(scope) \o last1)[3] = "Classes"
  <2>1. Len(last1) >= 1 BY <1>2
  <2>2. /\ IsSequence(SoftwareRoot(scope) \o last1)
        /\ Len(SoftwareRoot(scope) \o last1) = 2 + Len(last1)
        /\ (SoftwareRoot(scope) \o last1)[3] = last1[1]
    BY <1>2, <2>1, SoftwareKeys, Zenon
  <2> QED BY <1>2, <2>2
<1>4. root = SoftwareRoot(scope) \o last1 BY DEF ClassesRoot, last1
<1>5. IsSequence(root) /\ Len(root) = 3 /\ root[3] = "Classes" BY <1>3, <1>4
<1>6. class = root \o one BY DEF Class, one
<1> HIDE DEF root, class
<1>7. \A i \in 1..3 : class[i] = root[i]
  <2>1. \A i \in 1..Len(root) : (root \o one)[i] = root[i] BY <1>2, <1>5, JoinedAt, Zenon
  <2>2. \A i \in 1..3 : (root \o one)[i] = root[i] BY <1>5, <2>1
  <2> QED BY <1>6, <2>2
<1> QED BY <1>1, <1>5, <1>7 DEF root, class

\* The chain of the keys of a value below a scheme's class begins there.
LEMMA ChainBegins ==
  ASSUME NEW scope, NEW scheme, NEW key, IsSequence(key), IsUnder(key, Class(scope, <<scheme>>))
  PROVE  /\ Len(KeyChainRoot(scope, key)) = 3
         /\ 4 \in DOMAIN key /\ SubSeq(key, 1, 4) = Class(scope, <<scheme>>)
<1> DEFINE class == Class(scope, <<scheme>>)
           root == ClassesRoot(scope)
<1>1. /\ IsSequence(class) /\ Len(class) = 4 /\ class[3] = "Classes"
      /\ IsSequence(root) /\ Len(root) = 3 /\ root[3] = "Classes"
      /\ \A i \in 1..3 : class[i] = root[i]
  BY ClassBegins
<1>2. IsUnder(key, class) OBVIOUS
<1> HIDE DEF class, root
<1>3. Len(key) >= 4 /\ \A i \in 1..4 : key[i] = class[i]
  <2>1. Len(key) >= Len(class) /\ \A i \in 1..Len(class) : key[i] = class[i]
    <3>1. IsSequence(class) BY <1>1
    <3> QED BY <1>2, <3>1, UnderAt
  <2> QED BY <1>1, <2>1
<1>4. Len(key) \in Nat /\ DOMAIN key = 1..Len(key) BY SequenceShape
<1>5. IsUnder(key, root)
  <2>1. Len(key) > Len(root) BY <1>1, <1>3, <1>4
  <2>2. \A i \in 1..Len(root) : key[i] = root[i] BY <1>1, <1>3
  <2> QED BY <1>1, <2>1, <2>2, Reached, Zenon
<1>6. ~IsUnder(key, AppPathsRoot(scope)) /\ ~IsUnder(key, UninstallRoot(scope))
  <2>1. Outside(AppPathsRoot(scope)) /\ Outside(UninstallRoot(scope)) BY AppPathsOutside
  <2>2. ASSUME NEW other, Outside(other) PROVE ~IsUnder(key, other)
    <3>1. Len(other) \in Nat /\ IsSequence(other) /\ Len(other) >= 3 /\ other[3] # "Classes"
      BY <2>2, SequenceShape DEF Outside
    <3>2. key[3] # other[3] /\ 3 \in 1..Len(other) BY <1>1, <1>3, <3>1
    <3> QED BY <3>1, <3>2, Elsewhere
  <2> QED BY <2>1, <2>2
<1>7. KeyChainRoot(scope, key) = root
  <2> DEFINE above == {r \in {UninstallRoot(scope), AppPathsRoot(scope), ClassesRoot(scope)} :
                         IsUnder(key, r)}
  <2>1. above = {root} BY <1>5, <1>6 DEF root
  <2>2. KeyChainRoot(scope, key) =
          IF above # {} THEN CHOOSE r \in above : TRUE
          ELSE IF IsUnder(key, SoftwareRoot(scope)) THEN SoftwareRoot(scope)
          ELSE SubSeq(key, 1, 2)
    BY DEF KeyChainRoot
  <2> HIDE DEF above
  <2> QED BY <2>1, <2>2
<1>8. 4 \in 1..Len(key) BY <1>3, <1>4
<1> DEFINE first == SubSeq(key, 1, 4)
<1>9. IsSequence(first) /\ Len(first) = 4 /\ \A i \in 1..4 : first[i] = key[i]
  BY <1>8, SomeOf
<1> HIDE DEF first
<1>10. /\ first = [i \in 1..Len(first) |-> first[i]] /\ class = [i \in 1..Len(class) |-> class[i]]
  BY <1>1, <1>9, SequenceShape
<1>11. first = class BY <1>1, <1>3, <1>9, <1>10
<1> QED BY <1>1, <1>4, <1>7, <1>8, <1>11 DEF first, class

LEMMA ChainsHold ==
  ASSUME NEW c, NEW items, IsSequence(items), \A x \in ToSet(items) : IsSequence(x.id[2])
  PROVE  /\ IsFiniteSet(Chains(c, items))
         /\ \A key \in Chains(c, items) :
              /\ IsSequence(key)
              /\ \E x \in ToSet(items) : \E n \in 1..Len(x.id[2]) : key = SubSeq(x.id[2], 1, n)
<1> DEFINE deep(id) == {k \in DOMAIN id[2] : k > Len(KeyChainRoot(c.scope, id[2]))}
           chain(id) == {SubSeq(id[2], 1, n) : n \in deep(id)}
           ids == Ids(items)
           chains == {chain(id) : id \in ids}
<1>1. Chains(c, items) = UNION chains BY DEF Chains
<1>2. ids = {x.id : x \in ToSet(items)} BY DEF Ids, ToSet
<1>3. IsFiniteSet(ids)
  <2> DEFINE f == [x \in ToSet(items) |-> x.id]
  <2>1. ids = {f[x] : x \in ToSet(items)} BY <1>2
  <2> HIDE DEF f, ids
  <2>2. IsFiniteSet(ToSet(items)) BY FiniteListed
  <2> QED BY <2>1, <2>2, FiniteImage
<1>4. IsFiniteSet(chains)
  <2> DEFINE f == [id \in ids |-> chain(id)]
  <2>1. chains = {f[id] : id \in ids} OBVIOUS
  <2> HIDE DEF f, ids, chains
  <2> QED BY <1>3, <2>1, FiniteImage
<1>5. ASSUME NEW id \in ids
      PROVE  /\ IsFiniteSet(chain(id)) /\ IsSequence(id[2])
             /\ \A key \in chain(id) : \E n \in 1..Len(id[2]) : key = SubSeq(id[2], 1, n)
  <2>1. IsSequence(id[2]) BY <1>2
  <2>2. DOMAIN id[2] = 1..Len(id[2]) /\ Len(id[2]) \in Nat BY <2>1, SequenceShape
  <2>3. IsFiniteSet(deep(id)) /\ deep(id) \subseteq 1..Len(id[2])
    BY <2>1, <2>2, FiniteListed, FS_Subset
  <2> HIDE DEF deep
  <2> DEFINE f == [n \in deep(id) |-> SubSeq(id[2], 1, n)]
  <2>4. chain(id) = {f[n] : n \in deep(id)} OBVIOUS
  <2>5. \A key \in chain(id) : \E n \in 1..Len(id[2]) : key = SubSeq(id[2], 1, n) BY <2>3
  <2> HIDE DEF f, chain
  <2>6. IsFiniteSet(chain(id)) BY <2>3, <2>4, FiniteImage
  <2> QED BY <2>1, <2>5, <2>6
<1>6. IsFiniteSet(UNION chains)
  <2>1. \A T \in chains : IsFiniteSet(T)
    <3> HIDE DEF chain, ids
    <3> QED BY <1>5
  <2> HIDE DEF chains
  <2> QED BY <1>4, <2>1, FS_UNION
<1>7. ASSUME NEW key \in UNION chains
      PROVE  /\ IsSequence(key)
             /\ \E x \in ToSet(items) : \E n \in 1..Len(x.id[2]) : key = SubSeq(x.id[2], 1, n)
  <2>1. PICK id \in ids : key \in chain(id) OBVIOUS
  <2>2. PICK n \in 1..Len(id[2]) : key = SubSeq(id[2], 1, n) BY <1>5, <2>1
  <2>3. PICK x \in ToSet(items) : id = x.id BY <1>2
  <2>4. IsSequence(key) BY <1>5, <2>2, SomeOf
  <2> QED BY <2>2, <2>3, <2>4
<1> HIDE DEF chains
<1> QED BY <1>1, <1>6, <1>7

LEMMA PlanStands ==
  ASSUME NEW c, NEW schemes, Ready(c, schemes)
  PROVE  /\ Segment(c, Plan(c))
         /\ ToSet(KeyOps(c, Chains(c, c.wanted.values))) \subseteq ToSet(Plan(c))
<1> DEFINE product == Chains(c, c.wanted.values)
           s1 == DirectoryOps(c)
           s2 == FileOps(c)
           s3 == KeyOps(c, product)
           s4 == ValueOps(c, c.wanted.values, c.repair)
           s5 == PathOps(c)
           s6 == ValueOps(c, c.wanted.variables, c.repair)
           s7 == PlacedOps(c, c.wanted.shortcuts)
           s8 == PlacedOps(c, c.wanted.blocks)
           s9 == RuleOps(c)
           s10 == Carried(c)
           s11 == KeyOps(c, Chains(c, c.wanted.registration) \ product)
           s12 == ValueOps(c, c.wanted.registration, TRUE)
           s13 == Removals(c)
<1>1. Plan(c) = ((((((((((((s1 \o s2) \o s3) \o s4) \o s5) \o s6) \o s7) \o s8) \o s9) \o s10)
                   \o s11) \o s12) \o s13)
  BY DEF Plan
<1>2. /\ IsFiniteSet(DOMAIN c.rows) /\ c.repair \in BOOLEAN
      /\ \A id \in DOMAIN c.rows : Shaped(id)
      /\ IsSequence(c.wanted.values)
      /\ \A x \in ToSet(c.wanted.values) : x.id[1] = "value" /\ IsSequence(x.id[2])
      /\ IsSequence(c.wanted.registration)
      /\ \A x \in ToSet(c.wanted.registration) :
            x.id[1] = "value" /\ x.id[2] = c.registrationKey /\ IsSequence(x.id[2])
  BY DEF Ready, ClearValues, Clear, Outside
<1>3. Segment(c, s1) /\ Segment(c, s2) BY DirectoriesStand, FilesStand DEF Ready
<1>4. /\ IsFiniteSet(product) /\ \A key \in product : IsSequence(key) /\ Needed(c, key)
  BY <1>2, ChainsHold DEF Needed
<1>5. Segment(c, s3)
  <2> HIDE DEF product
  <2> QED BY <1>4, KeysStand
<1>6. Segment(c, s4)
  <2>1. \A x \in ToSet(c.wanted.values) : Needed(c, x.id[2]) BY DEF Needed
  <2> QED BY <1>2, <2>1, ValuesStand
<1>7. Segment(c, s5) /\ Segment(c, s9) BY PathStands, RulesStand DEF Ready
<1>8. Segment(c, s6)
  <2>1. IsSequence(c.wanted.variables) /\ \A x \in ToSet(c.wanted.variables) : x.id[1] = "variable"
    BY DEF Ready, Of
  <2> QED BY <1>2, <2>1, ValuesStand
<1>9. Segment(c, s7) /\ Segment(c, s8)
  <2>1. Of(c.wanted.shortcuts, {"shortcut", "url", "block"})
        /\ Of(c.wanted.blocks, {"shortcut", "url", "block"})
    BY DEF Ready, Of
  <2> QED BY <2>1, PlacedStand
<1>10. Segment(c, s10) /\ Segment(c, s13) BY <1>2, CarriedStand, RemovalsStand
<1>11. Segment(c, s11)
  <2> DEFINE keys == Chains(c, c.wanted.registration) \ product
  <2>1. IsFiniteSet(keys) /\ \A key \in keys : IsSequence(key) /\ Needed(c, key)
    <3>1. IsFiniteSet(Chains(c, c.wanted.registration)) BY <1>2, ChainsHold
    <3>2. \A key \in Chains(c, c.wanted.registration) : IsSequence(key) /\ Needed(c, key)
      BY <1>2, ChainsHold DEF Needed
    <3> QED BY <3>1, <3>2, FS_Subset
  <2> HIDE DEF keys
  <2>2. Segment(c, KeyOps(c, keys)) BY <2>1, KeysStand
  <2> QED BY <2>2 DEF keys
<1>12. Segment(c, s12)
  <2>1. \A x \in ToSet(c.wanted.registration) : Needed(c, x.id[2]) BY DEF Needed
  <2> QED BY <1>2, <2>1, ValuesStand
<1> HIDE DEF s1, s2, s3, s4, s5, s6, s7, s8, s9, s10, s11, s12, s13
<1> DEFINE p2 == s1 \o s2
           p3 == p2 \o s3
           p4 == p3 \o s4
           p5 == p4 \o s5
           p6 == p5 \o s6
           p7 == p6 \o s7
           p8 == p7 \o s8
           p9 == p8 \o s9
           p10 == p9 \o s10
           p11 == p10 \o s11
           p12 == p11 \o s12
           p13 == p12 \o s13
<1>13. Segment(c, p2) BY <1>3, SegmentJoined
<1> HIDE DEF p2
<1>14. Segment(c, p3) /\ ToSet(s3) \subseteq ToSet(p3)
  <2>1. IsSequence(p2) /\ IsSequence(s3) BY <1>5, <1>13 DEF Segment
  <2>2. ToSet(p3) = ToSet(p2) \cup ToSet(s3) BY <2>1, Joined
  <2>3. Segment(c, p3) BY <1>5, <1>13, SegmentJoined
  <2> QED BY <2>2, <2>3
<1> HIDE DEF p3
<1>15. Segment(c, p4) /\ ToSet(p3) \subseteq ToSet(p4) BY <1>6, <1>14, SegmentJoined
<1> HIDE DEF p4
<1>16. Segment(c, p5) /\ ToSet(p4) \subseteq ToSet(p5) BY <1>7, <1>15, SegmentJoined
<1> HIDE DEF p5
<1>17. Segment(c, p6) /\ ToSet(p5) \subseteq ToSet(p6) BY <1>8, <1>16, SegmentJoined
<1> HIDE DEF p6
<1>18. Segment(c, p7) /\ ToSet(p6) \subseteq ToSet(p7) BY <1>9, <1>17, SegmentJoined
<1> HIDE DEF p7
<1>19. Segment(c, p8) /\ ToSet(p7) \subseteq ToSet(p8) BY <1>9, <1>18, SegmentJoined
<1> HIDE DEF p8
<1>20. Segment(c, p9) /\ ToSet(p8) \subseteq ToSet(p9) BY <1>7, <1>19, SegmentJoined
<1> HIDE DEF p9
<1>21. Segment(c, p10) /\ ToSet(p9) \subseteq ToSet(p10) BY <1>10, <1>20, SegmentJoined
<1> HIDE DEF p10
<1>22. Segment(c, p11) /\ ToSet(p10) \subseteq ToSet(p11) BY <1>11, <1>21, SegmentJoined
<1> HIDE DEF p11
<1>23. Segment(c, p12) /\ ToSet(p11) \subseteq ToSet(p12) BY <1>12, <1>22, SegmentJoined
<1> HIDE DEF p12
<1>24. Segment(c, p13) /\ ToSet(p12) \subseteq ToSet(p13) BY <1>10, <1>23, SegmentJoined
<1> HIDE DEF p13
<1>25. Plan(c) = p13 BY <1>1 DEF p2, p3, p4, p5, p6, p7, p8, p9, p10, p11, p12, p13
<1>26. ToSet(s3) \subseteq ToSet(p13)
  BY <1>14, <1>15, <1>16, <1>17, <1>18, <1>19, <1>20, <1>21, <1>22, <1>23, <1>24
<1> QED BY <1>24, <1>25, <1>26 DEF s3

\* Whatever a plan puts in below the class of a scheme, it may claim the
\* scheme and puts in or keeps the class.
LEMMA PlanClaims ==
  ASSUME NEW c, NEW schemes, Ready(c, schemes), NEW scheme \in schemes,
         NEW op \in ToSet(Plan(c)), op.do # "take", op.id[1] \in {"key", "value"},
         IsUnder(op.id[2], Class(c.scope, <<scheme>>))
  PROVE  /\ MayClaim(c.machine, c.rows, c.scope, scheme)
         /\ \E other \in ToSet(Plan(c)) :
              other.do # "take" /\ other.id = <<"key", Class(c.scope, <<scheme>>), "">>
<1> DEFINE class == Class(c.scope, <<scheme>>)
           id == <<"key", class, "">>
<1>1. Needed(c, op.id[2]) BY PlanStands DEF Segment, OpStands
<1>2. PICK x \in ToSet(c.wanted.values) \cup ToSet(c.wanted.registration) :
        op.id[2] = x.id[2] \/ \E n \in 1..Len(x.id[2]) : op.id[2] = SubSeq(x.id[2], 1, n)
  BY <1>1 DEF Needed
<1>3. IsSequence(x.id[2]) BY <1>2 DEF Ready, ClearValues, Clear, Outside
<1>4. IsSequence(class) BY ClassBegins
<1>5. IsUnder(x.id[2], class)
  <2> HIDE DEF class
  <2>1. IsUnder(op.id[2], class) BY DEF class
  <2> QED BY <1>2, <1>3, <1>4, <2>1, PrefixUnder
<1>6. x \in ToSet(c.wanted.values)
  <2>1. ASSUME x \in ToSet(c.wanted.registration) PROVE FALSE
    <3>1. Outside(x.id[2]) BY <2>1 DEF Ready
    <3> QED BY <1>5, <3>1, NoClass
  <2> QED BY <1>2, <2>1
<1>7. MayClaim(c.machine, c.rows, c.scope, scheme)
  <2>1. Clear(x.id[2], c.scope, Foreign(c, schemes)) BY <1>6 DEF Ready, ClearValues
  <2> QED BY <1>5, <2>1 DEF Clear, Foreign
<1>8. class \in Chains(c, c.wanted.values)
  <2>1. Len(KeyChainRoot(c.scope, x.id[2])) = 3 /\ 4 \in DOMAIN x.id[2]
        /\ SubSeq(x.id[2], 1, 4) = class
    BY <1>3, <1>5, ChainBegins
  <2>2. x.id \in Ids(c.wanted.values) BY <1>6 DEF Ids, ToSet
  <2> HIDE DEF class
  <2>3. 4 \in {k \in DOMAIN x.id[2] : k > Len(KeyChainRoot(c.scope, x.id[2]))} BY <2>1
  <2> DEFINE chain(i) == {SubSeq(i[2], 1, n) :
                            n \in {k \in DOMAIN i[2] : k > Len(KeyChainRoot(c.scope, i[2]))}}
  <2>4. class \in chain(x.id) BY <2>1, <2>3, Zenon
  <2>5. Chains(c, c.wanted.values) = UNION {chain(i) : i \in Ids(c.wanted.values)}
    BY DEF Chains
  <2> HIDE DEF chain
  <2> QED BY <2>2, <2>4, <2>5
<1>9. \E other \in ToSet(KeyOps(c, Chains(c, c.wanted.values))) :
        other.do # "take" /\ other.id = id
  <2> DEFINE keys == Chains(c, c.wanted.values)
             list == ByDepth(keys)
             ops(i) == IF ~KeyExists(c.machine, c.scope, i[2]) THEN <<Put(i, <<>>, Absent)>>
                       ELSE IF Owned(c, i) THEN <<Keep(i, <<>>, c.rows[i].was)>>
                       ELSE <<>>
             entry(key) == ops(<<"key", key, "">>)
             seqs == [i \in DOMAIN list |-> entry(list[i])]
  <2>1. KeyOps(c, keys) = FlattenSeq(seqs) BY DEF KeyOps, Each
  <2>2. IsSequence(list) /\ ToSet(list) = keys
    <3>1. IsSequence(c.wanted.values) /\ \A y \in ToSet(c.wanted.values) : IsSequence(y.id[2])
      BY DEF Ready, ClearValues, Clear
    <3>2. IsFiniteSet(keys) /\ \A key \in keys : IsSequence(key) BY <3>1, ChainsHold
    <3> HIDE DEF keys
    <3> QED BY <3>2, ByDepthHolds
  <2>3. PICK n \in DOMAIN list : list[n] = class
    <3> HIDE DEF class, list, keys
    <3>1. class \in ToSet(list) BY <1>8, <2>2 DEF keys
    <3> QED BY <3>1 DEF ToSet
  <2>4. id[2] = class OBVIOUS
  <2>5. KeyExists(c.machine, c.scope, class) => Owned(c, id) BY <1>7 DEF MayClaim, Owned
  <2> HIDE DEF class
  <2>6. \E other : entry(class) = <<other>> /\ other.do # "take" /\ other.id = id
    <3> DEFINE put == Put(id, <<>>, Absent)
               keep == Keep(id, <<>>, c.rows[id].was)
    <3>1. put.do # "take" /\ put.id = id /\ keep.do # "take" /\ keep.id = id
      BY DEF Put, Keep
    <3>2. entry(class) = ops(id) OBVIOUS
    <3> HIDE DEF id
    <3>3. ops(id) = <<put>> \/ ops(id) = <<keep>> BY <2>4, <2>5
    <3> HIDE DEF put, keep, entry, ops
    <3> QED BY <3>1, <3>2, <3>3
  <2>7. PICK other : entry(class) = <<other>> /\ other.do # "take" /\ other.id = id BY <2>6
  <2>8. \A i \in DOMAIN seqs : IsSequence(seqs[i])
    <3>1. \A i : IsSequence(ops(i)) BY OneListed, NoneListed
    <3> HIDE DEF ops
    <3> QED BY <3>1
  <2> HIDE DEF list, entry
  <2>9. IsSequence(seqs) /\ DOMAIN seqs = DOMAIN list /\ seqs[n] = <<other>>
    BY <2>2, <2>3, <2>7, Mapped
  <2> HIDE DEF seqs
  <2>10. ToSet(FlattenSeq(seqs)) = UNION {ToSet(seqs[i]) : i \in DOMAIN seqs}
    BY <2>8, <2>9, Flattened
  <2>11. other \in ToSet(seqs[n]) BY <2>9, OneListed
  <2> QED BY <2>1, <2>7, <2>9, <2>10, <2>11
<1>10. ToSet(KeyOps(c, Chains(c, c.wanted.values))) \subseteq ToSet(Plan(c)) BY PlanStands
<1> QED BY <1>7, <1>9, <1>10

-----------------------------------------------------------------------------
(* The plan carried out.                                                    *)

\* What an operation may change on the machine.
Touches(op, id) ==
  /\ op.do # "keep"
  /\ \/ op.id = id
     \/ op.do = "put" /\ op.id[1] = "rule" /\ id[1] = "rule" /\ op.id[3] = id[3]

IsState(st) ==
  st = [machine |-> st.machine, rows |-> st.rows, failed |-> st.failed] /\ st.failed \in BOOLEAN

LEMMA States ==
  ASSUME NEW a, NEW b, NEW f \in BOOLEAN, NEW st, st = [machine |-> a, rows |-> b, failed |-> f]
  PROVE  IsState(st)
  BY DEF IsState

\* What both machines hold alike.
Alike(id, holds, before) ==
  (id \in DOMAIN holds <=> id \in DOMAIN before) /\ (id \in DOMAIN before => holds[id] = before[id])

StepFrom(st, next, op) ==
  /\ IsState(next)
  /\ \A id : ~Touches(op, id) => Alike(id, next.machine, st.machine)
  /\ \A id \in DOMAIN st.machine :
       id[1] = "file" /\ ~(op.do = "take" /\ op.id = id) => id \in DOMAIN next.machine
  /\ ~next.failed =>
       /\ ~st.failed
       /\ op.do = "take" => next.rows = st.rows
       /\ op.do # "take" => /\ DOMAIN next.rows = DOMAIN st.rows \cup {op.id}
                            /\ next.rows[op.id].was = op.was
                            /\ \A id \in DOMAIN st.rows :
                                 id # op.id => next.rows[id] = st.rows[id]

LEMMA StepHolds ==
  ASSUME NEW scope, NEW st, IsState(st), NEW op, op.do \in {"keep", "put", "take"}
  PROVE  StepFrom(st, Step(scope, st, op), op)
<1> DEFINE next == Step(scope, st, op)
           others == IF op.id[1] = "rule" THEN RulesNamed(st.machine, op.id[3]) ELSE {}
           kept == With(st.rows, op.id, [data |-> op.data, was |-> op.was])
           put == With(Without(st.machine, others), op.id, op.data)
           gone == Without(st.machine, {op.id})
           back == With(st.machine, op.id, op.was)
<1>1. \/ st.failed /\ next = st
      \/ /\ ~st.failed /\ op.do = "keep"
         /\ next = [machine |-> st.machine, rows |-> kept, failed |-> st.failed]
      \/ /\ ~st.failed /\ op.do = "put"
         /\ next = [machine |-> put, rows |-> kept, failed |-> FALSE]
      \/ next = [machine |-> st.machine, rows |-> st.rows, failed |-> TRUE]
      \/ ~st.failed /\ op.do = "take" /\ next = st
      \/ /\ ~st.failed /\ op.do = "take"
         /\ next = [machine |-> gone, rows |-> st.rows, failed |-> st.failed]
      \/ /\ ~st.failed /\ op.do = "take"
         /\ next = [machine |-> back, rows |-> st.rows, failed |-> st.failed]
  <2> DEFINE a == st.machine
             b == st.rows
             f == st.failed
  <2>1. st = [machine |-> a, rows |-> b, failed |-> f] /\ f \in BOOLEAN BY DEF IsState
  <2>2. next =
          IF f THEN st
          ELSE IF op.do = "keep" THEN [st EXCEPT !.rows = kept]
          ELSE IF op.do = "put" THEN
              IF HasPlace(a, scope, op.id)
              THEN [machine |-> put, rows |-> kept, failed |-> FALSE]
              ELSE [st EXCEPT !.failed = TRUE]
          ELSE IF \E id \in DOMAIN a : Inside(op.id, id) THEN st
          ELSE IF op.was = Absent THEN [st EXCEPT !.machine = gone]
          ELSE [st EXCEPT !.machine = back]
    BY DEF Step
  <2> HIDE DEF next, a, b, f, others, kept, put, gone, back
  <2>3. [st EXCEPT !.rows = kept] = [machine |-> a, rows |-> kept, failed |-> f] BY <2>1
  <2>5. [st EXCEPT !.failed = TRUE] = [machine |-> a, rows |-> b, failed |-> TRUE]
    <3> DEFINE g == TRUE
    <3> HIDE DEF g
    <3>1. [st EXCEPT !.failed = g] = [machine |-> a, rows |-> b, failed |-> g] BY <2>1
    <3> QED BY <3>1 DEF g
  <2>6. [st EXCEPT !.machine = gone] = [machine |-> gone, rows |-> b, failed |-> f] BY <2>1
  <2>7. [st EXCEPT !.machine = back] = [machine |-> back, rows |-> b, failed |-> f] BY <2>1
  <2> QED BY <2>1, <2>2, <2>3, <2>5, <2>6, <2>7 DEF a, b, f
<1>2. /\ DOMAIN kept = DOMAIN st.rows \cup {op.id} /\ kept[op.id].was = op.was
      /\ \A id \in DOMAIN st.rows : id # op.id => kept[id] = st.rows[id]
  <2> DEFINE value == [data |-> op.data, was |-> op.was]
  <2>1. value.was = op.was OBVIOUS
  <2> HIDE DEF value
  <2>2. kept = With(st.rows, op.id, value) BY DEF value
  <2>3. /\ DOMAIN With(st.rows, op.id, value) = DOMAIN st.rows \cup {op.id}
        /\ With(st.rows, op.id, value)[op.id] = value
        /\ \A id \in DOMAIN st.rows : id # op.id => With(st.rows, op.id, value)[id] = st.rows[id]
    BY DEF With
  <2> HIDE DEF kept
  <2> QED BY <2>1, <2>2, <2>3
<1>3. \A id \in others : id[1] = "rule" /\ op.id[1] = "rule" /\ id[3] = op.id[3]
  BY DEF RulesNamed, OfKind
<1>4. /\ DOMAIN put = (DOMAIN st.machine \ others) \cup {op.id}
      /\ \A id \in DOMAIN st.machine \ others : id # op.id => put[id] = st.machine[id]
  <2> DEFINE rest == Without(st.machine, others)
  <2>1. DOMAIN rest = DOMAIN st.machine \ others
        /\ \A id \in DOMAIN st.machine \ others : rest[id] = st.machine[id]
    BY DEF Without, Restrict
  <2>2. put = With(rest, op.id, op.data) OBVIOUS
  <2> HIDE DEF rest, others, put
  <2>3. /\ DOMAIN With(rest, op.id, op.data) = DOMAIN rest \cup {op.id}
        /\ \A id \in DOMAIN rest : id # op.id => With(rest, op.id, op.data)[id] = rest[id]
    BY DEF With
  <2> QED BY <2>1, <2>2, <2>3
<1>5. /\ DOMAIN gone = DOMAIN st.machine \ {op.id}
      /\ \A id \in DOMAIN st.machine : id # op.id => gone[id] = st.machine[id]
  <2>1. /\ DOMAIN gone = DOMAIN st.machine \ {op.id}
        /\ \A id \in DOMAIN st.machine \ {op.id} : gone[id] = st.machine[id]
    BY DEF Without, Restrict
  <2> HIDE DEF gone
  <2> QED BY <2>1
<1>6. /\ DOMAIN back = DOMAIN st.machine \cup {op.id}
      /\ \A id \in DOMAIN st.machine : id # op.id => back[id] = st.machine[id]
  BY DEF With
<1>7. IsState(next)
  <2> HIDE DEF next, kept, put, gone, back
  <2>1. st.failed \in BOOLEAN BY DEF IsState
  <2> QED BY <1>1, <2>1, States
<1> HIDE DEF next, others, kept, put, gone, back
<1>8. /\ \A id : ~Touches(op, id) /\ op.do = "put" => Alike(id, put, st.machine)
      /\ \A id : ~Touches(op, id) /\ op.do = "take" => Alike(id, gone, st.machine)
      /\ \A id : ~Touches(op, id) /\ op.do = "take" => Alike(id, back, st.machine)
      /\ \A id : Alike(id, st.machine, st.machine)
  BY <1>3, <1>4, <1>5, <1>6 DEF Touches, Alike
<1>9. /\ \A id \in DOMAIN st.machine : id[1] = "file" => id \in DOMAIN put
      /\ \A id \in DOMAIN st.machine : id # op.id => id \in DOMAIN gone
      /\ \A id \in DOMAIN st.machine : id \in DOMAIN back
  BY <1>3, <1>4, <1>5, <1>6
<1>10. StepFrom(st, next, op)
  <2>1. CASE next.failed
    <3>1. next.machine = st.machine BY <1>1, <2>1
    <3> QED BY <1>7, <1>8, <2>1, <3>1 DEF StepFrom
  <2>2. CASE ~next.failed /\ op.do = "keep"
    <3>1. ~st.failed /\ next.rows = kept /\ next.machine = st.machine BY <1>1, <2>2
    <3> QED BY <1>2, <1>7, <1>8, <2>2, <3>1 DEF StepFrom
  <2>3. CASE ~next.failed /\ op.do = "put"
    <3>1. ~st.failed /\ next.rows = kept /\ next.machine = put BY <1>1, <2>3
    <3> QED BY <1>2, <1>7, <1>8, <1>9, <2>3, <3>1 DEF StepFrom
  <2>4. CASE ~next.failed /\ op.do = "take"
    <3>1. ~st.failed /\ next.rows = st.rows /\ next.machine \in {st.machine, gone, back}
      BY <1>1, <2>4
    <3> QED BY <1>7, <1>8, <1>9, <2>4, <3>1 DEF StepFrom
  <2> QED BY <2>1, <2>2, <2>3, <2>4
<1> QED BY <1>10 DEF next

IsDone(d, scope, start, plan, n) ==
  d = [i \in 0..n |-> IF i = 0 THEN start ELSE Step(scope, d[i - 1], plan[i])]

LEMMA DoneExists ==
  ASSUME NEW scope, NEW start, NEW plan, NEW n \in Nat
  PROVE  \E d : IsDone(d, scope, start, plan, n)
<1> USE DEF IsDone
<1> DEFINE Reached0(k) ==
             \E d : d = [i \in 0..k |-> IF i = 0 THEN start ELSE Step(scope, d[i - 1], plan[i])]
           Missed == {k \in Nat : ~Reached0(k)}
<1> SUFFICES ASSUME Missed # {} PROVE FALSE OBVIOUS
<1>1. PICK k \in Missed : \A j \in Missed : k <= j
  <2> HIDE DEF Reached0
  <2> QED BY Least
<1>2. k # 0
  <2> DEFINE d == [i \in 0..0 |-> start]
  <2>1. d = [i \in 0..0 |-> IF i = 0 THEN start ELSE Step(scope, d[i - 1], plan[i])] OBVIOUS
  <2>2. Reached0(0) BY <2>1
  <2> QED BY <2>2
<1>3. Reached0(k - 1)
  <2> HIDE DEF Reached0
  <2> QED BY <1>1, <1>2
<1>4. PICK d : d = [i \in 0..(k - 1) |-> IF i = 0 THEN start ELSE Step(scope, d[i - 1], plan[i])]
  BY <1>3
<1> DEFINE e == [i \in 0..k |-> IF i = k THEN Step(scope, d[k - 1], plan[k]) ELSE d[i]]
<1>5. e = [i \in 0..k |-> IF i = 0 THEN start ELSE Step(scope, e[i - 1], plan[i])]
  <2>1. ASSUME NEW i \in 0..k
        PROVE  e[i] = IF i = 0 THEN start ELSE Step(scope, e[i - 1], plan[i])
    <3>1. CASE i = k
      <4>1. k - 1 \in 0..k /\ k - 1 # k BY <1>2
      <4>2. e[i - 1] = d[k - 1] BY <3>1, <4>1
      <4> QED BY <1>2, <3>1, <4>2
    <3>2. CASE i # k
      <4>1. i \in 0..(k - 1) /\ e[i] = d[i] BY <3>2
      <4>2. i # 0 => i - 1 \in 0..k /\ i - 1 # k BY <3>2
      <4>3. i # 0 => e[i - 1] = d[i - 1] BY <4>2
      <4>4. d[i] = IF i = 0 THEN start ELSE Step(scope, d[i - 1], plan[i]) BY <1>4, <4>1
      <4> QED BY <4>1, <4>3, <4>4
    <3> QED BY <3>1, <3>2
  <2> QED BY <2>1
<1>6. Reached0(k)
  <2> HIDE DEF e
  <2> QED BY <1>5
<1> QED BY <1>1, <1>6

\* What a plan leaves behind.
LEMMA AfterHolds ==
  ASSUME NEW c, IsSequence(Plan(c)),
         \A op \in ToSet(Plan(c)) : op.do \in {"keep", "put", "take"}
  PROVE  /\ ~After(c).failed =>
              /\ \A op \in ToSet(Plan(c)) : op.do # "take" => op.id \in DOMAIN After(c).rows
              /\ \A id \in DOMAIN After(c).rows : \E op \in ToSet(Plan(c)) :
                   op.do # "take" /\ op.id = id /\ After(c).rows[id].was = op.was
         /\ \A id : (\A op \in ToSet(Plan(c)) : ~Touches(op, id))
                      => Alike(id, After(c).machine, c.machine)
         /\ \A id \in DOMAIN c.machine :
              id[1] = "file" /\ (\A op \in ToSet(Plan(c)) : ~(op.do = "take" /\ op.id = id))
                => id \in DOMAIN After(c).machine
<1> DEFINE plan == Plan(c)
           n == Len(plan)
           ops == ToSet(plan)
           start == [machine |-> c.machine, rows |-> Empty, failed |-> FALSE]
<1>1. n \in Nat /\ \A i \in 1..n : plan[i] \in ops BY SequenceShape
<1>2. After(c) = (CHOOSE d : d = [i \in 0..n |-> IF i = 0 THEN start
                                                ELSE Step(c.scope, d[i - 1], plan[i])])[n]
  BY Zenon DEF After
<1>3. ops = {plan[i] : i \in 1..n}
  <2>1. DOMAIN plan = 1..n BY SequenceShape
  <2> HIDE DEF plan, n
  <2> QED BY <2>1 DEF ToSet
<1>4. \A op \in ops : op.do \in {"keep", "put", "take"} OBVIOUS
<1> HIDE DEF plan, n, ops
<1>5. PICK d : /\ d = [i \in 0..n |-> IF i = 0 THEN start ELSE Step(c.scope, d[i - 1], plan[i])]
               /\ After(c) = d[n]
  <2>1. \E d : d = [i \in 0..n |-> IF i = 0 THEN start ELSE Step(c.scope, d[i - 1], plan[i])]
    <3>1. \E d : IsDone(d, c.scope, start, plan, n)
      <4> HIDE DEF start
      <4> QED BY <1>1, DoneExists, Zenon
    <3> QED BY <3>1 DEF IsDone
  <2> QED BY <1>2, <2>1, Zenon
<1>6. d[0] = start /\ \A i \in 1..n : d[i] = Step(c.scope, d[i - 1], plan[i])
  <2> HIDE DEF start
  <2> QED BY <1>1, <1>5
<1> DEFINE Noted(i) == \A j \in 1..i : plan[j].do # "take" => plan[j].id \in DOMAIN d[i].rows
           Traced(i) == \A id \in DOMAIN d[i].rows : \E op \in ops :
                         op.do # "take" /\ op.id = id /\ d[i].rows[id].was = op.was
           Same(i) == \A id : (\A op \in ops : ~Touches(op, id))
                                  => Alike(id, d[i].machine, c.machine)
           Files(i) == \A id \in DOMAIN c.machine :
                         id[1] = "file" /\ (\A op \in ops : ~(op.do = "take" /\ op.id = id))
                           => id \in DOMAIN d[i].machine
           Good(i) == /\ IsState(d[i]) /\ Same(i) /\ Files(i)
                      /\ ~d[i].failed => Noted(i) /\ Traced(i)
           Bad == {i \in Nat : i <= n /\ ~Good(i)}
<1>7. Good(0)
  <2>1. d[0].machine = c.machine /\ d[0].rows = Empty /\ IsState(d[0])
    <3>1. start.machine = c.machine /\ start.rows = Empty /\ IsState(start) BY DEF IsState
    <3> HIDE DEF start
    <3> QED BY <1>6, <3>1
  <2>2. DOMAIN Empty = {} BY DEF Empty
  <2> QED BY <2>1, <2>2 DEF Alike
<1>8. ASSUME NEW i \in 1..n, Good(i - 1) PROVE Good(i)
  <2> DEFINE st == d[i - 1]
             next == d[i]
             op == plan[i]
  <2>1. StepFrom(st, next, op)
    <3>1. IsState(st) /\ next = Step(c.scope, st, op) /\ op.do \in {"keep", "put", "take"}
      BY <1>1, <1>4, <1>6, <1>8
    <3> HIDE DEF st, next, op
    <3> QED BY <3>1, StepHolds
  <2>2. IsState(next) BY <2>1 DEF StepFrom
  <2>3. op \in ops BY <1>1
  <2>4. ASSUME ~next.failed PROVE Noted(i) /\ Traced(i)
    <3>1. /\ ~st.failed
          /\ op.do = "take" => next.rows = st.rows
          /\ op.do # "take" => /\ DOMAIN next.rows = DOMAIN st.rows \cup {op.id}
                               /\ next.rows[op.id].was = op.was
                               /\ \A id \in DOMAIN st.rows :
                                    id # op.id => next.rows[id] = st.rows[id]
      <4> HIDE DEF st, next, op
      <4> QED BY <2>1, <2>4 DEF StepFrom
    <3>2. Noted(i - 1) /\ Traced(i - 1) BY <1>8, <3>1
    <3>3. op \in ops BY <2>3
    <3>4. Noted(i)
      <4> SUFFICES ASSUME NEW j \in 1..i, plan[j].do # "take" PROVE plan[j].id \in DOMAIN next.rows
        OBVIOUS
      <4>1. CASE j = i BY <3>1, <4>1
      <4>2. CASE j # i
        <5>1. j \in 1..(i - 1) BY <1>1, <4>2
        <5>2. plan[j].id \in DOMAIN st.rows BY <3>2, <5>1
        <5> HIDE DEF st, next, op
        <5>3. op.do = "take" \/ op.do # "take" OBVIOUS
        <5> QED BY <3>1, <5>2, <5>3
      <4> QED BY <4>1, <4>2
    <3>5. Traced(i)
      <4> SUFFICES ASSUME NEW id \in DOMAIN next.rows
                   PROVE  \E o \in ops : o.do # "take" /\ o.id = id /\ next.rows[id].was = o.was
        OBVIOUS
      <4>1. \A x \in DOMAIN st.rows : \E o \in ops :
              o.do # "take" /\ o.id = x /\ st.rows[x].was = o.was
        BY <3>2
      <4> HIDE DEF st, next, op
      <4>2. CASE op.do # "take" /\ id = op.id BY <3>1, <3>3, <4>2
      <4>3. CASE ~(op.do # "take" /\ id = op.id)
        <5>1. id \in DOMAIN st.rows /\ next.rows[id] = st.rows[id] BY <3>1, <4>3
        <5> QED BY <4>1, <5>1
      <4> QED BY <4>2, <4>3
    <3> QED BY <3>4, <3>5
  <2>5. /\ \A id : ~Touches(op, id) => Alike(id, next.machine, st.machine)
        /\ \A id \in DOMAIN st.machine :
             id[1] = "file" /\ ~(op.do = "take" /\ op.id = id) => id \in DOMAIN next.machine
    <3> HIDE DEF st, next, op
    <3> QED BY <2>1 DEF StepFrom
  <2>6. Same(i)
    <3>1. \A id : (\A o \in ops : ~Touches(o, id)) => Alike(id, st.machine, c.machine)
      BY <1>8
    <3> HIDE DEF st, next, op
    <3>2. \A id : (\A o \in ops : ~Touches(o, id)) => Alike(id, next.machine, c.machine)
      BY <2>3, <2>5, <3>1 DEF Alike
    <3> QED BY <3>2 DEF next
  <2>7. Files(i)
    <3>1. \A id \in DOMAIN c.machine :
            id[1] = "file" /\ (\A o \in ops : ~(o.do = "take" /\ o.id = id))
              => id \in DOMAIN st.machine
      BY <1>8
    <3> HIDE DEF st, next, op
    <3>2. \A id \in DOMAIN c.machine :
            id[1] = "file" /\ (\A o \in ops : ~(o.do = "take" /\ o.id = id))
              => id \in DOMAIN next.machine
      BY <2>3, <2>5, <3>1
    <3> QED BY <3>2 DEF next
  <2> QED BY <2>2, <2>4, <2>6, <2>7
<1> HIDE DEF Good
<1>9. Good(n)
  <2>1. Bad = {}
    <3> SUFFICES ASSUME Bad # {} PROVE FALSE OBVIOUS
    <3>1. PICK k \in Bad : \A j \in Bad : k <= j BY Least
    <3>2. k # 0 BY <1>7
    <3>3. k - 1 \in Nat /\ k - 1 <= n /\ k \in 1..n /\ ~(k <= k - 1) BY <1>1, <3>1, <3>2
    <3>4. Good(k - 1) BY <3>1, <3>3
    <3> QED BY <1>8, <3>1, <3>3, <3>4
  <2> QED BY <1>1, <2>1
<1>10. Same(n) /\ Files(n) /\ (~d[n].failed => Noted(n) /\ Traced(n))
  <2> HIDE DEF Noted, Traced, Same, Files
  <2> QED BY <1>9 DEF Good
<1>11. ~d[n].failed => \A op \in ops : op.do # "take" => op.id \in DOMAIN d[n].rows
  BY <1>3, <1>10
<1>12. After(c) = d[n] BY <1>5
<1>13. ~After(c).failed => \A op \in ops : op.do # "take" => op.id \in DOMAIN After(c).rows
  BY <1>11, <1>12
<1>14. ~After(c).failed => \A id \in DOMAIN After(c).rows : \E op \in ops :
         op.do # "take" /\ op.id = id /\ After(c).rows[id].was = op.was
  BY <1>10, <1>12
<1>15. \A id : (\A op \in ops : ~Touches(op, id)) => Alike(id, After(c).machine, c.machine)
  BY <1>10, <1>12
<1>16. \A id \in DOMAIN c.machine :
         id[1] = "file" /\ (\A op \in ops : ~(op.do = "take" /\ op.id = id))
           => id \in DOMAIN After(c).machine
  BY <1>10, <1>12
<1>17. ops = ToSet(Plan(c)) BY DEF ops, plan
<1> HIDE DEF Noted, Traced, Same, Files
<1> QED BY <1>13, <1>14, <1>15, <1>16, <1>17

-----------------------------------------------------------------------------
(* A run and what others own.                                               *)

\* Below a scheme's class this installation owns nothing, or the class itself.
Claims(owned, scope, schemes) ==
  \A s \in schemes :
    (\E id \in DOMAIN owned : id[1] \in {"key", "value"} /\ IsUnder(id[2], Class(scope, <<s>>)))
      => /\ <<"key", Class(scope, <<s>>), "">> \in DOMAIN owned
         /\ owned[<<"key", Class(scope, <<s>>), "">>].was = Absent

LEMMA PlanOps ==
  ASSUME NEW c, NEW schemes, Ready(c, schemes)
  PROVE  /\ IsSequence(Plan(c)) /\ \A op \in ToSet(Plan(c)) : OpStands(c, op)
         /\ \A op \in ToSet(Plan(c)) : op.do \in {"keep", "put", "take"}
<1>1. IsSequence(Plan(c)) /\ \A op \in ToSet(Plan(c)) : OpStands(c, op)
  BY PlanStands DEF Segment
<1> QED BY <1>1 DEF OpStands

\* What was changed since stays, but for a repair.
LEMMA AlteredStays ==
  ASSUME NEW c, NEW schemes, Ready(c, schemes), ~c.repair, NEW id, Disturbed(c, id),
         id[1] \in {"value", "variable", "rule"}, id[2] # c.registrationKey
  PROVE  Held(After(c).machine, id) = Held(c.machine, id)
<1>1. ASSUME NEW op \in ToSet(Plan(c)) PROVE ~Touches(op, id)
  <2>1. OpStands(c, op) BY PlanOps
  <2>2. Shaped(id) BY DEF Ready, Disturbed
  <2>3. CASE op.id = id
    <3>1. op.do # "take"
      <4>1. ~AsWritten(c, id) /\ id[1] \notin Leftover BY DEF Disturbed, AsWritten, Leftover
      <4> QED BY <2>1, <2>3, <4>1 DEF OpStands
    <3>2. op.do # "put" BY <2>1, <2>3 DEF OpStands
    <3> QED BY <2>1, <2>3, <3>1, <3>2 DEF OpStands, Touches
  <2>4. CASE op.id # id
    <3>1. SUFFICES ASSUME op.do = "put", op.id[1] = "rule", id[1] = "rule", op.id[3] = id[3]
                   PROVE  FALSE
      BY <2>4 DEF Touches
    <3>2. Shaped(op.id) BY <2>1, <3>1 DEF OpStands
    <3>3. op.id = <<"rule", <<>>, op.id[3]>> /\ id = <<"rule", <<>>, id[3]>>
      BY <2>2, <3>1, <3>2 DEF Shaped
    <3> QED BY <2>4, <3>1, <3>3, Zenon
  <2> QED BY <2>3, <2>4
<1>2. Alike(id, After(c).machine, c.machine) BY <1>1, PlanOps, AfterHolds
<1> QED BY <1>2 DEF Alike, Held

\* A file that was not written, or was changed since, is not taken away.
LEMMA FileStays ==
  ASSUME NEW c, NEW schemes, Ready(c, schemes), NEW id \in DOMAIN c.machine, id[1] = "file",
         id \in DOMAIN c.rows => c.machine[id] # c.rows[id].data
  PROVE  id \in DOMAIN After(c).machine
<1>1. ASSUME NEW op \in ToSet(Plan(c)), op.do = "take", op.id = id PROVE FALSE
  <2>1. OpStands(c, op) BY PlanOps
  <2>2. id \in DOMAIN c.rows /\ (AsWritten(c, id) \/ id[1] \in Leftover)
    BY <1>1, <2>1 DEF OpStands
  <2> QED BY <2>2 DEF AsWritten, Held, Leftover
<1> QED BY <1>1, PlanOps, AfterHolds

\* A scheme that is not to be claimed keeps all it has.
LEMMA ForeignStays ==
  ASSUME NEW c, NEW schemes, Ready(c, schemes), Claims(c.rows, c.scope, schemes),
         NEW s \in schemes, ~MayClaim(c.machine, c.rows, c.scope, s)
  PROVE  Below(After(c).machine, Class(c.scope, <<s>>)) = Below(c.machine, Class(c.scope, <<s>>))
<1> DEFINE class == Class(c.scope, <<s>>)
<1>1. ASSUME NEW id, id[1] \in {"key", "value"}, IsUnder(id[2], class)
      PROVE  Alike(id, After(c).machine, c.machine)
  <2>1. ASSUME NEW op \in ToSet(Plan(c)) PROVE ~Touches(op, id)
    <3>1. SUFFICES ASSUME op.do # "keep", op.id = id PROVE FALSE BY <1>1 DEF Touches
    <3>2. OpStands(c, op) BY PlanOps
    <3>3. CASE op.do = "take"
      <4>1. id \in DOMAIN c.rows BY <3>1, <3>2, <3>3 DEF OpStands
      <4>2. <<"key", class, "">> \in DOMAIN c.rows /\ c.rows[<<"key", class, "">>].was = Absent
        BY <1>1, <4>1 DEF Claims
      <4> QED BY <4>2 DEF MayClaim
    <3>4. CASE op.do # "take"
      <4>1. op.id[1] \in {"key", "value"} /\ IsUnder(op.id[2], Class(c.scope, <<s>>))
        BY <1>1, <3>1
      <4> QED BY <3>4, <4>1, PlanClaims
    <3> QED BY <3>3, <3>4
  <2> QED BY <2>1, PlanOps, AfterHolds
<1> HIDE DEF class
<1>2. Below(After(c).machine, class) = Below(c.machine, class) BY <1>1 DEF Below, Alike
<1> QED BY <1>2 DEF class

\* What a run that did not fail comes to own.
LEMMA RowsAfter ==
  ASSUME NEW c, NEW schemes, Ready(c, schemes), ~After(c).failed
  PROVE  /\ IsFiniteSet(DOMAIN After(c).rows) /\ \A id \in DOMAIN After(c).rows : Shaped(id)
         /\ Claims(After(c).rows, c.scope, schemes)
<1> DEFINE ops == ToSet(Plan(c))
           owned == After(c).rows
<1>1. /\ \A op \in ops : op.do # "take" => op.id \in DOMAIN owned
      /\ \A id \in DOMAIN owned : \E op \in ops :
           op.do # "take" /\ op.id = id /\ owned[id].was = op.was
  BY PlanOps, AfterHolds
<1>2. IsFiniteSet(ops) /\ \A op \in ops : OpStands(c, op) BY PlanOps, FiniteListed
<1>3. \A op \in ops, s \in schemes :
        op.do # "take" /\ op.id[1] \in {"key", "value"}
        /\ IsUnder(op.id[2], Class(c.scope, <<s>>)) =>
          /\ MayClaim(c.machine, c.rows, c.scope, s)
          /\ \E other \in ops : other.do # "take" /\ other.id = <<"key", Class(c.scope, <<s>>), "">>
  BY PlanClaims
<1> HIDE DEF ops, owned
<1>4. IsFiniteSet(DOMAIN owned)
  <2> DEFINE f == [op \in ops |-> op.id]
             ids == {f[op] : op \in ops}
  <2>1. DOMAIN owned \subseteq ids BY <1>1
  <2>2. IsFiniteSet(ids)
    <3> HIDE DEF f
    <3> QED BY <1>2, FiniteImage
  <2> HIDE DEF ids
  <2> QED BY <2>1, <2>2, FS_Subset
<1>5. \A id \in DOMAIN owned : Shaped(id) BY <1>1, <1>2 DEF OpStands
<1>6. Claims(owned, c.scope, schemes)
  <2> SUFFICES ASSUME NEW s \in schemes, NEW id \in DOMAIN owned,
                      id[1] \in {"key", "value"}, IsUnder(id[2], Class(c.scope, <<s>>))
               PROVE  /\ <<"key", Class(c.scope, <<s>>), "">> \in DOMAIN owned
                      /\ owned[<<"key", Class(c.scope, <<s>>), "">>].was = Absent
    BY DEF Claims
  <2> DEFINE class == Class(c.scope, <<s>>)
             key == <<"key", class, "">>
  <2>1. PICK op \in ops : op.do # "take" /\ op.id = id BY <1>1
  <2>2. MayClaim(c.machine, c.rows, c.scope, s) BY <1>3, <2>1
  <2>3. PICK other \in ops : other.do # "take" /\ other.id = key BY <1>3, <2>1
  <2>4. key[1] = "key" /\ key[2] = class OBVIOUS
  <2>5. \/ key \in DOMAIN c.rows /\ c.rows[key].was = Absent
        \/ ~KeyExists(c.machine, c.scope, class)
    BY <2>2 DEF MayClaim
  <2> HIDE DEF key
  <2>6. key \in DOMAIN owned BY <1>1, <2>3
  <2>7. PICK own \in ops : own.do # "take" /\ own.id = key /\ owned[key].was = own.was
    BY <1>1, <2>6
  <2>8. own.was = Absent \/ (KeyExists(c.machine, c.scope, class) /\ own.was = c.rows[key].was)
    BY <1>2, <2>4, <2>7 DEF OpStands
  <2>9. owned[key].was = Absent BY <2>5, <2>7, <2>8
  <2> QED BY <2>6, <2>9 DEF key
<1> QED BY <1>4, <1>5, <1>6 DEF owned

-----------------------------------------------------------------------------
(* What an installing and a removing run start from.                        *)

LEMMA KeyOutside ==
  ASSUME NEW m, NEW scope
  PROVE  Outside(RegistrationKey(m, scope))
  BY AppPathsOutside, OutsideMore DEF RegistrationKey

LEMMA TowardReady ==
  ASSUME NEW k \in Cases, NEW m \in k.versions, NEW opts, NEW s, NEW holds, NEW owned,
         NEW repairing \in BOOLEAN, IsFiniteSet(DOMAIN owned), \A id \in DOMAIN owned : Shaped(id)
  PROVE  Ready(Toward(m, opts, k.scope, s, holds, owned, repairing), PlainSchemes(k))
<1> DEFINE c == Toward(m, opts, k.scope, s, holds, owned, repairing)
           w == Desired(m, opts, k.scope, s, holds, owned)
           files == DesiredFiles(m, opts)
           schemes == Foreign(c, PlainSchemes(k))
<1>1. /\ c.wanted = w /\ c.machine = holds /\ c.rows = owned /\ c.scope = k.scope
      /\ c.repair = repairing /\ c.registrationKey = RegistrationKey(m, k.scope)
  BY DEF Toward
<1>2. /\ w.files = files /\ w.directories = DesiredDirectories(m, files)
      /\ w.values = ProductValues(m, opts, k.scope) \o Integrations(m, opts, k.scope, holds, owned)
      /\ w.path = PathEntries(m, opts) /\ w.variables = Variables(m, opts, k.scope)
      /\ w.shortcuts = Shortcuts(m, opts, k.scope) /\ w.blocks = Blocks(m, opts, files, s)
      /\ w.rules = Rules(m, opts) /\ w.registration = Registration(m, k.scope)
  BY DEF Desired
<1>3. Typed(m) BY InstallationAssumption
<1> HIDE DEF c, w, files
<1>4. ClearValues(w.values, k.scope, schemes)
  <2>1. /\ schemes \in SUBSET PlainSchemes(k)
        /\ \A x \in schemes : ~MayClaim(holds, owned, k.scope, x)
    BY <1>1 DEF Foreign
  <2>2. \A v \in ToSet(m.registry), x \in schemes :
          ~IsUnder(ValueKey(v, k.scope), Class(k.scope, <<x>>))
    BY <2>1 DEF PlainSchemes
  <2> HIDE DEF schemes
  <2>3. ClearValues(ProductValues(m, opts, k.scope), k.scope, schemes)
    BY <1>3, <2>2, ClearProduct
  <2>4. ClearValues(Integrations(m, opts, k.scope, holds, owned), k.scope, schemes)
    BY <2>1, ClearIntegrations
  <2> QED BY <1>2, <2>3, <2>4, ClearJoined
<1>5. Of(w.files, {"file"}) BY <1>2, <1>3, FilesOf DEF files
<1>6. IsSequence(w.directories) /\ \A path \in ToSet(w.directories) : IsSequence(path)
  BY <1>2, <1>3, DirectoriesListed
<1>7. Of(w.path, {"path"}) /\ Of(w.variables, {"variable"}) /\ Of(w.rules, {"rule"})
  BY <1>2, <1>3, PathOf, VariablesOf, RulesOf
<1>8. Of(w.shortcuts, {"shortcut", "url"}) /\ Of(w.blocks, {"block"})
  BY <1>2, <1>3, ShortcutsOf, BlocksOf
<1>9. /\ IsSequence(w.registration)
      /\ \A x \in ToSet(w.registration) : x.id[1] = "value" /\ x.id[2] = RegistrationKey(m, k.scope)
  BY <1>2, RegistrationOf
<1>10. Outside(RegistrationKey(m, k.scope)) BY KeyOutside
<1> HIDE DEF schemes
<1>11. Ready(c, PlainSchemes(k))
  BY <1>1, <1>4, <1>5, <1>6, <1>7, <1>8, <1>9, <1>10 DEF Ready, schemes
<1> QED BY <1>11 DEF c

LEMMA AwayReady ==
  ASSUME NEW m, NEW scope, NEW s, NEW holds, NEW owned, NEW schemes,
         IsFiniteSet(DOMAIN owned), \A id \in DOMAIN owned : Shaped(id)
  PROVE  Ready(Away(m, scope, s, holds, owned), schemes)
<1> DEFINE c == Away(m, scope, s, holds, owned)
           w == NothingWanted
<1>1. /\ c.wanted = w /\ c.rows = owned /\ c.repair = FALSE /\ c.scope = scope
      /\ c.registrationKey = RegistrationKey(m, scope)
  BY DEF Away
<1>2. /\ w.files = <<>> /\ w.directories = <<>> /\ w.values = <<>> /\ w.path = <<>>
      /\ w.variables = <<>> /\ w.shortcuts = <<>> /\ w.blocks = <<>> /\ w.rules = <<>>
      /\ w.registration = <<>>
  BY DEF NothingWanted
<1>3. \A kinds : Of(<<>>, kinds) BY OfNone
<1>4. IsSequence(<<>>) /\ ToSet(<<>>) = {} BY NoneListed
<1>5. \A ss : ClearValues(<<>>, scope, ss) BY ClearNone
<1>6. Outside(RegistrationKey(m, scope)) BY KeyOutside
<1> HIDE DEF c, w
<1>7. Ready(c, schemes) BY <1>1, <1>2, <1>3, <1>4, <1>5, <1>6 DEF Ready
<1> QED BY <1>7 DEF c

-----------------------------------------------------------------------------
(* The installation over its runs.                                          *)

InstallationInv ==
  /\ case \in Cases
  /\ installed \in case.versions \cup {None}
  /\ IsFiniteSet(DOMAIN rows) /\ \A id \in DOMAIN rows : Shaped(id)
  /\ Claims(rows, case.scope, PlainSchemes(case))

LEMMA NothingOwned ==
  ASSUME NEW scope, NEW schemes
  PROVE  /\ IsFiniteSet(DOMAIN Empty) /\ \A id \in DOMAIN Empty : Shaped(id)
         /\ Claims(Empty, scope, schemes)
<1>1. DOMAIN Empty = {} BY DEF Empty
<1> QED BY <1>1, FS_EmptySet DEF Claims

\* What a run owns is well shaped, and it owns anything in the class of a plain
\* scheme only with the class itself as of its own making, whatever the
\* versions, the options and what others do between the runs.
THEOREM InstallationInvariance == InstallationSpec => []InstallationInv
<1>1. InstallationInit => InstallationInv
  BY NothingOwned DEF InstallationInit, InstallationInv
<1>2. ASSUME InstallationInv, [InstallationNext]_installationVars PROVE InstallationInv'
  <2> USE <1>2
  <2>1. ASSUME NEW m \in case.versions, NEW s, NEW explicit, NEW repairing \in BOOLEAN,
               Reconcile(m, s, explicit, repairing)
        PROVE  InstallationInv'
    <3> DEFINE opts == EffectiveOptions(m, options, explicit)
               c == Toward(m, opts, case.scope, s, machine, rows, repairing)
    <3>1. CASE After(c).failed
      <4>1. UNCHANGED <<case, rows, installed>> BY <2>1, <3>1 DEF Reconcile
      <4> QED BY <4>1 DEF InstallationInv
    <3>2. CASE ~After(c).failed
      <4>1. rows' = After(c).rows /\ installed' = m /\ case' = case
        BY <2>1, <3>2 DEF Reconcile
      <4>2. Ready(c, PlainSchemes(case)) /\ c.scope = case.scope
        <5>1. Ready(c, PlainSchemes(case))
          <6> HIDE DEF opts
          <6> QED BY TowardReady DEF InstallationInv
        <5> QED BY <5>1 DEF Toward
      <4> HIDE DEF c
      <4>3. /\ IsFiniteSet(DOMAIN After(c).rows) /\ \A id \in DOMAIN After(c).rows : Shaped(id)
            /\ Claims(After(c).rows, case.scope, PlainSchemes(case))
        BY <3>2, <4>2, RowsAfter
      <4> QED BY <4>1, <4>3 DEF InstallationInv
    <3> QED BY <3>1, <3>2
  <2>2. CASE \E m \in case.versions, explicit \in case.requests : Refuse(m, explicit)
    BY <2>2 DEF Refuse, InstallationInv
  <2>3. CASE \E m \in case.versions, explicit \in case.requests, s \in case.sites,
                accepting \in case.accepts : Install(m, s, explicit, accepting)
    BY <2>1, <2>3 DEF Install
  <2>4. CASE \E m \in case.versions, explicit \in case.requests, s \in case.sites :
               Repair(m, s, explicit)
    BY <2>1, <2>4 DEF Repair
  <2>5. CASE \E s \in case.sites : Uninstall(s)
    <3>1. rows' = Empty /\ installed' = None /\ case' = case BY <2>5 DEF Uninstall
    <3> QED BY <3>1, NothingOwned DEF InstallationInv
  <2>6. CASE \E edit \in case.edits : Meddle(edit) BY <2>6 DEF Meddle, InstallationInv
  <2>7. CASE UNCHANGED installationVars BY <2>7 DEF installationVars, InstallationInv
  <2> QED BY <2>2, <2>3, <2>4, <2>5, <2>6, <2>7 DEF InstallationNext
<1> QED BY <1>1, <1>2, PTL DEF InstallationSpec

\* The schemes TheirsStand is about are the ones not to be claimed.
LEMMA ForeignKeys ==
  ASSUME NEW key \in ForeignSchemes
  PROVE  \E s \in PlainSchemes(case) :
           key = Class(case.scope, <<s>>) /\ ~MayClaim(machine, rows, case.scope, s)
  BY DEF ForeignSchemes, MayClaim

\* One run against what is not the installation's own.
LEMMA RunSpares ==
  ASSUME InstallationInv, NEW c, Ready(c, PlainSchemes(case)), c.machine = machine, c.rows = rows,
         c.scope = case.scope, NEW m \in case.versions,
         c.registrationKey = RegistrationKey(m, case.scope)
  PROVE  /\ ~c.repair => \A id \in DOMAIN rows :
              Changed(id) => Held(After(c).machine, id) = Held(machine, id)
         /\ \A id \in OfKind("file", machine) :
              (id \in DOMAIN rows => machine[id] # rows[id].data) => id \in DOMAIN After(c).machine
         /\ \A key \in ForeignSchemes : Below(After(c).machine, key) = Below(machine, key)
<1>1. ASSUME ~c.repair, NEW id \in DOMAIN rows, Changed(id)
      PROVE  Held(After(c).machine, id) = Held(machine, id)
  <2>1. /\ Disturbed(c, id) /\ id[1] \in {"value", "variable", "rule"}
        /\ id[2] # c.registrationKey
    BY <1>1 DEF Changed, Disturbed
  <2> QED BY <1>1, <2>1, AlteredStays
<1>2. ASSUME NEW id \in OfKind("file", machine),
             id \in DOMAIN rows => machine[id] # rows[id].data
      PROVE  id \in DOMAIN After(c).machine
  <2>1. id \in DOMAIN c.machine /\ id[1] = "file"
        /\ (id \in DOMAIN c.rows => c.machine[id] # c.rows[id].data)
    BY <1>2 DEF OfKind
  <2> QED BY <2>1, FileStays
<1>3. ASSUME NEW key \in ForeignSchemes
      PROVE  Below(After(c).machine, key) = Below(machine, key)
  <2>1. PICK s \in PlainSchemes(case) :
          key = Class(case.scope, <<s>>) /\ ~MayClaim(machine, rows, case.scope, s)
    BY ForeignKeys
  <2>2. Claims(c.rows, c.scope, PlainSchemes(case)) /\ ~MayClaim(c.machine, c.rows, c.scope, s)
    BY <2>1 DEF InstallationInv
  <2>3. Below(After(c).machine, Class(c.scope, <<s>>)) = Below(c.machine, Class(c.scope, <<s>>))
    BY <2>2, ForeignStays
  <2> QED BY <2>1, <2>3
<1> QED BY <1>1, <1>2, <1>3

\* TheirsStand: whatever versions are installed, upgraded to, repaired and
\* removed, with whatever options, on whatever machine and whatever others
\* change of it between the runs, no run that is not a repair touches a value,
\* a variable or a rule that was changed, none takes away a file that is not
\* its own or was changed, and none touches the class of a plain scheme that
\* is there without a record of the installation's having created it.
THEOREM OthersStand == InstallationSpec => TheirsStand
<1> DEFINE Spared ==
             last' # "edit" =>
               /\ last' # "repair" =>
                    \A id \in DOMAIN rows : Changed(id) => Held(machine', id) = Held(machine, id)
               /\ \A id \in OfKind("file", machine) :
                    (id \in DOMAIN rows => machine[id] # rows[id].data) => id \in DOMAIN machine'
               /\ \A key \in ForeignSchemes : Below(machine', key) = Below(machine, key)
<1>1. ASSUME InstallationInv, InstallationNext PROVE Spared
  <2> USE <1>1
  <2>1. CASE machine' = machine BY <2>1 DEF OfKind
  <2>2. ASSUME NEW m \in case.versions, NEW s, NEW explicit, NEW repairing \in BOOLEAN,
               Reconcile(m, s, explicit, repairing)
        PROVE  Spared
    <3> DEFINE opts == EffectiveOptions(m, options, explicit)
               c == Toward(m, opts, case.scope, s, machine, rows, repairing)
    <3>1. CASE After(c).failed BY <2>1, <2>2, <3>1 DEF Reconcile
    <3>2. CASE ~After(c).failed
      <4>1. machine' = After(c).machine /\ last' = IF repairing THEN "repair" ELSE "install"
        BY <2>2, <3>2 DEF Reconcile
      <4>2. Ready(c, PlainSchemes(case))
        <5> HIDE DEF opts
        <5> QED BY TowardReady DEF InstallationInv
      <4>3. /\ c.machine = machine /\ c.rows = rows /\ c.scope = case.scope
            /\ c.repair = repairing /\ c.registrationKey = RegistrationKey(m, case.scope)
        BY DEF Toward
      <4> HIDE DEF c
      <4> QED BY <4>1, <4>2, <4>3, RunSpares
    <3> QED BY <3>1, <3>2
  <2>3. CASE \E m \in case.versions, explicit \in case.requests : Refuse(m, explicit)
    BY <2>1, <2>3 DEF Refuse
  <2>4. CASE \E m \in case.versions, explicit \in case.requests, s \in case.sites,
                accepting \in case.accepts : Install(m, s, explicit, accepting)
    <3> HIDE DEF Spared
    <3> QED BY <2>2, <2>4 DEF Install
  <2>5. CASE \E m \in case.versions, explicit \in case.requests, s \in case.sites :
               Repair(m, s, explicit)
    <3> HIDE DEF Spared
    <3> QED BY <2>2, <2>5 DEF Repair
  <2>6. CASE \E s \in case.sites : Uninstall(s)
    <3>1. PICK s \in case.sites : Uninstall(s) BY <2>6
    <3> DEFINE c == Away(installed, case.scope, s, machine, rows)
    <3>2. machine' = After(c).machine /\ installed # None BY <3>1 DEF Uninstall
    <3>3. Ready(c, PlainSchemes(case)) BY AwayReady DEF InstallationInv
    <3>4. /\ c.machine = machine /\ c.rows = rows /\ c.scope = case.scope
          /\ c.repair = FALSE /\ c.registrationKey = RegistrationKey(installed, case.scope)
      BY DEF Away
    <3>5. installed \in case.versions BY <3>2 DEF InstallationInv
    <3> HIDE DEF c
    <3> QED BY <3>2, <3>3, <3>4, <3>5, RunSpares
  <2>7. CASE \E edit \in case.edits : Meddle(edit) BY <2>7 DEF Meddle
  <2> QED BY <2>3, <2>4, <2>5, <2>6, <2>7 DEF InstallationNext
<1>2. InstallationInv /\ [InstallationNext]_installationVars => [Spared]_installationVars
  <2> HIDE DEF Spared
  <2> QED BY <1>1
<1> QED BY <1>2, InstallationInvariance, PTL DEF InstallationSpec, TheirsStand
=============================================================================
