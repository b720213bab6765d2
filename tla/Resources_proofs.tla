-------------------------- MODULE Resources_proofs --------------------------
(***************************************************************************)
(* What is proved of Resources, for any installations, versions, texts and *)
(* places found: the shapes of the state and the executor's protocol; that *)
(* a rollback nobody interfered with leaves the place as the transaction   *)
(* began with it; that no step of an engine adds, takes away, changes or   *)
(* reorders a line of a profile; that rules, links, variables and the      *)
(* separate lines of a profile that are not the product's outlast all it   *)
(* does; and that the place is as it was found once nobody owns it.        *)
(***************************************************************************)
EXTENDS Resources, FiniteSetTheorems, SequenceTheorems, WellFoundedInduction, TLAPS

(***************************************************************************)
(* Texts: what appending a block, putting one in another's place and taking *)
(* one out do to the lines and to the other blocks.                         *)
(***************************************************************************)

\* A set of numbers that is not empty has a least one.
LEMMA Least ==
  ASSUME NEW S \in SUBSET Nat, S # {}
  PROVE  \E n \in S : \A m \in S : n <= m
<1> DEFINE R == OpToRel(<, Nat)
<1>1. IsWellFoundedOn(R, Nat) BY NatLessThanWellFounded
<1>2. \A m, n \in Nat : m < n => <<m, n>> \in R BY DEF OpToRel
<1> HIDE DEF R
<1>3. PICK n \in S : \A m \in S : <<m, n>> \notin R BY <1>1, WFMin, Zenon
<1>4. \A m \in S : ~(m < n) BY <1>2, <1>3
<1> QED BY <1>4

\* One more token: the next of the lines.
NextLines(lines, t) == IF IsText(t) THEN Append(lines, t) ELSE lines

LEMMA LinesExist ==
  ASSUME NEW text, NEW n \in Nat
  PROVE  \E f : f = [i \in 0..n |-> IF i = 0 THEN <<>> ELSE NextLines(f[i - 1], text[i])]
<1> DEFINE Reads(k) == \E f : f = [i \in 0..k |-> IF i = 0 THEN <<>> ELSE NextLines(f[i - 1], text[i])]
           Bad == {k \in Nat : ~Reads(k)}
<1> SUFFICES ASSUME Bad # {} PROVE FALSE OBVIOUS
<1>1. PICK k \in Bad : \A j \in Bad : k <= j
  <2> HIDE DEF Reads
  <2> QED BY Least
<1>2. k # 0
  <2> DEFINE g == [i \in 0..0 |-> <<>>]
  <2>1. g = [i \in 0..0 |-> IF i = 0 THEN <<>> ELSE NextLines(g[i - 1], text[i])] OBVIOUS
  <2>2. Reads(0) BY <2>1
  <2> QED BY <2>2
<1>3. Reads(k - 1)
  <2> HIDE DEF Reads
  <2> QED BY <1>1, <1>2
<1>4. PICK f : f = [i \in 0..(k - 1) |-> IF i = 0 THEN <<>> ELSE NextLines(f[i - 1], text[i])]
  BY <1>3
<1> DEFINE g == [i \in 0..k |-> IF i = k THEN NextLines(f[k - 1], text[k]) ELSE f[i]]
<1>5. ASSUME NEW i \in 0..k
      PROVE  g[i] = IF i = 0 THEN <<>> ELSE NextLines(g[i - 1], text[i])
  <2>1. CASE i = k BY <1>2, <2>1
  <2>2. CASE i # k BY <1>2, <1>4, <2>2
  <2> QED BY <2>1, <2>2
<1>6. g = [i \in 0..k |-> IF i = 0 THEN <<>> ELSE NextLines(g[i - 1], text[i])] BY <1>5
<1>7. Reads(k) BY <1>6
<1> QED BY <1>1, <1>7

LEMMA LinesEquation ==
  ASSUME NEW text \in Seq(Tokens)
  PROVE  /\ LinesUpTo(text)[0] = <<>>
         /\ \A i \in 1..Len(text) :
              LinesUpTo(text)[i] = NextLines(LinesUpTo(text)[i - 1], text[i])
         /\ \A i \in 0..Len(text) : LinesUpTo(text)[i] \in Seq(Texts)
         /\ Lines(text) \in Seq(Texts)
<1> DEFINE f == LinesUpTo(text)
<1>1. f = [i \in 0..Len(text) |-> IF i = 0 THEN <<>> ELSE NextLines(f[i - 1], text[i])]
  <2>1. \E g : g = [i \in 0..Len(text) |-> IF i = 0 THEN <<>> ELSE NextLines(g[i - 1], text[i])]
    BY LinesExist
  <2> QED BY <2>1, Zenon DEF LinesUpTo, NextLines
<1>5. Lines(text) = f[Len(text)] BY DEF Lines
<1> HIDE DEF f
<1>2. \A i \in 1..Len(text) : f[i] = NextLines(f[i - 1], text[i]) BY <1>1
<1>6. f[0] = <<>> BY <1>1
<1> DEFINE Bad == {k \in Nat : k <= Len(text) /\ f[k] \notin Seq(Texts)}
<1>3. Bad = {}
  <2> SUFFICES ASSUME Bad # {} PROVE FALSE OBVIOUS
  <2>1. PICK k \in Bad : \A j \in Bad : k <= j
    <3>1. Bad \in SUBSET Nat OBVIOUS
    <3> HIDE DEF Bad
    <3> QED BY <3>1, Least
  <2>2. k \in 1..Len(text) /\ f[k] \notin Seq(Texts)
    <3>1. <<>> \in Seq(Texts) /\ Len(text) \in Nat OBVIOUS
    <3>2. k \in Nat /\ k <= Len(text) /\ f[k] \notin Seq(Texts) OBVIOUS
    <3>3. k # 0 BY <1>6, <3>1, <3>2
    <3> HIDE DEF Bad
    <3> QED BY <3>1, <3>2, <3>3
  <2>3. f[k - 1] \in Seq(Texts) BY <2>1, <2>2
  <2>4. f[k] = NextLines(f[k - 1], text[k]) BY <1>2, <2>2
  <2>5. \A t \in Texts : Append(f[k - 1], t) \in Seq(Texts) BY <2>3
  <2> QED BY <2>2, <2>3, <2>4, <2>5 DEF NextLines, IsText
<1>4. \A i \in 0..Len(text) : f[i] \in Seq(Texts) BY <1>3
<1> QED BY <1>2, <1>4, <1>5, <1>6 DEF f

LEMMA NextLinesConcat ==
  ASSUME NEW a \in Seq(Texts), NEW b \in Seq(Texts), NEW t
  PROVE  NextLines(a \o b, t) = a \o NextLines(b, t)
<1>1. \A x \in Texts : Append(a \o b, x) = a \o Append(b, x) OBVIOUS
<1> QED BY <1>1 DEF NextLines, IsText

\* Lines of one text and then of another.
LEMMA LinesConcat ==
  ASSUME NEW s \in Seq(Tokens), NEW t \in Seq(Tokens)
  PROVE  Lines(s \o t) = Lines(s) \o Lines(t)
<1> DEFINE u == s \o t
           f == LinesUpTo(u)
           g == LinesUpTo(s)
           h == LinesUpTo(t)
<1>1. /\ u \in Seq(Tokens) /\ Len(u) = Len(s) + Len(t)
      /\ \A i \in 1..Len(s) : u[i] = s[i]
      /\ \A i \in 1..Len(t) : u[Len(s) + i] = t[i]
  OBVIOUS
<1>0. /\ f[0] = <<>> /\ g[0] = <<>> /\ h[0] = <<>>
      /\ Len(s) \in Nat /\ Len(t) \in Nat
  <2>1. f[0] = <<>>
    <3> HIDE DEF u
    <3> QED BY <1>1, LinesEquation
  <2>2. g[0] = <<>> /\ h[0] = <<>> BY LinesEquation
  <2> QED BY <2>1, <2>2
<1>2. \A i \in 1..Len(u) : f[i] = NextLines(f[i - 1], u[i])
  <2> HIDE DEF u
  <2> QED BY <1>1, LinesEquation
<1>3. \A i \in 1..Len(s) : g[i] = NextLines(g[i - 1], s[i]) BY LinesEquation
<1>4. \A i \in 1..Len(t) : h[i] = NextLines(h[i - 1], t[i]) BY LinesEquation
<1>11. \A i \in 0..Len(t) : h[i] \in Seq(Texts) BY LinesEquation
<1>5. g[Len(s)] \in Seq(Texts) BY LinesEquation
<1>6. Lines(u) = f[Len(u)] /\ Lines(s) = g[Len(s)] /\ Lines(t) = h[Len(t)] BY DEF Lines
<1> HIDE DEF u, f, g, h
<1> DEFINE Bad1 == {k \in Nat : k <= Len(s) /\ f[k] # g[k]}
           Bad2 == {k \in Nat : k <= Len(t) /\ f[Len(s) + k] # g[Len(s)] \o h[k]}
<1>7. Bad1 = {}
  <2> SUFFICES ASSUME Bad1 # {} PROVE FALSE OBVIOUS
  <2>1. PICK k \in Bad1 : \A j \in Bad1 : k <= j
    <3>1. Bad1 \in SUBSET Nat OBVIOUS
    <3> HIDE DEF Bad1
    <3> QED BY <3>1, Least
  <2>2. k \in 1..Len(s) /\ f[k] # g[k] BY <1>0
  <2>3. f[k - 1] = g[k - 1] BY <2>1, <2>2
  <2>4. f[k] = NextLines(f[k - 1], u[k]) /\ u[k] = s[k]
    <3>1. k \in 1..Len(u) BY <1>0, <1>1, <2>2
    <3> QED BY <1>1, <1>2, <2>2, <3>1
  <2>5. g[k] = NextLines(g[k - 1], s[k]) BY <1>3, <2>2
  <2> QED BY <2>2, <2>3, <2>4, <2>5
<1>8. f[Len(s)] = g[Len(s)]
  <2>1. Len(s) \notin Bad1 /\ Len(s) <= Len(s) BY <1>0, <1>7
  <2> QED BY <1>0, <2>1
<1>9. Bad2 = {}
  <2> SUFFICES ASSUME Bad2 # {} PROVE FALSE OBVIOUS
  <2>1. PICK k \in Bad2 : \A j \in Bad2 : k <= j
    <3>1. Bad2 \in SUBSET Nat OBVIOUS
    <3> HIDE DEF Bad2
    <3> QED BY <3>1, Least
  <2>2. k \in 1..Len(t) /\ f[Len(s) + k] # g[Len(s)] \o h[k]
    <3>1. g[Len(s)] \o <<>> = g[Len(s)] BY <1>5
    <3>2. Len(s) + 0 = Len(s) BY <1>0
    <3>3. k \in Nat /\ k <= Len(t) /\ f[Len(s) + k] # g[Len(s)] \o h[k] OBVIOUS
    <3>4. k # 0 BY <1>0, <1>8, <3>1, <3>2, <3>3
    <3>5. k \in Nat /\ k <= Len(t) OBVIOUS
    <3> HIDE DEF Bad2
    <3>6. k \in 1..Len(t) BY <1>0, <3>4, <3>5
    <3> QED BY <3>3, <3>6
  <2>3. f[Len(s) + k - 1] = g[Len(s)] \o h[k - 1]
    <3>1. k - 1 \in Nat /\ k - 1 \notin Bad2 /\ Len(s) \in Nat
      <4>1. k - 1 \in Nat /\ ~(k <= k - 1) BY <1>0, <2>2
      <4> HIDE DEF Bad2
      <4> QED BY <1>0, <2>1, <4>1
    <3>2. Len(s) + (k - 1) = Len(s) + k - 1 BY <2>2, <3>1
    <3>3. k - 1 <= Len(t) BY <1>0, <2>2
    <3> QED BY <3>1, <3>2, <3>3
  <2>4. f[Len(s) + k] = NextLines(f[Len(s) + k - 1], t[k])
    <3>1. Len(s) + k \in 1..Len(u) BY <1>1, <2>2
    <3> QED BY <1>1, <1>2, <2>2, <3>1
  <2>5. h[k] = NextLines(h[k - 1], t[k]) /\ h[k - 1] \in Seq(Texts) BY <1>4, <1>11, <2>2
  <2>6. g[Len(s)] \in Seq(Texts) /\ h[k - 1] \in Seq(Texts) BY <1>5, <2>5
  <2>7. NextLines(g[Len(s)] \o h[k - 1], t[k]) = g[Len(s)] \o NextLines(h[k - 1], t[k])
    <3> HIDE DEF Bad1, Bad2
    <3> QED BY <2>6, NextLinesConcat, Zenon
  <2> QED BY <2>2, <2>3, <2>4, <2>5, <2>7, Zenon
<1>10. f[Len(s) + Len(t)] = g[Len(s)] \o h[Len(t)]
  <2>1. Len(t) \notin Bad2 BY <1>9
  <2>2. Len(t) \in Nat /\ Len(t) <= Len(t) BY <1>0
  <2> QED BY <2>1, <2>2
<1> QED BY <1>1, <1>6, <1>10 DEF u

\* No line, no lines.
LEMMA NoLines ==
  ASSUME NEW text \in Seq(Tokens), \A k \in 1..Len(text) : ~IsText(text[k])
  PROVE  Lines(text) = <<>>
<1> DEFINE f == LinesUpTo(text)
<1>0. f[0] = <<>> /\ Len(text) \in Nat BY LinesEquation
<1>1. \A i \in 1..Len(text) : f[i] = NextLines(f[i - 1], text[i]) BY LinesEquation
<1>2. Lines(text) = f[Len(text)] BY DEF Lines
<1> HIDE DEF f
<1> DEFINE Bad == {k \in Nat : k <= Len(text) /\ f[k] # <<>>}
<1>3. Bad = {}
  <2> SUFFICES ASSUME Bad # {} PROVE FALSE OBVIOUS
  <2>1. PICK k \in Bad : \A j \in Bad : k <= j
    <3>1. Bad \in SUBSET Nat OBVIOUS
    <3> HIDE DEF Bad
    <3> QED BY <3>1, Least
  <2>2. k \in 1..Len(text) /\ f[k] # <<>> BY <1>0
  <2>3. f[k - 1] = <<>> BY <2>1, <2>2
  <2> QED BY <1>1, <2>2, <2>3 DEF NextLines
<1> QED BY <1>0, <1>2, <1>3

\* Lines around tokens that are none.
LEMMA LinesAround ==
  ASSUME NEW a \in Seq(Tokens), NEW x \in Seq(Tokens), NEW c \in Seq(Tokens),
         \A k \in 1..Len(x) : ~IsText(x[k])
  PROVE  Lines(a \o (x \o c)) = Lines(a \o c)
<1>1. Lines(x \o c) = Lines(c)
  <2>1. Lines(x) = <<>> /\ Lines(c) \in Seq(Texts) BY NoLines, LinesEquation
  <2>2. Lines(x \o c) = Lines(x) \o Lines(c) BY LinesConcat
  <2> QED BY <2>1, <2>2, ConcatEmptySeq
<1>2. x \o c \in Seq(Tokens) OBVIOUS
<1>3. Lines(a \o (x \o c)) = Lines(a) \o Lines(x \o c) BY <1>2, LinesConcat
<1>4. Lines(a \o c) = Lines(a) \o Lines(c) BY LinesConcat
<1> QED BY <1>1, <1>3, <1>4

LEMMA Headed ==
  ASSUME NEW S, NEW e \in S, NEW b \in Seq(S)
  PROVE  /\ <<e>> \o b \in Seq(S) /\ Len(<<e>> \o b) = 1 + Len(b)
         /\ (<<e>> \o b)[1] = e
         /\ \A j \in 2..(1 + Len(b)) : (<<e>> \o b)[j] = b[j - 1]
OBVIOUS

\* One token and what is around it.
LEMMA Around ==
  ASSUME NEW S, NEW text \in Seq(S), NEW k \in 1..Len(text)
  PROVE  /\ SubSeq(text, 1, k - 1) \in Seq(S) /\ SubSeq(text, k + 1, Len(text)) \in Seq(S)
         /\ Len(SubSeq(text, 1, k - 1)) = k - 1
         /\ Len(SubSeq(text, k + 1, Len(text))) = Len(text) - k
         /\ text = SubSeq(text, 1, k - 1) \o (<<text[k]>> \o SubSeq(text, k + 1, Len(text)))
<1> DEFINE a == SubSeq(text, 1, k - 1)
           b == SubSeq(text, k + 1, Len(text))
           c == <<text[k]>> \o b
<1>1. /\ a \in Seq(S) /\ Len(a) = k - 1 /\ \A j \in 1..(k - 1) : a[j] = text[j]
      /\ b \in Seq(S) /\ Len(b) = Len(text) - k
      /\ \A j \in 1..(Len(text) - k) : b[j] = text[k + j]
  OBVIOUS
<1>2. /\ text[k] \in S /\ <<text[k]>> \in Seq(S) /\ Len(<<text[k]>>) = 1 /\ <<text[k]>>[1] = text[k]
      /\ Len(text) \in Nat /\ k \in Nat /\ 1 <= k /\ k <= Len(text)
  OBVIOUS
<1> HIDE DEF a, b
<1>3. /\ c \in Seq(S) /\ Len(c) = Len(text) - k + 1 /\ c[1] = text[k]
      /\ \A j \in 2..(Len(text) - k + 1) : c[j] = b[j - 1]
  <2>1. c \in Seq(S) /\ Len(c) = 1 + Len(b)
    <3>1. text[k] \in S /\ b \in Seq(S) BY <1>1, <1>2
    <3> QED BY <3>1, Headed
  <2>2. c[1] = text[k] BY <1>1, <1>2
  <2>3. \A j \in 2..(1 + Len(b)) : c[j] = b[j - 1] BY <1>1, <1>2
  <2> HIDE DEF c
  <2>4. 1 + Len(b) = Len(text) - k + 1 BY <1>1, <1>2
  <2> QED BY <2>1, <2>2, <2>3, <2>4
<1> HIDE DEF c
<1>4. a \o c \in Seq(S) /\ Len(a \o c) = Len(text)
  <2>1. a \o c \in Seq(S) /\ Len(a \o c) = Len(a) + Len(c) BY <1>1, <1>3, ConcatProperties
  <2> QED BY <1>1, <1>2, <1>3, <2>1
<1>5. ASSUME NEW j \in 1..Len(text) PROVE (a \o c)[j] = text[j]
  <2>1. CASE j < k BY <1>1, <1>2, <1>3, <2>1
  <2>2. CASE j = k BY <1>1, <1>2, <1>3, <2>2
  <2>3. CASE j > k
    <3>1. (a \o c)[j] = c[j - k + 1] BY <1>1, <1>2, <1>3, <2>3
    <3>2. c[j - k + 1] = b[j - k] BY <1>2, <1>3, <2>3
    <3>3. b[j - k] = text[j] BY <1>1, <1>2, <2>3
    <3> QED BY <3>1, <3>2, <3>3
  <2>4. j \in Nat /\ k \in Nat BY <1>2
  <2>5. j < k \/ j = k \/ j > k BY <2>4
  <2> QED BY <2>1, <2>2, <2>3, <2>5, Zenon
<1>6. a \o c = text BY <1>4, <1>5, SeqEqual
<1> QED BY <1>1, <1>6 DEF a, b, c

Block(m, c) == [marker |-> m, text |-> c]

\* Each marker has one block at most.
Single(text) ==
  \A k, l \in DOMAIN text :
    IsBlock(text[k]) /\ IsBlock(text[l]) /\ text[k].marker = text[l].marker => k = l

LEMMA TokenKinds ==
  ASSUME NEW t \in Tokens
  PROVE  /\ IsBlock(t) <=> t \in Blocks
         /\ IsText(t) => ~IsBlock(t)
         /\ ~IsText(NewLine) /\ ~IsBlock(NewLine)
         /\ IsBlock(t) => /\ t = Block(t.marker, t.text) /\ t.text # None
                          /\ t.text \in Contents \cup {Edited, Damaged}
<1>1. IsBlock(t) <=> t \in Blocks BY ResourcesAssumption DEF Tokens, IsBlock
<1>2. ~IsText(NewLine) /\ ~IsBlock(NewLine) /\ (IsText(t) => ~IsBlock(t))
  BY ResourcesAssumption DEF IsText, IsBlock
<1>3. ASSUME t \in Blocks
      PROVE  t = Block(t.marker, t.text) /\ t.text \in Contents \cup {Edited, Damaged}
  BY <1>3 DEF Blocks, Block
<1>4. None \notin Contents \cup {Edited, Damaged} BY ResourcesAssumption
<1> QED BY <1>1, <1>2, <1>3, <1>4

LEMMA BlockToken ==
  ASSUME NEW m \in Installations \cup {"product"}, NEW c \in Contents \cup {Edited, Damaged}
  PROVE  /\ Block(m, c) \in Tokens /\ IsBlock(Block(m, c)) /\ ~IsText(Block(m, c))
         /\ Block(m, c).marker = m /\ Block(m, c).text = c /\ c # None
<1>1. Block(m, c) \in Blocks BY DEF Block, Blocks
<1>2. Block(m, c) \in Tokens BY <1>1 DEF Tokens
<1>3. c # None BY ResourcesAssumption
<1> QED BY <1>1, <1>2, <1>3, TokenKinds DEF Block

\* What a look for a marker finds.
LEMMA Finds ==
  ASSUME NEW text \in Seq(Tokens), Single(text), NEW m
  PROVE  /\ find(text, m) = None <=> \A b \in BlocksIn(text) : b.marker # m
         /\ \A b \in BlocksIn(text) : b.marker = m => find(text, m) = b.text
         /\ find(text, m) # None =>
              /\ Position(text, m) \in 1..Len(text)
              /\ text[Position(text, m)] = Block(m, find(text, m))
              /\ IsBlock(text[Position(text, m)])
              /\ Positions(text, m) = {Position(text, m)}
              /\ find(text, m) \in Contents \cup {Edited, Damaged}
<1>1. DOMAIN text = 1..Len(text) /\ \A k \in 1..Len(text) : text[k] \in Tokens OBVIOUS
<1>2. CASE Positions(text, m) = {}
  <2>1. find(text, m) = None BY <1>2 DEF find
  <2>2. \A b \in BlocksIn(text) : b.marker # m BY <1>2 DEF BlocksIn, ToSet, Positions
  <2> QED BY <2>1, <2>2
<1>3. CASE Positions(text, m) # {}
  <2>1. PICK k : k \in Positions(text, m) BY <1>3
  <2>2. Positions(text, m) = {k} BY <2>1 DEF Single, Positions
  <2>3. Position(text, m) = k BY <2>2 DEF Position
  <2>4. find(text, m) = text[k].text BY <1>3, <2>3 DEF find
  <2>5. k \in 1..Len(text) /\ IsBlock(text[k]) /\ text[k].marker = m
    BY <1>1, <2>1 DEF Positions
  <2>6. /\ text[k] = Block(m, text[k].text) /\ text[k].text # None
        /\ text[k].text \in Contents \cup {Edited, Damaged}
    BY <1>1, <2>5, TokenKinds
  <2>7. text[k] \in BlocksIn(text) BY <1>1, <2>5 DEF BlocksIn, ToSet
  <2>8. ASSUME NEW b \in BlocksIn(text), b.marker = m PROVE b = text[k]
    <3>1. PICK l \in DOMAIN text : b = text[l] /\ IsBlock(text[l]) BY DEF BlocksIn, ToSet
    <3> QED BY <1>1, <2>5, <2>8, <3>1 DEF Single
  <2> QED BY <2>2, <2>3, <2>4, <2>5, <2>6, <2>7, <2>8
<1> QED BY <1>2, <1>3

Apart(text, m) == {b \in BlocksIn(text) : b.marker # m}

\* A block put over the one there.
LEMMA PutOver ==
  ASSUME NEW text \in Seq(Tokens), Single(text), NEW m \in Installations \cup {"product"},
         NEW c \in Contents \cup {Edited, Damaged}, find(text, m) # None
  PROVE  LET next == with_block(text, m, c)
         IN  /\ next = [text EXCEPT ![Position(text, m)] = Block(m, c)]
             /\ next \in Seq(Tokens) /\ Len(next) = Len(text)
             /\ Single(next) /\ BlocksIn(next) = Apart(text, m) \cup {Block(m, c)}
             /\ Lines(next) = Lines(text)
             /\ Position(next, m) = Position(text, m)
<1> DEFINE k == Position(text, m)
           next == with_block(text, m, c)
           B == Block(m, c)
<1>1. /\ k \in 1..Len(text) /\ IsBlock(text[k]) /\ text[k].marker = m /\ ~IsText(text[k])
      /\ text[k] \in Tokens
  <2>1. k \in 1..Len(text) /\ IsBlock(text[k]) /\ text[k] = Block(m, find(text, m)) BY Finds
  <2>2. text[k] \in Tokens BY <2>1
  <2> QED BY <2>1, <2>2, TokenKinds DEF Block
<1>2. next = [text EXCEPT ![k] = B] BY DEF with_block, Block
<1>3. B \in Tokens /\ IsBlock(B) /\ ~IsText(B) /\ B.marker = m BY BlockToken
<1> HIDE DEF k, next, B
<1>4. /\ next \in Seq(Tokens) /\ Len(next) = Len(text) /\ DOMAIN next = 1..Len(text)
      /\ next[k] = B /\ \A j \in 1..Len(text) : j # k => next[j] = text[j]
      /\ DOMAIN text = 1..Len(text)
  BY <1>1, <1>2, <1>3
<1>5. Single(next) BY <1>1, <1>3, <1>4 DEF Single
<1>6. BlocksIn(next) = Apart(text, m) \cup {B}
  <2>1. ASSUME NEW b \in BlocksIn(next) PROVE b \in Apart(text, m) \cup {B}
    <3>1. PICK j \in 1..Len(text) : b = next[j] /\ IsBlock(next[j])
      BY <1>4 DEF BlocksIn, ToSet
    <3>2. CASE j = k BY <1>4, <3>1, <3>2
    <3>3. CASE j # k
      <4>1. b = text[j] /\ IsBlock(text[j]) BY <1>4, <3>1, <3>3
      <4>2. text[j].marker # m BY <1>1, <1>4, <3>3, <4>1 DEF Single
      <4> QED BY <1>4, <4>1, <4>2 DEF Apart, BlocksIn, ToSet
    <3> QED BY <3>2, <3>3
  <2>2. ASSUME NEW b \in Apart(text, m) PROVE b \in BlocksIn(next)
    <3>1. PICK j \in 1..Len(text) : b = text[j] /\ IsBlock(text[j]) /\ text[j].marker # m
      BY <1>4 DEF Apart, BlocksIn, ToSet
    <3> QED BY <1>1, <1>4, <3>1 DEF BlocksIn, ToSet
  <2>3. B \in BlocksIn(next) BY <1>1, <1>3, <1>4 DEF BlocksIn, ToSet
  <2> QED BY <2>1, <2>2, <2>3
<1>7. Lines(next) = Lines(text)
  <2> DEFINE a == SubSeq(text, 1, k - 1)
             r == SubSeq(text, k + 1, Len(text))
  <2>1. a \in Seq(Tokens) /\ r \in Seq(Tokens) /\ <<B>> \in Seq(Tokens) /\ <<text[k]>> \in Seq(Tokens)
    BY <1>1, <1>3
  <2>2. text = a \o (<<text[k]>> \o r) BY <1>1, Around
  <2>3. next = a \o (<<B>> \o r)
    <3>1. next = SubSeq(next, 1, k - 1) \o (<<next[k]>> \o SubSeq(next, k + 1, Len(next)))
      BY <1>1, <1>4, Around
    <3>2. SubSeq(next, 1, k - 1) = a BY <1>1, <1>4
    <3>3. SubSeq(next, k + 1, Len(next)) = r BY <1>1, <1>4
    <3> QED BY <1>4, <3>1, <3>2, <3>3
  <2> HIDE DEF a, r
  <2>4. Lines(a \o (<<text[k]>> \o r)) = Lines(a \o r)
    <3>1. \A j \in 1..Len(<<text[k]>>) : ~IsText(<<text[k]>>[j]) BY <1>1
    <3> QED BY <2>1, <3>1, LinesAround
  <2>5. Lines(a \o (<<B>> \o r)) = Lines(a \o r)
    <3>1. \A j \in 1..Len(<<B>>) : ~IsText(<<B>>[j]) BY <1>3
    <3> QED BY <2>1, <3>1, LinesAround
  <2> QED BY <2>2, <2>3, <2>4, <2>5
<1>8. Positions(next, m) = {k} BY <1>1, <1>3, <1>4 DEF Positions, Single
<1>9. Position(next, m) = k BY <1>8 DEF Position
<1> QED BY <1>2, <1>4, <1>5, <1>6, <1>7, <1>9 DEF k, next, B

LEMMA Joined ==
  ASSUME NEW S, NEW a \in Seq(S), NEW b \in Seq(S)
  PROVE  /\ a \o b \in Seq(S) /\ Len(a \o b) = Len(a) + Len(b)
         /\ Len(a) \in Nat /\ Len(b) \in Nat
         /\ \A j \in 1..Len(a) : (a \o b)[j] = a[j]
         /\ \A j \in 1..Len(b) : (a \o b)[Len(a) + j] = b[j]
OBVIOUS

LEMMA BreaksAre ==
  ASSUME NEW n \in Nat
  PROVE  /\ Breaks(n) \in Seq(Tokens) /\ Len(Breaks(n)) = n
         /\ \A j \in 1..n : Breaks(n)[j] = NewLine
<1>1. NewLine \in Tokens BY DEF Tokens
<1> QED BY <1>1 DEF Breaks

\* To end in line breaks.
LEMMA EndsIn ==
  ASSUME NEW text \in Seq(Tokens), NEW n \in Nat
  PROVE  IsSuffix(Breaks(n), text) <=>
           n <= Len(text) /\ \A j \in (Len(text) - n + 1)..Len(text) : text[j] = NewLine
<1> DEFINE a == Reverse(Breaks(n))
           b == Reverse(text)
<1>1. /\ a \in Seq(Tokens) /\ Len(a) = n /\ \A j \in 1..n : a[j] = NewLine
  <2>1. a = [j \in 1..n |-> Breaks(n)[n - j + 1]] BY BreaksAre DEF Reverse
  <2>2. \A j \in 1..n : Breaks(n)[n - j + 1] = NewLine BY BreaksAre
  <2>3. NewLine \in Tokens BY DEF Tokens
  <2> QED BY <2>1, <2>2, <2>3
<1>2. /\ b \in Seq(Tokens) /\ Len(b) = Len(text) /\ Len(text) \in Nat
      /\ \A j \in 1..Len(text) : b[j] = text[Len(text) - j + 1]
  <2>1. b = [j \in 1..Len(text) |-> text[Len(text) - j + 1]] BY DEF Reverse
  <2>2. \A j \in 1..Len(text) : text[Len(text) - j + 1] \in Tokens OBVIOUS
  <2>3. Len(text) \in Nat OBVIOUS
  <2> HIDE DEF b
  <2> QED BY <2>1, <2>2, <2>3
<1>3. IsSuffix(Breaks(n), text) <=> n <= Len(b) /\ SubSeq(a, 1, n) = SubSeq(b, 1, n)
  BY <1>1 DEF IsSuffix, IsPrefix
<1> HIDE DEF a, b
<1>4. CASE n <= Len(text)
  <2>1. SubSeq(a, 1, n) = SubSeq(b, 1, n) <=> \A j \in 1..n : b[j] = NewLine
    <3>1. SubSeq(a, 1, n) \in Seq(Tokens) /\ Len(SubSeq(a, 1, n)) = n BY <1>1
    <3>2. SubSeq(b, 1, n) \in Seq(Tokens) /\ Len(SubSeq(b, 1, n)) = n BY <1>2, <1>4
    <3>3. \A j \in 1..n : SubSeq(a, 1, n)[j] = NewLine BY <1>1
    <3>4. \A j \in 1..n : SubSeq(b, 1, n)[j] = b[j] BY <1>2, <1>4
    <3>5. ASSUME SubSeq(a, 1, n) = SubSeq(b, 1, n) PROVE \A j \in 1..n : b[j] = NewLine
      BY <3>3, <3>4, <3>5
    <3>6. ASSUME \A j \in 1..n : b[j] = NewLine PROVE SubSeq(a, 1, n) = SubSeq(b, 1, n)
      BY <3>1, <3>2, <3>3, <3>4, <3>6, SeqEqual
    <3> QED BY <3>5, <3>6
  <2>2. (\A j \in 1..n : b[j] = NewLine) <=>
          \A j \in (Len(text) - n + 1)..Len(text) : text[j] = NewLine
    <3>1. ASSUME \A j \in 1..n : b[j] = NewLine, NEW j \in (Len(text) - n + 1)..Len(text)
          PROVE  text[j] = NewLine
      <4>1. Len(text) - j + 1 \in 1..n /\ Len(text) - j + 1 \in 1..Len(text) BY <1>2, <1>4
      <4>2. Len(text) - (Len(text) - j + 1) + 1 = j BY <1>2
      <4> QED BY <1>2, <3>1, <4>1, <4>2
    <3>2. ASSUME \A j \in (Len(text) - n + 1)..Len(text) : text[j] = NewLine, NEW j \in 1..n
          PROVE  b[j] = NewLine
      <4>1. /\ Len(text) - j + 1 \in (Len(text) - n + 1)..Len(text) /\ j \in 1..Len(text)
        BY <1>2, <1>4
      <4> QED BY <1>2, <3>2, <4>1
    <3> QED BY <3>1, <3>2
  <2> QED BY <1>2, <1>3, <1>4, <2>1, <2>2
<1> QED BY <1>2, <1>3, <1>4

\* The line breaks before a block leave a blank line, or are at the beginning.
LEMMA Separators ==
  ASSUME NEW text \in Seq(Tokens)
  PROVE  /\ separator_for(text) \in 0..2
         /\ text = <<>> => separator_for(text) = 0
         /\ text # <<>> /\ text[Len(text)] = NewLine => separator_for(text) \in 0..1
         /\ text # <<>> /\ text[Len(text)] # NewLine => separator_for(text) = 2
         /\ separator_for(text) = 0 => text = <<>> \/ BlankAtEnd(text)
         /\ separator_for(text) = 1 => text # <<>> /\ text[Len(text)] = NewLine
<1>1. text # <<>> => Last(text) = text[Len(text)] BY DEF Last
<1>2. text # <<>> /\ text[Len(text)] # NewLine => ~BlankAtEnd(text)
  <2>1. ASSUME text # <<>>, BlankAtEnd(text) PROVE text[Len(text)] = NewLine
    <3>1. Len(text) \in Nat /\ 2 \in Nat OBVIOUS
    <3>2. 2 <= Len(text) /\ \A j \in (Len(text) - 2 + 1)..Len(text) : text[j] = NewLine
      BY <2>1, <3>1, EndsIn DEF BlankAtEnd
    <3>3. Len(text) \in (Len(text) - 2 + 1)..Len(text) BY <3>1
    <3> QED BY <3>2, <3>3
  <2> QED BY <2>1
<1>3. text # <<>> /\ separator_for(text) = 1 => text[Len(text)] = NewLine
  BY <1>1 DEF separator_for
<1> QED BY <1>1, <1>2, <1>3 DEF separator_for

\* A block put at the end.
LEMMA Appended ==
  ASSUME NEW text \in Seq(Tokens), Single(text), NEW m \in Installations \cup {"product"},
         NEW c \in Contents \cup {Edited, Damaged}, find(text, m) = None
  PROVE  LET next == with_block(text, m, c)
             s    == separator_for(text)
         IN  /\ next \in Seq(Tokens) /\ Len(next) = Len(text) + s + 2
             /\ \A j \in 1..Len(text) : next[j] = text[j]
             /\ \A j \in 1..s : next[Len(text) + j] = NewLine
             /\ next[Len(text) + s + 1] = Block(m, c) /\ next[Len(text) + s + 2] = NewLine
             /\ Single(next) /\ BlocksIn(next) = Apart(text, m) \cup {Block(m, c)}
             /\ Lines(next) = Lines(text)
             /\ Position(next, m) = Len(text) + s + 1
<1> DEFINE s == separator_for(text)
           next == with_block(text, m, c)
           B == Block(m, c)
           x == Breaks(s) \o <<B, NewLine>>
           n == Len(text)
<1>1. s \in 0..2 /\ s \in Nat BY Separators
<1>2. /\ B \in Tokens /\ IsBlock(B) /\ ~IsText(B) /\ B.marker = m /\ NewLine \in Tokens
      /\ ~IsText(NewLine) /\ ~IsBlock(NewLine)
  BY BlockToken, TokenKinds DEF Tokens
<1>3. next = (text \o Breaks(s)) \o <<B, NewLine>> BY DEF with_block, Block
<1>4. Breaks(s) \in Seq(Tokens) /\ Len(Breaks(s)) = s /\ \A j \in 1..s : Breaks(s)[j] = NewLine
  BY <1>1, BreaksAre
<1>5. <<B, NewLine>> \in Seq(Tokens) /\ Len(<<B, NewLine>>) = 2 BY <1>2
<1>6. n \in Nat /\ DOMAIN text = 1..n OBVIOUS
<1> DEFINE t == Breaks(s)
           e == <<B, NewLine>>
<1>7. e[1] = B /\ e[2] = NewLine OBVIOUS
<1> HIDE DEF s, next, B, t, e, n
<1>8. /\ x \in Seq(Tokens) /\ Len(x) = s + 2
      /\ \A j \in 1..s : x[j] = NewLine
      /\ x[s + 1] = B /\ x[s + 2] = NewLine
  <2>1. x = t \o e BY DEF t, e
  <2>2. t \in Seq(Tokens) /\ Len(t) = s /\ \A j \in 1..s : t[j] = NewLine BY <1>4 DEF t
  <2>3. e \in Seq(Tokens) /\ Len(e) = 2 BY <1>5 DEF e
  <2> HIDE DEF x
  <2>4. /\ t \o e \in Seq(Tokens) /\ Len(t \o e) = Len(t) + Len(e)
        /\ \A j \in 1..Len(t) : (t \o e)[j] = t[j]
        /\ \A j \in 1..Len(e) : (t \o e)[Len(t) + j] = e[j]
    <3>1. t \in Seq(Tokens) /\ e \in Seq(Tokens) BY <2>2, <2>3
    <3> QED BY <3>1, Joined
  <2>5. /\ x \in Seq(Tokens) /\ Len(x) = s + 2
        /\ \A j \in 1..s : x[j] = t[j]
        /\ \A j \in 1..2 : x[s + j] = e[j]
    BY <2>1, <2>2, <2>3, <2>4, Zenon
  <2> QED BY <1>7, <2>2, <2>5
<1>9. next = text \o x BY <1>3, <1>4, <1>5, ConcatAssociative
<1> HIDE DEF x
<1>10. /\ next \in Seq(Tokens) /\ Len(next) = n + s + 2 /\ DOMAIN next = 1..(n + s + 2)
       /\ \A j \in 1..n : next[j] = text[j]
       /\ \A j \in 1..s : next[n + j] = NewLine
       /\ next[n + s + 1] = B /\ next[n + s + 2] = NewLine
  <2>8. /\ text \o x \in Seq(Tokens) /\ Len(text \o x) = Len(text) + Len(x)
        /\ \A j \in 1..Len(text) : (text \o x)[j] = text[j]
        /\ \A j \in 1..Len(x) : (text \o x)[Len(text) + j] = x[j]
    <3>1. x \in Seq(Tokens) BY <1>8
    <3> QED BY <3>1, Joined
  <2>1. next \in Seq(Tokens) /\ Len(next) = n + (s + 2) BY <1>8, <1>9, <2>8, Zenon DEF n
  <2>2. \A j \in 1..n : next[j] = text[j] BY <1>9, <2>8, Zenon DEF n
  <2>3. \A j \in 1..(s + 2) : next[n + j] = x[j] BY <1>8, <1>9, <2>8, Zenon DEF n
  <2>4. \A j \in 1..s : next[n + j] = NewLine BY <1>1, <1>8, <2>3
  <2>5. next[n + (s + 1)] = B /\ next[n + (s + 2)] = NewLine
    <3>1. s + 1 \in 1..(s + 2) /\ s + 2 \in 1..(s + 2) BY <1>1
    <3> QED BY <1>8, <2>3, <3>1
  <2>6. n + (s + 2) = n + s + 2 /\ n + (s + 1) = n + s + 1 BY <1>1, <1>6
  <2>7. DOMAIN next = 1..Len(next) BY <2>1
  <2> QED BY <2>1, <2>2, <2>4, <2>5, <2>6, <2>7
<1>11. ASSUME NEW j \in DOMAIN next, IsBlock(next[j])
       PROVE  \/ j \in 1..n /\ next[j] = text[j] /\ text[j].marker # m
              \/ j = n + s + 1 /\ next[j] = B
  <2>1. j \in 1..n \/ j = n + s + 1 \/ j = n + s + 2 \/ \E l \in 1..s : j = n + l
    <3>1. j \in 1..(n + s + 2) BY <1>10
    <3>2. ASSUME j > n, j < n + s + 1 PROVE \E l \in 1..s : j = n + l
      <4>1. j - n \in 1..s /\ j = n + (j - n) BY <1>1, <1>6, <3>1, <3>2
      <4> QED BY <4>1
    <3> QED BY <1>1, <1>6, <3>1, <3>2
  <2>2. CASE j \in 1..n
    <3>1. next[j] = text[j] /\ IsBlock(text[j]) BY <1>10, <1>11, <2>2
    <3>2. text[j] \in BlocksIn(text) BY <1>6, <2>2, <3>1 DEF BlocksIn, ToSet
    <3>3. text[j].marker # m BY <3>2, Finds
    <3> QED BY <2>2, <3>1, <3>3
  <2>3. j # n + s + 2 /\ ~\E l \in 1..s : j = n + l BY <1>2, <1>10, <1>11
  <2> QED BY <1>10, <2>1, <2>2, <2>3
<1>12. Single(next)
  <2>1. ASSUME NEW j \in DOMAIN next, NEW l \in DOMAIN next,
               IsBlock(next[j]), IsBlock(next[l]), next[j].marker = next[l].marker
        PROVE  j = l
    <3>1. \/ j \in 1..n /\ next[j] = text[j] /\ text[j].marker # m
          \/ j = n + s + 1 /\ next[j] = B
      BY <1>11, <2>1
    <3>2. \/ l \in 1..n /\ next[l] = text[l] /\ text[l].marker # m
          \/ l = n + s + 1 /\ next[l] = B
      BY <1>11, <2>1
    <3> QED BY <1>2, <1>6, <2>1, <3>1, <3>2 DEF Single
  <2> QED BY <2>1 DEF Single
<1>13. BlocksIn(next) = Apart(text, m) \cup {B}
  <2>1. ASSUME NEW b \in BlocksIn(next) PROVE b \in Apart(text, m) \cup {B}
    <3>1. PICK j \in DOMAIN next : b = next[j] /\ IsBlock(next[j]) BY DEF BlocksIn, ToSet
    <3>2. \/ j \in 1..n /\ next[j] = text[j] /\ text[j].marker # m
          \/ j = n + s + 1 /\ next[j] = B
      BY <1>11, <3>1
    <3> QED BY <1>6, <3>1, <3>2 DEF Apart, BlocksIn, ToSet
  <2>2. ASSUME NEW b \in Apart(text, m) PROVE b \in BlocksIn(next)
    <3>1. PICK j \in 1..n : b = text[j] /\ IsBlock(text[j])
      BY <1>6 DEF Apart, BlocksIn, ToSet
    <3>2. j \in DOMAIN next BY <1>1, <1>6, <1>10
    <3> QED BY <1>10, <3>1, <3>2 DEF BlocksIn, ToSet
  <2>3. B \in BlocksIn(next)
    <3>1. n + s + 1 \in DOMAIN next BY <1>1, <1>6, <1>10
    <3> QED BY <1>2, <1>10, <3>1 DEF BlocksIn, ToSet
  <2> QED BY <2>1, <2>2, <2>3
<1>14. Lines(next) = Lines(text)
  <2>1. \A j \in 1..Len(x) : ~IsText(x[j])
    <3>1. ASSUME NEW j \in 1..Len(x) PROVE x[j] \in {NewLine, B}
      <4>1. j \in 1..s \/ j = s + 1 \/ j = s + 2 BY <1>1, <1>8
      <4> QED BY <1>8, <4>1
    <3> QED BY <1>2, <3>1
  <2>2. Lines(x) = <<>> /\ Lines(text) \in Seq(Texts) BY <1>8, <2>1, NoLines, LinesEquation
  <2>3. Lines(text \o x) = Lines(text) \o Lines(x) BY <1>8, LinesConcat
  <2> QED BY <1>9, <2>2, <2>3, ConcatEmptySeq
<1>15. Position(next, m) = n + s + 1
  <2>1. Positions(next, m) = {n + s + 1}
    <3>1. n + s + 1 \in DOMAIN next BY <1>1, <1>6, <1>10
    <3> QED BY <1>2, <1>10, <1>11, <3>1 DEF Positions
  <2> QED BY <2>1 DEF Position
<1> QED BY <1>10, <1>12, <1>13, <1>14, <1>15 DEF s, next, B, n

\* What is between two places taken out.
LEMMA CutOut ==
  ASSUME NEW text \in Seq(Tokens), NEW l \in 0..Len(text), NEW r \in (l + 1)..(Len(text) + 1)
  PROVE  LET next == SubSeq(text, 1, l) \o SubSeq(text, r, Len(text))
         IN  /\ next \in Seq(Tokens) /\ Len(next) = l + (Len(text) + 1 - r)
             /\ \A j \in 1..l : next[j] = text[j]
             /\ \A j \in r..Len(text) : next[j - r + l + 1] = text[j]
             /\ \A j \in (l + 1)..(l + (Len(text) + 1 - r)) : next[j] = text[j - l - 1 + r]
<1> DEFINE a == SubSeq(text, 1, l)
           b == SubSeq(text, r, Len(text))
           n == Len(text)
<1>1. n \in Nat /\ l \in Nat /\ r \in Nat /\ l < r /\ r <= n + 1 /\ l <= n OBVIOUS
<1>2. a \in Seq(Tokens) /\ Len(a) = l /\ \A j \in 1..l : a[j] = text[j] BY <1>1
<1>3. b \in Seq(Tokens) /\ Len(b) = n + 1 - r /\ \A j \in 1..(n + 1 - r) : b[j] = text[j + r - 1]
  BY <1>1
<1> HIDE DEF a, b, n
<1>4. /\ a \o b \in Seq(Tokens) /\ Len(a \o b) = Len(a) + Len(b)
      /\ \A j \in 1..Len(a) : (a \o b)[j] = a[j]
      /\ \A j \in 1..Len(b) : (a \o b)[Len(a) + j] = b[j]
  <2>1. a \in Seq(Tokens) /\ b \in Seq(Tokens) BY <1>2, <1>3
  <2> QED BY <2>1, Joined
<1> DEFINE next == a \o b
<1>5. /\ next \in Seq(Tokens) /\ Len(next) = l + (n + 1 - r)
      /\ \A j \in 1..l : next[j] = a[j]
      /\ \A j \in 1..(n + 1 - r) : next[l + j] = b[j]
  BY <1>2, <1>3, <1>4, Zenon
<1> HIDE DEF next
<1>6. \A j \in 1..l : next[j] = text[j] BY <1>2, <1>5
<1>7. ASSUME NEW j \in r..n PROVE next[j - r + l + 1] = text[j]
  <2>1. j - r + 1 \in 1..(n + 1 - r) /\ l + (j - r + 1) = j - r + l + 1 /\ (j - r + 1) + r - 1 = j
    BY <1>1
  <2>2. next[l + (j - r + 1)] = b[j - r + 1] BY <1>5, <2>1
  <2>3. b[j - r + 1] = text[(j - r + 1) + r - 1] BY <1>3, <2>1
  <2> QED BY <2>1, <2>2, <2>3, Zenon
<1>8. ASSUME NEW j \in (l + 1)..(l + (n + 1 - r)) PROVE next[j] = text[j - l - 1 + r]
  <2>1. j - l \in 1..(n + 1 - r) /\ l + (j - l) = j /\ (j - l) + r - 1 = j - l - 1 + r
    BY <1>1
  <2>2. next[l + (j - l)] = b[j - l] BY <1>5, <2>1
  <2>3. b[j - l] = text[(j - l) + r - 1] BY <1>3, <2>1
  <2> QED BY <2>1, <2>2, <2>3, Zenon
<1> QED BY <1>5, <1>6, <1>7, <1>8 DEF a, b, n, next

\* The tokens left keep their order.
LEMMA CutSingle ==
  ASSUME NEW text \in Seq(Tokens), Single(text),
         NEW l \in 0..Len(text), NEW r \in (l + 1)..(Len(text) + 1)
  PROVE  Single(SubSeq(text, 1, l) \o SubSeq(text, r, Len(text)))
<1> DEFINE next == SubSeq(text, 1, l) \o SubSeq(text, r, Len(text))
           n == Len(text)
           Old(j) == IF j <= l THEN j ELSE j - l - 1 + r
<1>1. /\ next \in Seq(Tokens) /\ Len(next) = l + (n + 1 - r)
      /\ \A j \in 1..l : next[j] = text[j]
      /\ \A j \in (l + 1)..(l + (n + 1 - r)) : next[j] = text[j - l - 1 + r]
  BY CutOut
<1>2. n \in Nat /\ l \in Nat /\ r \in Nat /\ l < r /\ r <= n + 1 /\ l <= n /\ DOMAIN text = 1..n
  OBVIOUS
<1> HIDE DEF next, n
<1>3. DOMAIN next = 1..(l + (n + 1 - r))
  <2>1. DOMAIN next = 1..Len(next) BY <1>1
  <2> QED BY <1>1, <2>1
<1>4. ASSUME NEW j \in DOMAIN next PROVE Old(j) \in 1..n /\ next[j] = text[Old(j)]
  <2>1. CASE j <= l
    <3>1. j \in 1..l /\ j \in 1..n BY <1>2, <1>3, <2>1
    <3> QED BY <1>1, <2>1, <3>1
  <2>2. CASE ~(j <= l)
    <3>1. j \in (l + 1)..(l + (n + 1 - r)) /\ j - l - 1 + r \in 1..n BY <1>2, <1>3, <2>2
    <3> QED BY <1>1, <2>2, <3>1
  <2> QED BY <2>1, <2>2
<1>5. \A j \in DOMAIN next : \A i \in DOMAIN next : Old(j) = Old(i) => j = i BY <1>2, <1>3
<1> HIDE DEF Old
<1>6. ASSUME NEW j \in DOMAIN next, NEW i \in DOMAIN next,
             IsBlock(next[j]), IsBlock(next[i]), next[j].marker = next[i].marker
      PROVE  j = i
  <2>1. Old(j) = Old(i) BY <1>2, <1>4, <1>6 DEF Single
  <2> QED BY <1>5, <2>1
<1> QED BY <1>6 DEF Single, next, n

\* The last token before what is taken out with a block, and the first after.
LastBefore(text, marker, sep) ==
  LET k == Position(text, marker)
  IN  IF SeparatorStands(SubSeq(text, 1, k - 1), sep) THEN k - 1 - sep ELSE k - 1

FirstAfter(text, marker) ==
  LET k == Position(text, marker)
  IN  IF k < Len(text) /\ text[k + 1] = NewLine THEN k + 2 ELSE k + 1

\* Where the text without a block is cut.
LEMMA CutWhere ==
  ASSUME NEW text \in Seq(Tokens), Single(text), NEW m, find(text, m) # None, NEW sep \in 0..2
  PROVE  /\ without_block(text, m, sep)
              = SubSeq(text, 1, LastBefore(text, m, sep)) \o SubSeq(text, FirstAfter(text, m), Len(text))
         /\ LastBefore(text, m, sep) \in 0..(Position(text, m) - 1)
         /\ FirstAfter(text, m) \in (Position(text, m) + 1)..(Len(text) + 1)
         /\ \A j \in (LastBefore(text, m, sep) + 1)..(FirstAfter(text, m) - 1) :
              j # Position(text, m) => text[j] = NewLine
<1> DEFINE k == Position(text, m)
           before == SubSeq(text, 1, k - 1)
           rest == SubSeq(text, k + 1, Len(text))
           n == Len(text)
           l == IF SeparatorStands(before, sep) THEN k - 1 - sep ELSE k - 1
           r == IF k < Len(text) /\ text[k + 1] = NewLine THEN k + 2 ELSE k + 1
<1>1. k \in 1..n /\ n \in Nat BY Finds
<1>2. /\ before \in Seq(Tokens) /\ Len(before) = k - 1
      /\ \A j \in 1..(k - 1) : before[j] = text[j]
  BY <1>1
<1>3. /\ rest \in Seq(Tokens) /\ Len(rest) = n - k
      /\ \A j \in 1..(n - k) : rest[j] = text[k + j]
  BY <1>1
<1>4. without_block(text, m, sep) =
        (IF SeparatorStands(before, sep) THEN SubSeq(before, 1, k - 1 - sep) ELSE before)
          \o (IF rest # <<>> /\ rest[1] = NewLine THEN Tail(rest) ELSE rest)
  BY DEF without_block
<1> HIDE DEF k
<1>5. /\ l \in 0..(k - 1) /\ \A j \in (l + 1)..(k - 1) : text[j] = NewLine
      /\ (IF SeparatorStands(before, sep) THEN SubSeq(before, 1, k - 1 - sep) ELSE before)
           = SubSeq(text, 1, l)
  <2>1. CASE SeparatorStands(before, sep)
    <3>1. sep <= Len(before) /\ \A j \in (Len(before) - sep + 1)..Len(before) : before[j] = NewLine
      <4>1. IsSuffix(Breaks(sep), before) /\ sep \in Nat BY <2>1 DEF SeparatorStands
      <4> HIDE DEF before
      <4> QED BY <1>2, <4>1, EndsIn
    <3>2. l = k - 1 - sep /\ l \in 0..(k - 1)
      <4>1. sep <= k - 1 BY <1>2, <3>1
      <4> QED BY <1>1, <2>1, <4>1
    <3>3. ASSUME NEW j \in (l + 1)..(k - 1) PROVE text[j] = NewLine
      <4>1. j \in (Len(before) - sep + 1)..Len(before) /\ j \in 1..(k - 1)
        <5> HIDE DEF before, l
        <5> QED BY <1>1, <1>2, <3>2
      <4> QED BY <1>2, <3>1, <4>1
    <3>4. SubSeq(before, 1, k - 1 - sep) = SubSeq(text, 1, l)
      <4>1. l <= k - 1 /\ l \in Nat /\ k - 1 <= n BY <1>1, <3>2
      <4>2. SubSeq(before, 1, l) \in Seq(Tokens) /\ Len(SubSeq(before, 1, l)) = l
            /\ \A j \in 1..l : SubSeq(before, 1, l)[j] = before[j]
        <5> HIDE DEF before, l
        <5> QED BY <1>1, <1>2, <4>1
      <4>3. SubSeq(text, 1, l) \in Seq(Tokens) /\ Len(SubSeq(text, 1, l)) = l
            /\ \A j \in 1..l : SubSeq(text, 1, l)[j] = text[j]
        <5> HIDE DEF before, l
        <5> QED BY <1>1, <4>1
      <4>4. \A j \in 1..l : before[j] = text[j]
        <5> HIDE DEF before, l
        <5> QED BY <1>1, <1>2, <4>1
      <4>5. SubSeq(before, 1, l) = SubSeq(text, 1, l)
        <5> HIDE DEF before, l
        <5> QED BY <4>2, <4>3, <4>4, SeqEqual
      <4> QED BY <3>2, <4>5
    <3> QED BY <2>1, <3>2, <3>3, <3>4
  <2>2. CASE ~SeparatorStands(before, sep)
    <3>1. l = k - 1 BY <2>2
    <3> HIDE DEF l
    <3> QED BY <1>1, <2>2, <3>1
  <2> QED BY <2>1, <2>2
<1>6. /\ r \in (k + 1)..(n + 1) /\ \A j \in (k + 1)..(r - 1) : text[j] = NewLine
      /\ (IF rest # <<>> /\ rest[1] = NewLine THEN Tail(rest) ELSE rest) = SubSeq(text, r, n)
  <2>1. CASE k < n /\ text[k + 1] = NewLine
    <3>1. rest # <<>> /\ rest[1] = NewLine
      <4>1. Len(rest) > 0 /\ 1 \in 1..(n - k)
        <5> HIDE DEF rest
        <5> QED BY <1>1, <1>3, <2>1
      <4> HIDE DEF rest
      <4> QED BY <1>3, <2>1, <4>1
    <3>2. Tail(rest) = SubSeq(text, k + 2, n) BY <1>1, <2>1
    <3>3. r = k + 2 BY <2>1
    <3> HIDE DEF rest, r
    <3> QED BY <1>1, <2>1, <3>1, <3>2, <3>3
  <2>2. CASE ~(k < n /\ text[k + 1] = NewLine)
    <3>1. ~(rest # <<>> /\ rest[1] = NewLine)
      <4>1. ASSUME rest # <<>> PROVE k < n /\ rest[1] = text[k + 1]
        <5>1. Len(rest) > 0 BY <4>1, <1>3
        <5> HIDE DEF rest
        <5> QED BY <1>1, <1>3, <5>1
      <4> QED BY <2>2, <4>1
    <3>2. r = k + 1 BY <2>2
    <3> HIDE DEF r
    <3> QED BY <1>1, <3>1, <3>2
  <2> QED BY <2>1, <2>2
<1>7. without_block(text, m, sep) = SubSeq(text, 1, l) \o SubSeq(text, r, n)
  BY <1>4, <1>5, <1>6, Zenon
<1>8. \A j \in (l + 1)..(r - 1) : j # k => text[j] = NewLine
  <2>1. ASSUME NEW j \in (l + 1)..(r - 1), j # k
        PROVE  j \in (l + 1)..(k - 1) \/ j \in (k + 1)..(r - 1)
    <3> HIDE DEF l, r
    <3> QED BY <1>1, <1>5, <1>6, <2>1
  <2> HIDE DEF l, r
  <2> QED BY <1>5, <1>6, <2>1
<1>9. l = LastBefore(text, m, sep) /\ r = FirstAfter(text, m)
  BY DEF LastBefore, FirstAfter, k
<1> HIDE DEF l, r
<1> QED BY <1>5, <1>6, <1>7, <1>8, <1>9 DEF k

\* A block taken out.
LEMMA TakenOut ==
  ASSUME NEW text \in Seq(Tokens), Single(text), NEW m, find(text, m) # None, NEW sep \in 0..2
  PROVE  LET next == without_block(text, m, sep)
         IN  /\ next \in Seq(Tokens)
             /\ Single(next) /\ BlocksIn(next) = Apart(text, m)
             /\ Lines(next) = Lines(text)
<1> DEFINE k == Position(text, m)
           next == without_block(text, m, sep)
           n == Len(text)
<1>1. PICK l \in 0..(k - 1), r \in (k + 1)..(n + 1) :
        /\ next = SubSeq(text, 1, l) \o SubSeq(text, r, n)
        /\ \A j \in (l + 1)..(r - 1) : j # k => text[j] = NewLine
  BY CutWhere
<1>2. /\ k \in 1..n /\ n \in Nat /\ DOMAIN text = 1..n
      /\ IsBlock(text[k]) /\ text[k].marker = m
  <2>1. k \in 1..n /\ IsBlock(text[k]) /\ text[k] = Block(m, find(text, m)) BY Finds
  <2>2. n \in Nat /\ DOMAIN text = 1..n OBVIOUS
  <2> QED BY <2>1, <2>2 DEF Block
<1> HIDE DEF k, next, n
<1>3. l \in 0..n /\ r \in (l + 1)..(n + 1) /\ l \in Nat /\ r \in Nat /\ l < k /\ k < r
  BY <1>1, <1>2
<1>4. /\ next \in Seq(Tokens) /\ Len(next) = l + (n + 1 - r)
      /\ \A j \in 1..l : next[j] = text[j]
      /\ \A j \in r..n : next[j - r + l + 1] = text[j]
      /\ \A j \in (l + 1)..(l + (n + 1 - r)) : next[j] = text[j - l - 1 + r]
  BY <1>1, <1>3, CutOut DEF n
<1>5. DOMAIN next = 1..(l + (n + 1 - r))
  <2>1. DOMAIN next = 1..Len(next) BY <1>4
  <2> QED BY <1>4, <2>1
<1>6. ~IsBlock(NewLine) /\ ~IsText(NewLine) BY TokenKinds DEF Tokens
\* Every token left was there, and they keep their order.
<1> DEFINE Old(j) == IF j <= l THEN j ELSE j - l - 1 + r
<1>7. ASSUME NEW j \in DOMAIN next
      PROVE  Old(j) \in 1..n /\ Old(j) # k /\ next[j] = text[Old(j)]
  <2>1. CASE j <= l
    <3>1. j \in 1..l /\ j # k /\ j \in 1..n BY <1>2, <1>3, <1>5, <2>1
    <3> QED BY <1>4, <2>1, <3>1
  <2>2. CASE ~(j <= l)
    <3>1. /\ j \in (l + 1)..(l + (n + 1 - r)) /\ j - l - 1 + r \in 1..n /\ j - l - 1 + r # k
      BY <1>2, <1>3, <1>5, <2>2
    <3> QED BY <1>4, <2>2, <3>1
  <2> QED BY <2>1, <2>2
<1>8. Single(next) BY <1>1, <1>3, CutSingle DEF n
<1> HIDE DEF Old
<1>10. BlocksIn(next) = Apart(text, m)
  <2>1. ASSUME NEW b \in BlocksIn(next) PROVE b \in Apart(text, m)
    <3>1. PICK j \in DOMAIN next : b = next[j] /\ IsBlock(next[j]) BY DEF BlocksIn, ToSet
    <3>2. Old(j) \in 1..n /\ Old(j) # k /\ b = text[Old(j)] /\ IsBlock(text[Old(j)])
      BY <1>7, <3>1
    <3>3. text[Old(j)].marker # m BY <1>2, <3>2 DEF Single
    <3> QED BY <1>2, <3>2, <3>3 DEF Apart, BlocksIn, ToSet
  <2>2. ASSUME NEW b \in Apart(text, m) PROVE b \in BlocksIn(next)
    <3>1. PICK j \in 1..n : b = text[j] /\ IsBlock(text[j]) /\ text[j].marker # m
      BY <1>2 DEF Apart, BlocksIn, ToSet
    <3>2. j # k BY <1>2, <3>1
    <3>3. j \in 1..l \/ j \in r..n
      <4>1. j \notin (l + 1)..(r - 1) BY <1>1, <1>6, <3>1, <3>2
      <4> QED BY <1>2, <1>3, <4>1
    <3>4. CASE j \in 1..l
      <4>1. j \in DOMAIN next /\ next[j] = text[j] BY <1>2, <1>3, <1>4, <1>5, <3>4
      <4> QED BY <3>1, <4>1 DEF BlocksIn, ToSet
    <3>5. CASE j \in r..n
      <4>1. j - r + l + 1 \in DOMAIN next /\ next[j - r + l + 1] = text[j]
        BY <1>2, <1>3, <1>4, <1>5, <3>5
      <4> QED BY <3>1, <4>1 DEF BlocksIn, ToSet
    <3> QED BY <3>3, <3>4, <3>5
  <2> QED BY <2>1, <2>2
<1>11. Lines(next) = Lines(text)
  <2> DEFINE a == SubSeq(text, 1, l)
             x == SubSeq(text, l + 1, r - 1)
             c == SubSeq(text, r, n)
  <2>1. a \in Seq(Tokens) /\ c \in Seq(Tokens) BY <1>2, <1>3 DEF n
  <2>2. x \in Seq(Tokens) /\ Len(x) = r - 1 - l /\ \A j \in 1..(r - 1 - l) : x[j] = text[l + j]
    <3>1. l + 1 \in 1..n /\ r - 1 \in 1..n /\ l + 1 <= r - 1 BY <1>2, <1>3
    <3>2. \A j \in 1..(r - 1 - l) : l + 1 + j - 1 = l + j /\ l + j \in 1..n BY <1>2, <1>3
    <3>3. /\ x \in Seq(Tokens) /\ Len(x) = r - 1 - (l + 1) + 1
          /\ \A j \in 1..(r - 1 - (l + 1) + 1) : x[j] = text[l + 1 + j - 1]
      BY <3>1 DEF n
    <3>4. r - 1 - (l + 1) + 1 = r - 1 - l BY <1>3
    <3> HIDE DEF x
    <3> QED BY <3>2, <3>3, <3>4
  <2>3. ASSUME NEW j \in 1..Len(x) PROVE ~IsText(x[j])
    <3>1. l + j \in (l + 1)..(r - 1) /\ l + j \in 1..n /\ x[j] = text[l + j]
      <4>1. j \in 1..(r - 1 - l) BY <2>2
      <4>2. l + j \in (l + 1)..(r - 1) /\ l + j \in 1..n BY <1>2, <1>3, <4>1
      <4> QED BY <2>2, <4>1, <4>2
    <3>2. CASE l + j = k
      <4>1. text[k] \in Tokens BY <1>2 DEF n
      <4> QED BY <1>2, <3>1, <3>2, <4>1, TokenKinds
    <3>3. CASE l + j # k BY <1>1, <1>6, <3>1, <3>3
    <3> QED BY <3>2, <3>3
  <2>4. text = a \o (x \o c)
    <3>1. x \o c = SubSeq(text, l + 1, n)
      <4>1. SubSeq(text, l + 1, r - 1) \o SubSeq(text, r - 1 + 1, n) = SubSeq(text, l + 1, n)
        <5>1. l + 1 \in 1..(Len(text) + 1) /\ r - 1 \in (l + 1 - 1)..Len(text) /\ n \in (r - 1)..Len(text)
          BY <1>2, <1>3 DEF n
        <5> QED BY <5>1, ConcatAdjacentSubSeq
      <4>2. r - 1 + 1 = r BY <1>3
      <4> QED BY <4>1, <4>2
    <3>2. SubSeq(text, 1, l) \o SubSeq(text, l + 1, n) = SubSeq(text, 1, n)
      <4>1. 1 \in 1..(Len(text) + 1) /\ l \in (1 - 1)..Len(text) /\ n \in l..Len(text)
        BY <1>2, <1>3 DEF n
      <4> QED BY <4>1, ConcatAdjacentSubSeq
    <3>3. SubSeq(text, 1, n) = text BY SubSeqFull DEF n
    <3> QED BY <3>1, <3>2, <3>3
  <2> HIDE DEF a, x, c
  <2>5. Lines(a \o (x \o c)) = Lines(a \o c) BY <2>1, <2>2, <2>3, LinesAround
  <2>6. next = a \o c BY <1>1 DEF a, c
  <2> QED BY <2>4, <2>5, <2>6
<1> QED BY <1>4, <1>8, <1>10, <1>11 DEF next

\* What was appended goes without a trace.
LEMMA AppendedTakenOut ==
  ASSUME NEW text \in Seq(Tokens), Single(text), NEW m \in Installations \cup {"product"},
         NEW c \in Contents \cup {Edited, Damaged}, find(text, m) = None
  PROVE  without_block(with_block(text, m, c), m, separator_for(text)) = text
<1> DEFINE s == separator_for(text)
           next == with_block(text, m, c)
           n == Len(text)
           k == n + s + 1
           before == SubSeq(next, 1, k - 1)
<1>1. s \in 0..2 /\ s \in Nat /\ n \in Nat BY Separators
<1>2. /\ next \in Seq(Tokens) /\ Len(next) = n + s + 2
      /\ \A j \in 1..n : next[j] = text[j]
      /\ \A j \in 1..s : next[n + j] = NewLine
      /\ next[n + s + 2] = NewLine
  BY Appended
<1>3. Single(next) /\ Position(next, m) = k /\ find(next, m) # None
  <2>1. Single(next) /\ Position(next, m) = k /\ BlocksIn(next) = Apart(text, m) \cup {Block(m, c)}
    BY Appended
  <2>2. Block(m, c).marker = m /\ Block(m, c).text = c /\ c # None BY BlockToken
  <2>3. find(next, m) = c BY <1>2, <2>1, <2>2, Finds
  <2> QED BY <2>1, <2>2, <2>3
<1> HIDE DEF next, n
<1> DEFINE l == LastBefore(next, m, s)
           r == FirstAfter(next, m)
<1>4. /\ without_block(next, m, s) = SubSeq(next, 1, l) \o SubSeq(next, r, Len(next))
      /\ l = IF SeparatorStands(before, s) THEN k - 1 - s ELSE k - 1
      /\ r = IF k < Len(next) /\ next[k + 1] = NewLine THEN k + 2 ELSE k + 1
  <2> HIDE DEF s
  <2>1. without_block(next, m, s) = SubSeq(next, 1, l) \o SubSeq(next, r, Len(next))
    BY <1>1, <1>2, <1>3, CutWhere
  <2>2. Position(next, m) = k BY <1>3
  <2> HIDE DEF k
  <2> QED BY <2>1, <2>2 DEF LastBefore, FirstAfter, before
<1> HIDE DEF l, r
<1>5. /\ before \in Seq(Tokens) /\ Len(before) = n + s
      /\ \A j \in 1..(n + s) : before[j] = next[j]
  <2> HIDE DEF s
  <2>1. k - 1 = n + s /\ n + s \in Nat /\ n + s <= Len(next) BY <1>1, <1>2
  <2> QED BY <1>2, <2>1
<1>6. \A j \in (n + 1)..(n + s) : before[j] = NewLine
  <2> SUFFICES ASSUME NEW j \in (n + 1)..(n + s) PROVE before[j] = NewLine OBVIOUS
  <2> HIDE DEF s, before
  <2>1. j - n \in 1..s /\ n + (j - n) = j /\ j \in 1..(n + s) BY <1>1
  <2> QED BY <1>2, <1>5, <2>1
<1>7. IsSuffix(Breaks(s), before)
  <2> HIDE DEF s, before
  <2>1. s <= Len(before) /\ Len(before) - s + 1 = n + 1 BY <1>1, <1>5
  <2> QED BY <1>1, <1>5, <1>6, <2>1, EndsIn
<1>8. BlankAtEnd(before) \/ Len(before) = s
  <2>1. CASE s = 0
    <3>1. text = <<>> \/ BlankAtEnd(text) BY <2>1, Separators
    <3>2. text = <<>> => Len(before) = s
      <4>1. text = <<>> => n = 0 BY DEF n
      <4> HIDE DEF s, before
      <4> QED BY <1>1, <1>5, <4>1
    <3>3. before = text
      <4>1. \A j \in 1..n : before[j] = text[j]
        <5> HIDE DEF s, before
        <5> QED BY <1>1, <1>2, <1>5, <2>1
      <4>2. Len(before) = n
        <5> HIDE DEF s, before
        <5> QED BY <1>1, <1>5, <2>1
      <4> HIDE DEF s, before
      <4> QED BY <1>5, <4>1, <4>2, SeqEqual DEF n
    <3> QED BY <3>1, <3>2, <3>3
  <2>2. CASE s # 0
    <3>1. s = 1 => n >= 1 /\ text[n] = NewLine
      <4>1. s = 1 => text # <<>> /\ text[Len(text)] = NewLine BY Separators
      <4>2. text # <<>> => n >= 1 BY DEF n
      <4> QED BY <4>1, <4>2 DEF n
    <3>2. s = 1 => before[n] = NewLine
      <4> HIDE DEF s, before
      <4>1. s = 1 => n \in 1..(n + s) /\ n \in 1..n BY <1>1, <3>1
      <4> QED BY <1>2, <1>5, <3>1, <4>1
    <3>3. 2 <= Len(before) /\ \A j \in (Len(before) - 2 + 1)..Len(before) : before[j] = NewLine
      <4> HIDE DEF s, before
      <4>1. s = 1 \/ s = 2 BY <1>1, <2>2
      <4>2. 2 <= Len(before) BY <1>1, <1>5, <3>1, <4>1
      <4>3. ASSUME NEW j \in (Len(before) - 2 + 1)..Len(before) PROVE before[j] = NewLine
        <5>1. CASE s = 1
          <6>1. j = n \/ j = n + 1 BY <1>1, <1>5, <5>1
          <6>2. n + 1 \in (n + 1)..(n + s) BY <1>1, <5>1
          <6> QED BY <1>6, <3>2, <5>1, <6>1, <6>2
        <5>2. CASE s = 2
          <6>1. j \in (n + 1)..(n + s) BY <1>1, <1>5, <5>2
          <6> QED BY <1>6, <6>1
        <5> QED BY <4>1, <5>1, <5>2
      <4> QED BY <4>2, <4>3
    <3> HIDE DEF s, before
    <3> QED BY <1>5, <3>3, EndsIn DEF BlankAtEnd
  <2> QED BY <2>1, <2>2
<1>9. l = n /\ r = Len(next) + 1
  <2>1. SeparatorStands(before, s) BY <1>7, <1>8 DEF SeparatorStands
  <2> HIDE DEF s, before
  <2>2. k < Len(next) /\ k + 1 = n + s + 2 BY <1>1, <1>2
  <2> QED BY <1>1, <1>2, <1>4, <2>1, <2>2
<1>10. SubSeq(next, 1, l) \o SubSeq(next, r, Len(next)) = text
  <2>1. SubSeq(next, 1, n) = text
    <3>1. n <= Len(next)
      <4> HIDE DEF s
      <4> QED BY <1>1, <1>2
    <3>2. /\ SubSeq(next, 1, n) \in Seq(Tokens) /\ Len(SubSeq(next, 1, n)) = n
          /\ \A j \in 1..n : SubSeq(next, 1, n)[j] = next[j]
      BY <1>1, <1>2, <3>1
    <3> QED BY <1>2, <3>2, SeqEqual DEF n
  <2>2. SubSeq(next, Len(next) + 1, Len(next)) = <<>> BY <1>2
  <2> QED BY <1>9, <2>1, <2>2, ConcatEmptySeq
<1> QED BY <1>4, <1>10 DEF next

\* Of two puts the second counts.
LEMMA PutTwice ==
  ASSUME NEW text \in Seq(Tokens), Single(text), NEW m \in Installations \cup {"product"},
         NEW c \in Contents \cup {Edited, Damaged}, NEW d \in Contents \cup {Edited, Damaged}
  PROVE  /\ with_block(with_block(text, m, c), m, d) = with_block(text, m, d)
         /\ find(text, m) = d => with_block(text, m, d) = text
         /\ with_block(text, m, c) \in Seq(Tokens) /\ Single(with_block(text, m, c))
         /\ find(with_block(text, m, c), m) = c /\ with_block(text, m, c) # <<>>
<1> DEFINE next == with_block(text, m, c)
           last == with_block(text, m, d)
<1>1. Block(m, c).marker = m /\ Block(m, c).text = c /\ c # None /\ d # None BY BlockToken
<1>2. /\ next \in Seq(Tokens) /\ Single(next)
      /\ BlocksIn(next) = Apart(text, m) \cup {Block(m, c)}
  BY PutOver, Appended
<1>3. find(next, m) = c BY <1>1, <1>2, Finds
<1>4. with_block(next, m, d) = [next EXCEPT ![Position(next, m)] = Block(m, d)]
  BY <1>1, <1>2, <1>3, PutOver
<1>5. ASSUME find(text, m) # None
      PROVE  with_block(next, m, d) = last /\ (find(text, m) = d => last = text)
  <2> DEFINE k == Position(text, m)
  <2>1. next = [text EXCEPT ![k] = Block(m, c)] /\ Position(next, m) = k BY <1>5, PutOver
  <2>2. last = [text EXCEPT ![k] = Block(m, d)] BY <1>5, PutOver
  <2>3. k \in 1..Len(text) /\ text[k] = Block(m, find(text, m)) BY <1>5, Finds
  <2> HIDE DEF k, next, last
  <2>4. with_block(next, m, d) = last
    <3>1. [next EXCEPT ![k] = Block(m, d)] = [text EXCEPT ![k] = Block(m, d)] BY <2>1, <2>3
    <3> QED BY <1>4, <2>1, <2>2, <3>1
  <2>5. find(text, m) = d => last = text BY <2>2, <2>3
  <2> QED BY <2>4, <2>5
<1>6. ASSUME find(text, m) = None
      PROVE  with_block(next, m, d) = last /\ (find(text, m) = d => last = text)
  <2> DEFINE s == separator_for(text)
             n == Len(text)
  <2>1. /\ Len(next) = n + s + 2
        /\ \A j \in 1..n : next[j] = text[j]
        /\ \A j \in 1..s : next[n + j] = NewLine
        /\ next[n + s + 1] = Block(m, c) /\ next[n + s + 2] = NewLine
        /\ Position(next, m) = n + s + 1
    BY <1>6, Appended
  <2>2. /\ last \in Seq(Tokens) /\ Len(last) = n + s + 2
        /\ \A j \in 1..n : last[j] = text[j]
        /\ \A j \in 1..s : last[n + j] = NewLine
        /\ last[n + s + 1] = Block(m, d) /\ last[n + s + 2] = NewLine
    BY <1>6, Appended
  <2>3. s \in Nat /\ n \in Nat /\ Block(m, d) \in Tokens
    <3>1. separator_for(text) \in 0..2 BY Separators
    <3>2. Block(m, d) \in Tokens BY BlockToken
    <3> QED BY <3>1, <3>2
  <2> HIDE DEF s, n, next, last
  <2> DEFINE over == [next EXCEPT ![n + s + 1] = Block(m, d)]
  <2>4. /\ over \in Seq(Tokens) /\ Len(over) = n + s + 2
        /\ over[n + s + 1] = Block(m, d)
        /\ \A j \in 1..(n + s + 2) : j # n + s + 1 => over[j] = next[j]
    BY <1>2, <2>1, <2>3
  <2>5. ASSUME NEW j \in 1..(n + s + 2) PROVE over[j] = last[j]
    <3> HIDE DEF over
    <3>1. j \in 1..n \/ j = n + s + 1 \/ j = n + s + 2 \/ (j - n \in 1..s /\ n + (j - n) = j)
      BY <2>3
    <3>2. j \in 1..n => j # n + s + 1 BY <2>3
    <3>3. j - n \in 1..s => j # n + s + 1 BY <2>3
    <3>4. n + s + 2 # n + s + 1 BY <2>3
    <3>5. CASE j \in 1..n BY <2>1, <2>2, <2>4, <3>2, <3>5
    <3>6. CASE j - n \in 1..s /\ n + (j - n) = j
      <4>1. next[n + (j - n)] = NewLine /\ last[n + (j - n)] = NewLine BY <2>1, <2>2, <3>6
      <4> QED BY <2>4, <3>3, <3>6, <4>1
    <3>7. CASE j = n + s + 2 BY <2>1, <2>2, <2>4, <3>4, <3>7
    <3>8. CASE j = n + s + 1 BY <2>2, <2>4, <3>8
    <3> QED BY <3>1, <3>5, <3>6, <3>7, <3>8
  <2>6. over = last
    <3> HIDE DEF over
    <3> QED BY <2>2, <2>4, <2>5, SeqEqual
  <2>7. with_block(next, m, d) = last BY <1>4, <2>1, <2>6
  <2> QED BY <1>1, <1>6, <2>7
<1>7. next # <<>>
  <2>1. Block(m, c) \in BlocksIn(next) BY <1>2
  <2> HIDE DEF next
  <2> QED BY <2>1 DEF BlocksIn, ToSet
<1> QED BY <1>2, <1>3, <1>5, <1>6, <1>7

(***************************************************************************)
(* Lines that are their own: what keeps two lines of a profile apart.      *)
(***************************************************************************)

\* A text that does not end inside a line, and one whose lines are apart too.
Finished(text) == text = <<>> \/ text[Len(text)] = NewLine
Tidy(text)     == Separate(text) /\ Finished(text)

\* Where two tokens meet, one of them is a break.
LEMMA Neighbours ==
  ASSUME NEW text \in Seq(Tokens), Separate(text), NEW k \in 1..Len(text), text[k] # NewLine
  PROVE  /\ k = 1 \/ text[k - 1] = NewLine
         /\ k = Len(text) \/ text[k + 1] = NewLine
<1>1. k # 1 => k \in 2..Len(text) OBVIOUS
<1>2. k # Len(text) => k + 1 \in 2..Len(text) /\ (k + 1) - 1 = k OBVIOUS
<1> QED BY <1>1, <1>2 DEF Separate

\* A block put over the one there leaves the lines apart.
LEMMA PutOverTidy ==
  ASSUME NEW text \in Seq(Tokens), Tidy(text), NEW k \in 1..Len(text), text[k] # NewLine,
         NEW t \in Tokens
  PROVE  Tidy([text EXCEPT ![k] = t])
<1> DEFINE next == [text EXCEPT ![k] = t]
<1>1. /\ Len(text) \in Nat /\ Separate(text) /\ next \in Seq(Tokens)
      /\ Len(next) = Len(text) /\ \A j \in 1..Len(text) : j # k => next[j] = text[j]
  BY DEF Tidy
<1>2. k # Len(text) BY DEF Tidy, Finished
<1>3. (k = 1 \/ text[k - 1] = NewLine) /\ text[k + 1] = NewLine BY <1>1, <1>2, Neighbours
<1> HIDE DEF next
<1>4. ASSUME NEW j \in 2..Len(next) PROVE NewLine \in {next[j], next[j - 1]}
  <2>1. j \in 2..Len(text) /\ j \in 1..Len(text) /\ j - 1 \in 1..Len(text) BY <1>1
  <2>2. CASE j = k BY <1>1, <1>3, <2>1, <2>2
  <2>3. CASE j - 1 = k
    <3>1. j = k + 1 /\ j # k BY <2>3
    <3> QED BY <1>1, <1>3, <2>1, <3>1
  <2>4. CASE j # k /\ j - 1 # k BY <1>1, <2>1, <2>4 DEF Separate
  <2> QED BY <2>2, <2>3, <2>4
<1>5. next[Len(next)] = NewLine
  <2>1. text[Len(text)] = NewLine /\ Len(text) \in 1..Len(text) BY DEF Tidy, Finished
  <2> QED BY <1>1, <1>2, <2>1
<1> QED BY <1>4, <1>5 DEF Tidy, Separate, Finished, next

\* What is appended to a text that ends its last line is apart from it.
LEMMA AppendTidy ==
  ASSUME NEW text \in Seq(Tokens), Tidy(text), NEW s \in Nat, NEW t \in Tokens,
         NEW next \in Seq(Tokens), Len(next) = Len(text) + s + 2,
         \A j \in 1..Len(text) : next[j] = text[j],
         \A j \in 1..s : next[Len(text) + j] = NewLine,
         next[Len(text) + s + 2] = NewLine
  PROVE  Tidy(next)
<1> DEFINE n == Len(text)
<1>1. n \in Nat /\ Separate(text) /\ (n > 0 => text[n] = NewLine) BY DEF Tidy, Finished
<1> HIDE DEF n
<1>2. ASSUME NEW j \in 2..Len(next) PROVE NewLine \in {next[j], next[j - 1]}
  <2>1. CASE j <= n
    <3>1. j \in 2..n /\ j \in 1..n /\ j - 1 \in 1..n BY <1>1, <2>1 DEF n
    <3> QED BY <1>1, <3>1 DEF Separate, n
  <2>2. CASE j = n + 1
    <3>1. n \in 1..n /\ j - 1 = n BY <1>1, <2>2
    <3> QED BY <1>1, <3>1 DEF n
  <2>3. CASE n + 1 < j /\ j <= n + s + 1
    <3>1. j - 1 - n \in 1..s /\ n + (j - 1 - n) = j - 1 BY <1>1, <2>3
    <3> QED BY <3>1 DEF n
  <2>4. CASE j = n + s + 2 BY <2>4 DEF n
  <2>5. j <= n \/ j = n + 1 \/ (n + 1 < j /\ j <= n + s + 1) \/ j = n + s + 2 BY <1>1 DEF n
  <2> QED BY <2>1, <2>2, <2>3, <2>4, <2>5
<1> QED BY <1>2 DEF Tidy, Separate, Finished

\* What is cut out after a break, or from the start, joins no lines.
LEMMA CutTidy ==
  ASSUME NEW text \in Seq(Tokens), Tidy(text),
         NEW l \in 0..Len(text), NEW r \in (l + 1)..(Len(text) + 1), l = 0 \/ text[l] = NewLine
  PROVE  Tidy(SubSeq(text, 1, l) \o SubSeq(text, r, Len(text)))
<1> DEFINE n == Len(text)
           next == SubSeq(text, 1, l) \o SubSeq(text, r, n)
<1>1. n \in Nat /\ Separate(text) /\ (n > 0 => text[n] = NewLine) BY DEF Tidy, Finished
<1>2. /\ next \in Seq(Tokens) /\ Len(next) = l + (n + 1 - r)
      /\ \A j \in 1..l : next[j] = text[j]
      /\ \A j \in (l + 1)..(l + (n + 1 - r)) : next[j] = text[j - l - 1 + r]
  BY CutOut
<1>3. l \in Nat /\ r \in Nat /\ l < r /\ r <= n + 1 /\ l <= n OBVIOUS
<1> HIDE DEF n, next
<1>4. ASSUME NEW j \in 2..Len(next) PROVE NewLine \in {next[j], next[j - 1]}
  <2>1. CASE j <= l
    <3>1. j \in 2..n /\ j \in 1..l /\ j - 1 \in 1..l BY <1>1, <1>3, <2>1
    <3> QED BY <1>1, <1>2, <3>1 DEF Separate, n
  <2>2. CASE j = l + 1
    <3>1. l \in 1..l /\ j - 1 = l /\ l # 0 BY <1>3, <2>2
    <3> QED BY <1>2, <3>1
  <2>3. CASE j > l + 1
    <3>1. /\ j \in (l + 1)..(l + (n + 1 - r)) /\ j - 1 \in (l + 1)..(l + (n + 1 - r))
          /\ j - l - 1 + r \in 2..n /\ (j - l - 1 + r) - 1 = (j - 1) - l - 1 + r
      BY <1>1, <1>2, <1>3, <2>3
    <3> QED BY <1>1, <1>2, <3>1 DEF Separate, n
  <2>4. j <= l \/ j = l + 1 \/ j > l + 1 BY <1>3
  <2> QED BY <2>1, <2>2, <2>3, <2>4
<1>5. next = <<>> \/ next[Len(next)] = NewLine
  <2>1. CASE r <= n
    <3>1. /\ Len(next) \in (l + 1)..(l + (n + 1 - r)) /\ Len(next) - l - 1 + r = n
          /\ n > 0
      BY <1>1, <1>2, <1>3, <2>1
    <3> QED BY <1>1, <1>2, <3>1
  <2>2. CASE r = n + 1 /\ l = 0 BY <1>1, <1>2, <2>2
  <2>3. CASE r = n + 1 /\ l # 0
    <3>1. Len(next) = l /\ l \in 1..l BY <1>1, <1>2, <1>3, <2>3
    <3> QED BY <1>2, <2>3, <3>1
  <2>4. r <= n \/ r = n + 1 BY <1>1, <1>3
  <2> QED BY <2>1, <2>2, <2>3, <2>4
<1> QED BY <1>4, <1>5 DEF Tidy, Separate, Finished, next, n

\* A block comes between the lines.
LEMMA PutTidy ==
  ASSUME NEW text \in Seq(Tokens), Single(text), Tidy(text),
         NEW m \in Installations \cup {"product"}, NEW c \in Contents \cup {Edited, Damaged}
  PROVE  Tidy(with_block(text, m, c))
<1>1. CASE find(text, m) # None
  <2>1. Position(text, m) \in 1..Len(text) /\ IsBlock(text[Position(text, m)])
    BY <1>1, Finds
  <2>2. text[Position(text, m)] # NewLine BY <2>1 DEF IsBlock
  <2>3. Block(m, c) \in Tokens BY BlockToken
  <2>4. with_block(text, m, c) = [text EXCEPT ![Position(text, m)] = Block(m, c)]
    BY <1>1, PutOver
  <2> QED BY <2>1, <2>2, <2>3, <2>4, PutOverTidy
<1>2. CASE find(text, m) = None
  <2> DEFINE next == with_block(text, m, c)
             s == separator_for(text)
  <2>1. /\ next \in Seq(Tokens) /\ Len(next) = Len(text) + s + 2
        /\ \A j \in 1..Len(text) : next[j] = text[j]
        /\ \A j \in 1..s : next[Len(text) + j] = NewLine
        /\ next[Len(text) + s + 2] = NewLine
    BY <1>2, Appended
  <2>2. s \in Nat
    <3>1. s \in 0..2 BY Separators
    <3> QED BY <3>1
  <2>3. Block(m, c) \in Tokens BY BlockToken
  <2> HIDE DEF next, s
  <2>4. Tidy(next) BY <2>1, <2>2, <2>3, AppendTidy
  <2> QED BY <2>4 DEF next
<1> QED BY <1>1, <1>2

\* It goes without joining any, but for a separator that ended a line.
LEMMA TakenOutTidy ==
  ASSUME NEW text \in Seq(Tokens), Single(text), Tidy(text), NEW m, find(text, m) # None,
         NEW sep \in 0..1
  PROVE  Tidy(without_block(text, m, sep))
<1> DEFINE k == Position(text, m)
           l == LastBefore(text, m, sep)
           r == FirstAfter(text, m)
           before == SubSeq(text, 1, k - 1)
<1>1. k \in 1..Len(text) /\ Len(text) \in Nat /\ text[k] # NewLine /\ Separate(text) /\ sep \in 0..2
  <2>1. k \in 1..Len(text) /\ IsBlock(text[k]) BY Finds
  <2> QED BY <2>1 DEF IsBlock, Tidy
<1>2. /\ without_block(text, m, sep) = SubSeq(text, 1, l) \o SubSeq(text, r, Len(text))
      /\ l \in 0..(k - 1) /\ r \in (k + 1)..(Len(text) + 1)
  BY <1>1, CutWhere
<1>3. l = IF SeparatorStands(before, sep) THEN k - 1 - sep ELSE k - 1 BY DEF LastBefore
<1>4. k = 1 \/ text[k - 1] = NewLine BY <1>1, Neighbours
<1>5. before \in Seq(Tokens) /\ Len(before) = k - 1 /\ \A j \in 1..(k - 1) : before[j] = text[j]
  BY <1>1
<1> HIDE DEF k, l, r, before
<1>6. l = 0 \/ text[l] = NewLine
  <2>1. CASE l = k - 1 BY <1>1, <1>4, <2>1
  <2>2. CASE l # k - 1
    <3>1. sep = 1 /\ l = k - 2 /\ SeparatorStands(before, sep) BY <1>1, <1>3, <2>2
    <3>2. CASE Len(before) = sep
      <4>1. Len(before) = k - 1 /\ sep = 1 /\ l = k - 2 BY <1>5, <3>1
      <4>2. k \in Nat BY <1>1
      <4>3. k - 1 = 1 BY <3>2, <4>1, Zenon
      <4>4. k = 2 BY <4>2, <4>3
      <4> QED BY <4>1, <4>4
    <3>3. CASE BlankAtEnd(before)
      <4>1. 2 <= Len(before) /\ \A j \in (Len(before) - 2 + 1)..Len(before) : before[j] = NewLine
        BY <1>5, <3>3, EndsIn DEF BlankAtEnd
      <4>2. l \in (Len(before) - 2 + 1)..Len(before) /\ l \in 1..(k - 1)
        BY <1>1, <1>5, <3>1, <4>1
      <4> QED BY <1>5, <4>1, <4>2
    <3> QED BY <3>1, <3>2, <3>3 DEF SeparatorStands
  <2> QED BY <2>1, <2>2
<1>7. l \in 0..Len(text) /\ r \in (l + 1)..(Len(text) + 1) BY <1>1, <1>2
<1> QED BY <1>2, <1>6, <1>7, CutTidy

(***************************************************************************)
(* A profile on disk: what adding a block and removing one make of it.      *)
(***************************************************************************)

\* A profile that may be there: each product's block at most once, what is
\* not there locks nothing, and what is there is in a directory.
WellFormed(p) ==
  /\ p \in Profiles /\ Single(TextOf(p))
  /\ p.file = None => p.access = "free"
  /\ p.file # None => p.dir

With(p, m, c) == [p EXCEPT !.dir = TRUE, !.file = with_block(TextOf(p), m, c)]

Without(p, m, sep, deleteFile, deleteDir) ==
  IF deleteFile /\ without_block(TextOf(p), m, sep) = <<>>
  THEN [dir |-> ~deleteDir, file |-> None, access |-> "free"]
  ELSE [p EXCEPT !.file = without_block(TextOf(p), m, sep)]

LEMMA ProfileParts ==
  ASSUME NEW p, WellFormed(p)
  PROVE  /\ p = [dir |-> p.dir, file |-> p.file, access |-> p.access]
         /\ p.dir \in BOOLEAN /\ p.access \in {"free", "readonly", "locked"}
         /\ TextOf(p) \in Seq(Tokens) /\ Single(TextOf(p))
         /\ p.file # None => p.file = TextOf(p) /\ p.dir
         /\ p.file = None => TextOf(p) = <<>> /\ p.access = "free"
         /\ None \notin Seq(Tokens)
  BY ResourcesAssumption DEF WellFormed, Profiles, TextOf

LEMMA Fields ==
  ASSUME NEW p, p = [dir |-> p.dir, file |-> p.file, access |-> p.access], NEW x
  PROVE  [p EXCEPT !.file = x] = [dir |-> p.dir, file |-> x, access |-> p.access]
<1>1. ASSUME NEW d, NEW f, NEW a
      PROVE  [[dir |-> d, file |-> f, access |-> a] EXCEPT !.file = x]
               = [dir |-> d, file |-> x, access |-> a]
  OBVIOUS
<1>2. [[dir |-> p.dir, file |-> p.file, access |-> p.access] EXCEPT !.file = x]
        = [dir |-> p.dir, file |-> x, access |-> p.access]
  BY <1>1
<1> QED BY <1>2, Zenon

\* In a text without tokens nothing is found.
LEMMA FindsNothing ==
  ASSUME NEW m
  PROVE  find(<<>>, m) = None
  BY DEF find, Positions

\* What a look finds is a block, a damaged one, or nothing.
LEMMA FoundText ==
  ASSUME NEW text \in Seq(Tokens), Single(text), NEW m
  PROVE  /\ find(text, m) \in Contents \cup {Edited, Damaged, None}
         /\ find(text, m) = Unreadable => find(text, m) = Damaged
         /\ None \notin Contents \cup {Edited, Damaged, Unreadable}
<1>1. find(text, m) \in Contents \cup {Edited, Damaged, None} BY Finds
<1> QED BY <1>1, ResourcesAssumption

LEMMA PutOnce ==
  ASSUME NEW text \in Seq(Tokens), Single(text), NEW m \in Installations \cup {"product"},
         NEW c \in Contents \cup {Edited}
  PROVE  /\ with_block(text, m, c) \in Seq(Tokens) /\ Single(with_block(text, m, c))
         /\ find(with_block(text, m, c), m) = c
<1>1. c \in Contents \cup {Edited, Damaged} OBVIOUS
<1> QED BY <1>1, PutTwice

LEMMA Adding ==
  ASSUME NEW p, WellFormed(p), NEW m, NEW c \in Contents \cup {Edited}
  PROVE  LET o == AddBlock(p, m, c)
             now == find(TextOf(p), m)
         IN  \/ o = Outcome(p, "skipped") /\ (p.access # "free" \/ now = Damaged)
             \/ o = Outcome(p, None) /\ now = c
             \/ o = Outcome(With(p, m, c), None) /\ p.access = "free" /\ now \notin {c, Damaged}
<1> DEFINE now == find(TextOf(p), m)
<1>1. TextOf(p) \in Seq(Tokens) /\ Single(TextOf(p)) /\ p.access \in {"free", "readonly", "locked"}
  BY ProfileParts
<1>2. p.file = None => p.access = "free" BY ProfileParts
<1>3. /\ now \in Contents \cup {Edited, Damaged, None} /\ (now = Unreadable => now = Damaged)
      /\ None \notin Contents \cup {Edited, Damaged, Unreadable}
  BY <1>1, FoundText
<1>4. c # Damaged /\ c # Unreadable BY ResourcesAssumption
<1> HIDE DEF now
<1>5. profile_state(p, m) = IF Locked(p) THEN Unreadable ELSE now BY DEF profile_state, now
<1>6. CASE Locked(p)
  <2>1. AddBlock(p, m, c) = Outcome(p, "skipped") /\ p.access # "free"
    BY <1>4, <1>5, <1>6 DEF AddBlock, Locked
  <2> QED BY <2>1
<1>7. CASE ~Locked(p) /\ now \in {Unreadable, Damaged}
  <2>1. AddBlock(p, m, c) = Outcome(p, "skipped") /\ now = Damaged
    BY <1>3, <1>4, <1>5, <1>7 DEF AddBlock
  <2> QED BY <2>1 DEF now
<1>8. CASE ~Locked(p) /\ now = c
  <2>1. AddBlock(p, m, c) = Outcome(p, None) BY <1>4, <1>5, <1>8 DEF AddBlock
  <2> QED BY <1>8, <2>1 DEF now
<1>9. CASE ~Locked(p) /\ now \notin {Unreadable, Damaged, c} /\ Readonly(p)
  <2>1. AddBlock(p, m, c) = Outcome(p, "skipped") /\ p.access # "free"
    BY <1>5, <1>9 DEF AddBlock, Readonly
  <2> QED BY <2>1
<1>10. CASE ~Locked(p) /\ now \notin {Unreadable, Damaged, c} /\ ~Readonly(p)
  <2>1. AddBlock(p, m, c) = Outcome(With(p, m, c), None) BY <1>5, <1>10 DEF AddBlock, With
  <2>2. p.access = "free" BY <1>1, <1>2, <1>10 DEF Locked, Readonly
  <2> QED BY <1>10, <2>1, <2>2 DEF now
<1> QED BY <1>6, <1>7, <1>8, <1>9, <1>10

LEMMA Removing ==
  ASSUME NEW p, WellFormed(p), NEW m, NEW sep, NEW deleteFile, NEW deleteDir
  PROVE  LET o == RemoveBlock(p, m, sep, deleteFile, deleteDir)
             now == find(TextOf(p), m)
         IN  \/ o = Outcome(p, None) /\ now = None
             \/ o = Outcome(p, "skipped") /\ (p.access # "free" \/ now = Damaged)
             \/ /\ o = Outcome(Without(p, m, sep, deleteFile, deleteDir), None)
                /\ p.access = "free" /\ p.file # None /\ now \notin {None, Damaged}
<1> DEFINE now == find(TextOf(p), m)
<1>1. TextOf(p) \in Seq(Tokens) /\ Single(TextOf(p)) /\ p.access \in {"free", "readonly", "locked"}
  BY ProfileParts
<1>2. p.file = None => p.access = "free" /\ TextOf(p) = <<>> BY ProfileParts
<1>3. /\ now \in Contents \cup {Edited, Damaged, None} /\ (now = Unreadable => now = Damaged)
      /\ None \notin Contents \cup {Edited, Damaged, Unreadable}
  BY <1>1, FoundText
<1>4. p.file = None => now = None BY <1>2, FindsNothing
<1> HIDE DEF now
<1>5. profile_state(p, m) = IF Locked(p) THEN Unreadable ELSE now BY DEF profile_state, now
<1>6. CASE p.file = None
  <2>1. RemoveBlock(p, m, sep, deleteFile, deleteDir) = Outcome(p, None)
    BY <1>6 DEF RemoveBlock
  <2> QED BY <1>4, <1>6, <2>1 DEF now
<1>7. CASE p.file # None /\ Locked(p)
  <2>1. RemoveBlock(p, m, sep, deleteFile, deleteDir) = Outcome(p, "skipped") /\ p.access # "free"
    BY <1>3, <1>5, <1>7 DEF RemoveBlock, Locked
  <2> QED BY <2>1
<1>8. CASE p.file # None /\ ~Locked(p) /\ now = None
  <2>1. RemoveBlock(p, m, sep, deleteFile, deleteDir) = Outcome(p, None)
    BY <1>5, <1>8 DEF RemoveBlock
  <2> QED BY <1>8, <2>1 DEF now
<1>9. CASE p.file # None /\ ~Locked(p) /\ now \in {Unreadable, Damaged}
  <2>1. RemoveBlock(p, m, sep, deleteFile, deleteDir) = Outcome(p, "skipped") /\ now = Damaged
    BY <1>3, <1>5, <1>9 DEF RemoveBlock
  <2> QED BY <2>1 DEF now
<1>10. CASE p.file # None /\ ~Locked(p) /\ now \notin {None, Unreadable, Damaged} /\ Readonly(p)
  <2>1. RemoveBlock(p, m, sep, deleteFile, deleteDir) = Outcome(p, "skipped") /\ p.access # "free"
    BY <1>5, <1>10 DEF RemoveBlock, Readonly
  <2> QED BY <2>1
<1>11. CASE p.file # None /\ ~Locked(p) /\ now \notin {None, Unreadable, Damaged} /\ ~Readonly(p)
  <2>1. RemoveBlock(p, m, sep, deleteFile, deleteDir)
          = Outcome(Without(p, m, sep, deleteFile, deleteDir), None)
    BY <1>5, <1>11 DEF RemoveBlock, Without
  <2>2. p.access = "free" BY <1>1, <1>11 DEF Locked, Readonly
  <2> QED BY <1>11, <2>1, <2>2 DEF now
<1> QED BY <1>6, <1>7, <1>8, <1>9, <1>10, <1>11

\* A profile with a block added.
LEMMA WithBlock ==
  ASSUME NEW p, WellFormed(p), NEW m \in Installations \cup {"product"},
         NEW c \in Contents \cup {Edited}
  PROVE  LET q == With(p, m, c)
         IN  /\ WellFormed(q) /\ TextOf(q) = with_block(TextOf(p), m, c) /\ q.file # None /\ q.dir
             /\ q.access = p.access /\ find(TextOf(q), m) = c
             /\ TextsOf(q) = TextsOf(p)
             /\ BlocksOf(q) = Apart(TextOf(p), m) \cup {Block(m, c)}
             /\ Tidy(TextOf(p)) => Tidy(TextOf(q))
<1> DEFINE q == With(p, m, c)
           text == TextOf(p)
           next == with_block(text, m, c)
<1>1. /\ p = [dir |-> p.dir, file |-> p.file, access |-> p.access]
      /\ p.access \in {"free", "readonly", "locked"} /\ text \in Seq(Tokens) /\ Single(text)
      /\ None \notin Seq(Tokens)
  BY ProfileParts
<1>2. next \in Seq(Tokens) /\ Single(next) /\ find(next, m) = c BY <1>1, PutOnce
<1>3. Lines(next) = Lines(text) /\ BlocksIn(next) = Apart(text, m) \cup {Block(m, c)}
  <2> HIDE DEF text
  <2> QED BY <1>1, PutOver, Appended
<1>4. Tidy(text) => Tidy(next) BY <1>1, PutTidy
<1> HIDE DEF next, text
<1>5. q = [dir |-> TRUE, file |-> next, access |-> p.access]
  <2>1. With(p, m, c) = [p EXCEPT !.dir = TRUE, !.file = next] BY DEF With, next, text
  <2>2. p \in [dir : BOOLEAN, file : Seq(Tokens) \cup {None}, access : {"free", "readonly", "locked"}]
    BY DEF WellFormed, Profiles
  <2> QED BY <2>1, <2>2
<1>6. TextOf(q) = next /\ q.file # None BY <1>1, <1>2, <1>5 DEF TextOf
<1>7. WellFormed(q) BY <1>1, <1>2, <1>5, <1>6 DEF WellFormed, Profiles
<1>8. q.dir /\ q.access = p.access BY <1>5
<1> HIDE DEF q
<1>9. /\ TextsOf(q) = TextsOf(p) /\ BlocksOf(q) = Apart(text, m) \cup {Block(m, c)}
  BY <1>3, <1>6 DEF TextsOf, BlocksOf, text
<1> QED BY <1>2, <1>4, <1>6, <1>7, <1>8, <1>9 DEF next, text, q

\* A profile with a block taken out, which may have been all there was in it.
LEMMA WithoutBlock ==
  ASSUME NEW p, WellFormed(p), NEW m, NEW sep \in 0..2,
         NEW deleteFile \in BOOLEAN, NEW deleteDir \in BOOLEAN,
         find(TextOf(p), m) # None, p.access = "free"
  PROVE  LET q == Without(p, m, sep, deleteFile, deleteDir)
         IN  /\ WellFormed(q) /\ TextOf(q) = without_block(TextOf(p), m, sep)
             /\ q.access = "free" /\ find(TextOf(q), m) = None
             /\ q.file = None => q.dir = ~deleteDir
             /\ q.file = None <=> deleteFile /\ TextOf(q) = <<>>
             /\ TextsOf(q) = TextsOf(p) /\ BlocksOf(q) = Apart(TextOf(p), m)
             /\ Tidy(TextOf(p)) /\ sep # 2 => Tidy(TextOf(q))
<1> DEFINE q == Without(p, m, sep, deleteFile, deleteDir)
           text == TextOf(p)
           next == without_block(text, m, sep)
<1>1. /\ p = [dir |-> p.dir, file |-> p.file, access |-> p.access]
      /\ text \in Seq(Tokens) /\ Single(text)
      /\ None \notin Seq(Tokens) /\ p.dir \in BOOLEAN /\ p.access = "free"
      /\ p.file = None => text = <<>>
      /\ p.file # None => p.dir
  BY ProfileParts
<1>2. p.file # None /\ p.dir BY <1>1, FindsNothing
<1>3. /\ next \in Seq(Tokens) /\ Single(next) /\ Lines(next) = Lines(text)
      /\ BlocksIn(next) = Apart(text, m)
  BY <1>1, TakenOut
<1>4. Tidy(text) /\ sep # 2 => Tidy(next)
  <2>1. sep # 2 => sep \in 0..1 OBVIOUS
  <2> QED BY <1>1, <2>1, TakenOutTidy
<1>5. find(next, m) = None
  <2>1. \A b \in BlocksIn(next) : b.marker # m BY <1>3 DEF Apart
  <2> HIDE DEF next
  <2> QED BY <1>3, <2>1, Finds
<1> HIDE DEF next, text
<1>6. q = IF deleteFile /\ next = <<>> THEN [dir |-> ~deleteDir, file |-> None, access |-> "free"]
          ELSE [dir |-> p.dir, file |-> next, access |-> "free"]
  <2>1. q = IF deleteFile /\ next = <<>>
            THEN [dir |-> ~deleteDir, file |-> None, access |-> "free"]
            ELSE [p EXCEPT !.file = next]
    BY DEF Without, next, text
  <2>4. [p EXCEPT !.file = next] = [dir |-> p.dir, file |-> next, access |-> "free"]
    BY <1>1, Fields
  <2> HIDE DEF q
  <2> QED BY <2>1, <2>4
<1>7. TextOf(q) = next /\ q.access = "free" /\ (q.file = None <=> deleteFile /\ next = <<>>)
      /\ (q.file = None => q.dir = ~deleteDir)
  BY <1>1, <1>3, <1>6 DEF TextOf
<1>8. WellFormed(q)
  <2>1. q \in Profiles BY <1>1, <1>3, <1>6 DEF Profiles
  <2>2. q.file # None => q.dir BY <1>2, <1>6
  <2> HIDE DEF q
  <2> QED BY <1>3, <1>7, <2>1, <2>2 DEF WellFormed
<1> HIDE DEF q
<1> QED BY <1>3, <1>4, <1>5, <1>7, <1>8 DEF TextsOf, BlocksOf, next, text, q

(***************************************************************************)
(* What holds of every kind of place: the shapes of the state and the       *)
(* executor's protocol.                                                     *)
(***************************************************************************)

Places    == IF IsProfile THEN Profiles ELSE IF kind = "firewall" THEN Seq(Rules) ELSE Values
Founds    == {None} \cup Seq(Places)
Histories == [found : Founds, events : Nat, ran : SUBSET Installations,
              before : [Installations -> Founds]]
Memories  == [pc : {"down", "walk", "mutated", "reverse", "undone"}, code : {None, "skipped"}]
Creations == [file : BOOLEAN, dir : BOOLEAN, sep : 0..2]

PlaceOK == place \in Places /\ (IsProfile => WellFormed(place))

TypeOK ==
  /\ kind \in {"profile", "shared", "shortcut", "firewall", "environment"}
  /\ PlaceOK
  /\ row \in [Installations -> Rows \cup {None}]
  /\ txn \in [Installations -> Transactions \cup {None}]
  /\ backup \in [Installations -> Values]
  /\ mem \in [Installations -> Memories]
  /\ history \in Histories

\* How a resource came to be: what it created and put in front of a block,
\* or the value before it.
OriginOK(k, origin) ==
  \/ origin = None
  \/ k \in {"profile", "shared"} /\ origin \in Creations
  \/ k = "environment" /\ \E v \in Values : origin = <<v>>

PreviousOK(k, previous) ==
  IF k \in {"profile", "shared"} THEN previous \in Contents \cup {Edited, None}
  ELSE IF k = "firewall" THEN previous \in Rules \cup {None} ELSE previous \in Values

HasOrigin == IsProfile \/ kind = "environment"

\* The row of what an installation owns.
RowOK(i) ==
  row[i] # None =>
    row[i].value \in Own(i) /\ OriginOK(kind, row[i].origin) /\ (HasOrigin => row[i].origin # None)

\* The transaction: what it writes is the installation's own, what it removes
\* is what the row says, and a step begun has its undo record.
TransactionOK(i) ==
  LET t == txn[i]
  IN  t # None =>
        /\ t.op.does # "none" => t.op.value \in Own(i)
        /\ OriginOK(kind, t.op.origin)
        /\ t.op.does = "keep" /\ HasOrigin => t.op.origin # None
        /\ t.op.does = "remove" =>
             row[i] # None /\ t.op.value = row[i].value /\ t.op.origin = row[i].origin
        /\ t.at # "planned" => Writes(t.op)
        /\ t.at # "planned" /\ IsProfile => t.op.origin # None
        /\ t.code # None => t.at = "applied"
        /\ PreviousOK(kind, t.undo.previous)

\* The process: one at a time, in the direction of its transaction.
ProcessOK(i) ==
  /\ mem[i].pc # "down" => txn[i] # None /\ Alone(i)
  /\ mem[i].pc \in {"walk", "mutated"} => txn[i].state = "running"
  /\ mem[i].pc \in {"reverse", "undone"} => txn[i].state = "rolling_back"
  /\ mem[i].pc = "mutated" => txn[i].at = "applying"
  /\ mem[i].pc = "undone" => txn[i].at # "planned"
  /\ mem[i].code # None => mem[i].pc = "mutated"
  /\ kind # "profile" /\ txn[i] # None => \A j \in Installations \ {i} : txn[j] = None
  /\ kind = "environment" /\ (txn[i] # None \/ row[i] # None) =>
       \A j \in Installations \ {i} : row[j] = None
  /\ backup[i] # None => kind = "shortcut" /\ txn[i] # None
  /\ history.before[i] # None => txn[i] # None

Common ==
  /\ TypeOK
  /\ \A i \in Installations : RowOK(i) /\ TransactionOK(i) /\ ProcessOK(i)

LEMMA NothingElse ==
  /\ \A i \in Installations : Own(i) \subseteq Contents
  /\ None \notin Contents \cup {Stranger, Edited, Damaged, Unreadable, "skipped"}
  /\ None \notin Transactions /\ None \notin Rows /\ None \notin Creations
  /\ None \notin Seq(Tokens) \cup Seq(Values) \cup Seq(Profiles) \cup Seq(Seq(Rules))
  BY ResourcesAssumption DEF Contents, Creations

LEMMA Markers ==
  ASSUME NEW i \in Installations
  PROVE  Marker(i) \in Installations \cup {"product"}
  BY DEF Marker

LEMMA PrepareIs ==
  ASSUME Common, NEW i \in Installations, Prepare(i)
  PROVE  /\ txn[i] \in Transactions
         /\ txn' = [txn EXCEPT ![i] =
              [op |-> [does |-> txn[i].op.does, value |-> txn[i].op.value,
                       origin |-> OriginOf(txn[i].op, UndoOf(i))],
               state |-> txn[i].state, at |-> "applying", undo |-> UndoOf(i), code |-> txn[i].code]]
<1>1. txn[i] \in Transactions /\ txn \in [Installations -> Transactions \cup {None}]
  BY DEF Common, TypeOK, ProcessOK, Prepare, Walking
<1> DEFINE o == OriginOf(txn[i].op, UndoOf(i))
           u == UndoOf(i)
<1>2. txn' = [txn EXCEPT ![i].at = "applying", ![i].undo = u, ![i].op.origin = o]
  BY DEF Prepare
<1> HIDE DEF o, u
<1>3. txn[i].op \in [does : {"none", "keep", "put", "remove"}, value : Contents \cup {None}, origin : Origins]
  BY <1>1 DEF Transactions, Operations
<1>4. txn'[i] = [op |-> [does |-> txn[i].op.does, value |-> txn[i].op.value, origin |-> o],
               state |-> txn[i].state, at |-> "applying", undo |-> u, code |-> txn[i].code]
  BY <1>1, <1>2, <1>3 DEF Transactions
<1> QED BY <1>1, <1>2, <1>4 DEF o, u

LEMMA AddingKeeps ==
  ASSUME NEW p, WellFormed(p), NEW m \in Installations \cup {"product"},
         NEW c \in Contents \cup {Edited}
  PROVE  LET o == AddBlock(p, m, c)
         IN  /\ WellFormed(o.place) /\ o.code \in {None, "skipped"}
             /\ TextsOf(o.place) = TextsOf(p)
             /\ Tidy(TextOf(p)) => Tidy(TextOf(o.place))
<1>1. AddBlock(p, m, c) \in {Outcome(p, "skipped"), Outcome(p, None), Outcome(With(p, m, c), None)}
  BY Adding
<1>2. /\ WellFormed(With(p, m, c)) /\ TextsOf(With(p, m, c)) = TextsOf(p)
      /\ Tidy(TextOf(p)) => Tidy(TextOf(With(p, m, c)))
  BY WithBlock
<1> QED BY <1>1, <1>2 DEF Outcome

LEMMA RemovingKeeps ==
  ASSUME NEW p, WellFormed(p), NEW m, NEW sep \in 0..2,
         NEW deleteFile \in BOOLEAN, NEW deleteDir \in BOOLEAN
  PROVE  LET o == RemoveBlock(p, m, sep, deleteFile, deleteDir)
         IN  /\ WellFormed(o.place) /\ o.code \in {None, "skipped"}
             /\ TextsOf(o.place) = TextsOf(p)
             /\ Tidy(TextOf(p)) /\ sep # 2 => Tidy(TextOf(o.place))
<1> DEFINE q == Without(p, m, sep, deleteFile, deleteDir)
           o == RemoveBlock(p, m, sep, deleteFile, deleteDir)
<1>1. \/ o \in {Outcome(p, "skipped"), Outcome(p, None)}
      \/ o = Outcome(q, None) /\ p.access = "free" /\ find(TextOf(p), m) # None
  BY Removing
<1>2. CASE o \in {Outcome(p, "skipped"), Outcome(p, None)} BY <1>2 DEF Outcome
<1>3. CASE o = Outcome(q, None) /\ p.access = "free" /\ find(TextOf(p), m) # None
  <2>1. /\ WellFormed(q) /\ TextsOf(q) = TextsOf(p)
        /\ Tidy(TextOf(p)) /\ sep # 2 => Tidy(TextOf(q))
    BY <1>3, WithoutBlock
  <2> HIDE DEF q
  <2> QED BY <1>3, <2>1 DEF Outcome
<1> QED BY <1>1, <1>2, <1>3

LEMMA KindsOfPlace ==
  ASSUME TypeOK
  PROVE  /\ IsProfile \/ kind \in {"shortcut", "firewall", "environment"}
         /\ kind \in {"shortcut", "firewall", "environment"} => ~IsProfile
         /\ IsProfile => Places = Profiles /\ WellFormed(place)
         /\ kind = "firewall" => Places = Seq(Rules) /\ place \in Seq(Rules)
         /\ kind \in {"shortcut", "environment"} => Places = Values /\ place \in Values
         /\ kind' = kind => Places' = Places /\ (IsProfile' <=> IsProfile)
  BY DEF TypeOK, PlaceOK, Places, IsProfile

\* A place touched, and the history of it.
LEMMA Touched ==
  ASSUME TypeOK, kind' = kind, NEW i \in Installations, NEW q, Touch(i, q)
  PROVE  /\ place' = q /\ history' \in Histories
         /\ history'.found = history.found /\ history'.events = history.events
         /\ history'.ran \in {history.ran, history.ran \cup {i}, {}}
         /\ \A j \in Installations :
              history'.before[j] # None =>
                history'.before[j] = history.before[j] /\ (j = i \/ place' = place)
         /\ place' # place =>
              /\ history.found # None => history'.ran = history.ran \cup {i}
              /\ \A j \in Installations : history'.before[j] = IF j = i THEN history.before[i] ELSE None
         /\ place' = place => history' = history
<1>1. /\ history \in [found : Founds, events : Nat, ran : SUBSET Installations,
                      before : [Installations -> Founds]]
      /\ None \in Founds
  BY DEF TypeOK, Histories, Founds
<1>2. place' = q BY DEF Touch
<1>3. CASE q = place
  <2>1. history' = history BY <1>3 DEF Touch
  <2> QED BY <1>1, <1>2, <1>3, <2>1 DEF Histories
<1>4. CASE q # place
  <2> DEFINE b == [j \in Installations |-> IF j = i THEN history.before[i] ELSE None]
             r == IF history.found = None THEN {} ELSE history.ran \cup {i}
  <2>1. history' = [history EXCEPT !.ran = r, !.before = b] BY <1>4 DEF Touch
  <2>2. b \in [Installations -> Founds] /\ r \in SUBSET Installations
        /\ \A j \in Installations : b[j] = IF j = i THEN history.before[i] ELSE None
    BY <1>1
  <2>3. r \in {history.ran, history.ran \cup {i}, {}} /\ (history.found # None => r = history.ran \cup {i})
    OBVIOUS
  <2> HIDE DEF b, r
  <2>4. history' = [found |-> history.found, events |-> history.events, ran |-> r, before |-> b]
    BY <1>1, <2>1
  <2> QED BY <1>1, <1>2, <1>4, <2>2, <2>3, <2>4 DEF Histories
<1> QED BY <1>3, <1>4

LEMMA FoundsStay ==
  ASSUME TypeOK, kind' = kind
  PROVE  /\ Histories' = Histories /\ Places' = Places
         /\ \A q \in Places : <<q>> \in Founds /\ <<q>> # None
<1>1. Places' = Places BY KindsOfPlace
<1>2. None \notin Seq(Places) BY KindsOfPlace, NothingElse
<1>3. \A q \in Places : <<q>> \in Seq(Places) OBVIOUS
<1> QED BY <1>1, <1>2, <1>3 DEF Histories, Founds

\* What a mutation makes of a place is a place.
LEMMA MutatedIsPlace ==
  ASSUME Common, NEW i \in Installations, txn[i] # None, txn[i].at = "applying"
  PROVE  /\ Mutated(i).place \in Places /\ (IsProfile => WellFormed(Mutated(i).place))
         /\ Mutated(i).code \in {None, "skipped"}
         /\ ~IsProfile => Mutated(i).code = None
<1> DEFINE t == txn[i]
           op == txn[i].op
           origin == IF op.origin = None THEN NoOrigin ELSE op.origin
<1>1. /\ TypeOK /\ TransactionOK(i) /\ t \in Transactions /\ op.does \in {"put", "remove"}
      /\ op.value \in Contents
  <2>1. TypeOK /\ TransactionOK(i) /\ t \in Transactions BY DEF Common, TypeOK
  <2>2. op.does \in {"put", "remove"} /\ op.value \in Own(i)
    BY <2>1 DEF TransactionOK, Writes
  <2> QED BY <2>1, <2>2, NothingElse
<1>2. CASE IsProfile
  <2>1. origin \in Creations /\ Marker(i) \in Installations \cup {"product"} /\ op.origin # None
    BY <1>1, <1>2, Markers DEF TransactionOK, OriginOK, IsProfile
  <2>2. WellFormed(place) /\ Places = Profiles BY <1>1, <1>2, KindsOfPlace
  <2>3. origin.sep \in 0..2 /\ origin.file \in BOOLEAN /\ origin.dir \in BOOLEAN
    <3> HIDE DEF origin
    <3> QED BY <2>1 DEF Creations
  <2>4. CASE op.does = "put"
    <3>1. Mutated(i) = AddBlock(place, Marker(i), op.value)
      BY <1>2, <2>4 DEF Mutated, IsProfile
    <3> QED BY <1>1, <1>2, <2>1, <2>2, <3>1, AddingKeeps DEF WellFormed
  <2>5. CASE op.does = "remove"
    <3>1. Mutated(i) = RemoveBlock(place, Marker(i), origin.sep, origin.file, origin.dir)
      BY <1>2, <2>5 DEF Mutated, IsProfile
    <3> HIDE DEF origin
    <3> QED BY <1>2, <2>2, <2>3, <3>1, RemovingKeeps DEF WellFormed
  <2> QED BY <1>1, <2>4, <2>5
<1>3. CASE kind = "shortcut"
  <2>1. Mutated(i) = Outcome(IF op.does = "put" THEN op.value ELSE IF Removable(i) THEN None ELSE place, None)
    BY <1>3 DEF Mutated, IsProfile
  <2>2. Places = Values /\ place \in Values /\ ~IsProfile BY <1>1, <1>3, KindsOfPlace
  <2> QED BY <1>1, <2>1, <2>2 DEF Outcome, Values
<1>4. CASE kind = "firewall"
  <2>1. Mutated(i) = Outcome(IF op.does = "put"
                             THEN IF place = <<>> THEN <<op.value>> ELSE [place EXCEPT ![1] = op.value]
                             ELSE IF place = <<op.value>> THEN <<>> ELSE place, None)
    BY <1>4 DEF Mutated, IsProfile
  <2>2. Places = Seq(Rules) /\ place \in Seq(Rules) /\ ~IsProfile /\ op.value \in Rules
    BY <1>1, <1>4, KindsOfPlace DEF Rules
  <2>3. /\ <<op.value>> \in Seq(Rules) /\ <<>> \in Seq(Rules)
        /\ place # <<>> => [place EXCEPT ![1] = op.value] \in Seq(Rules)
    <3>1. place # <<>> => 1 \in 1..Len(place) BY <2>2
    <3> QED BY <2>2, <3>1, ExceptSeq
  <2> QED BY <2>1, <2>2, <2>3 DEF Outcome
<1>5. CASE kind = "environment"
  <2>1. Mutated(i) = Outcome(IF op.does = "put" THEN op.value
                             ELSE IF place = op.value THEN op.origin[1] ELSE place, None)
    BY <1>5 DEF Mutated, IsProfile
  <2>2. Places = Values /\ place \in Values /\ ~IsProfile BY <1>1, <1>5, KindsOfPlace
  <2>3. op.does = "remove" => op.origin[1] \in Values
    <3> SUFFICES ASSUME op.does = "remove" PROVE op.origin[1] \in Values OBVIOUS
    <3>1. row[i] # None /\ op.origin = row[i].origin BY <1>1 DEF TransactionOK
    <3>2. op.origin # None BY <1>5, <3>1 DEF Common, RowOK, HasOrigin
    <3>3. \E v \in Values : op.origin = <<v>>
      BY <1>1, <1>5, <3>2 DEF TransactionOK, OriginOK
    <3> QED BY <3>3
  <2> QED BY <1>1, <2>1, <2>2, <2>3 DEF Outcome, Values
<1> QED BY <1>1, <1>2, <1>3, <1>4, <1>5, KindsOfPlace

\* So is what a rollback makes of it.
LEMMA UndoneIsPlace ==
  ASSUME Common, NEW i \in Installations, txn[i] # None, txn[i].at # "planned"
  PROVE  Undone(i) \in Places /\ (IsProfile => WellFormed(Undone(i)))
<1> DEFINE t == txn[i]
           op == txn[i].op
<1>1. /\ TypeOK /\ TransactionOK(i) /\ t \in Transactions /\ op.does \in {"put", "remove"}
      /\ op.value \in Contents /\ PreviousOK(kind, t.undo.previous)
  <2>1. TypeOK /\ TransactionOK(i) /\ t \in Transactions BY DEF Common, TypeOK
  <2>2. op.does \in {"put", "remove"} /\ op.value \in Own(i) /\ PreviousOK(kind, t.undo.previous)
    BY <2>1 DEF TransactionOK, Writes
  <2> QED BY <2>1, <2>2, NothingElse
<1>2. CASE IsProfile
  <2>1. op.origin \in Creations /\ Marker(i) \in Installations \cup {"product"}
    BY <1>1, <1>2, Markers DEF TransactionOK, OriginOK, IsProfile
  <2>2. WellFormed(place) /\ Places = Profiles BY <1>1, <1>2, KindsOfPlace
  <2> DEFINE fresh == ~t.undo.existed
             alone == ~t.undo.dir
  <2>3. op.origin.sep \in 0..2 /\ fresh \in BOOLEAN /\ alone \in BOOLEAN
    <3>1. fresh \in BOOLEAN /\ alone \in BOOLEAN OBVIOUS
    <3> QED BY <2>1, <3>1 DEF Creations
  <2>4. Undone(i) = UndoneBlock(i) BY <1>2 DEF Undone, IsProfile
  <2>5. t.undo.previous \in Contents \cup {Edited, None}
    BY <1>1, <1>2 DEF PreviousOK, IsProfile
  <2>6. WellFormed(UndoneBlock(i))
    <3>1. CASE t.code = "skipped" BY <2>2, <3>1 DEF UndoneBlock
    <3>2. CASE t.code # "skipped" /\ t.undo.previous # None
      <4>1. t.undo.previous \in Contents \cup {Edited} BY <2>5, <3>2
      <4> QED BY <2>1, <2>2, <3>2, <4>1, AddingKeeps DEF UndoneBlock
    <3>3. CASE t.code # "skipped" /\ t.undo.previous = None /\ op.does = "put"
      <4>1. UndoneBlock(i) = RemoveBlock(place, Marker(i), op.origin.sep, fresh, alone).place
        BY <3>3 DEF UndoneBlock
      <4> HIDE DEF fresh, alone
      <4> QED BY <2>2, <2>3, <4>1, RemovingKeeps
    <3>4. CASE t.code # "skipped" /\ t.undo.previous = None /\ op.does # "put"
      BY <2>2, <3>4 DEF UndoneBlock
    <3> QED BY <3>1, <3>2, <3>3, <3>4
  <2> QED BY <2>2, <2>4, <2>6 DEF WellFormed
<1>3. CASE kind = "shortcut"
  <2>1. Undone(i) = UndoneLink(i) BY <1>3 DEF Undone, IsProfile
  <2>2. Places = Values /\ place \in Values /\ ~IsProfile /\ backup[i] \in Values /\ None \in Values
    BY <1>1, <1>3, KindsOfPlace DEF TypeOK, Values
  <2> QED BY <2>1, <2>2 DEF UndoneLink
<1>4. CASE kind = "firewall"
  <2>1. Undone(i) = UndoneRule(i) BY <1>4 DEF Undone, IsProfile
  <2>2. Places = Seq(Rules) /\ place \in Seq(Rules) /\ ~IsProfile /\ t.undo.previous \in Rules \cup {None}
    BY <1>1, <1>4, KindsOfPlace DEF PreviousOK
  <2>3. t.undo.previous # None => <<t.undo.previous>> \in Seq(Rules) BY <2>2
  <2>4. <<>> \in Seq(Rules) OBVIOUS
  <2> QED BY <2>1, <2>2, <2>3, <2>4 DEF UndoneRule
<1>5. CASE kind = "environment"
  <2>1. Undone(i) = UndoneVariable(i) BY <1>5 DEF Undone, IsProfile
  <2>2. Places = Values /\ place \in Values /\ ~IsProfile /\ t.undo.previous \in Values
    BY <1>1, <1>5, KindsOfPlace DEF PreviousOK
  <2> QED BY <2>1, <2>2 DEF UndoneVariable
<1> QED BY <1>1, <1>2, <1>3, <1>4, <1>5, KindsOfPlace

\* An operation a plan of an installation may hold.
Planned(i, op) ==
  /\ op \in Operations
  /\ op.does # "none" => op.value \in Own(i)
  /\ OriginOK(kind, op.origin)
  /\ op.does = "keep" /\ HasOrigin => op.origin # None
  /\ op.does = "remove" =>
       row[i] # None /\ op.value = row[i].value /\ op.origin = row[i].origin

LEMMA OriginsKnown ==
  ASSUME NEW origin, OriginOK(kind, origin)
  PROVE  origin \in Origins
<1>1. \A v \in Values : <<v>> \in Seq(Values) OBVIOUS
<1> QED BY <1>1 DEF OriginOK, Origins, Creations

LEMMA OperationIs ==
  ASSUME NEW does, NEW value, NEW origin
  PROVE  /\ Operation(does, value, origin).does = does
         /\ Operation(does, value, origin).value = value
         /\ Operation(does, value, origin).origin = origin
  BY DEF Operation

LEMMA PlansNothing ==
  ASSUME NEW i \in Installations
  PROVE  Planned(i, NoOperation)
<1>1. NoOperation.does = "none" /\ NoOperation.origin = None BY OperationIs DEF NoOperation
<1>2. NoOperation \in Operations BY DEF NoOperation, Operation, Operations, Origins
<1> QED BY <1>1, <1>2 DEF Planned, OriginOK

LEMMA PlansWanted ==
  ASSUME NEW i \in Installations, NEW want \in Own(i), NEW origin, OriginOK(kind, origin)
  PROVE  /\ Planned(i, Operation("put", want, origin))
         /\ (HasOrigin => origin # None) => Planned(i, Operation("keep", want, origin))
<1>1. want \in Contents /\ origin \in Origins BY NothingElse, OriginsKnown
<1>2. /\ Operation("put", want, origin) \in Operations /\ Operation("keep", want, origin) \in Operations
  BY <1>1 DEF Operation, Operations
<1> QED BY <1>2, OperationIs DEF Planned

LEMMA PlansOwned ==
  ASSUME NEW i \in Installations, RowOK(i), row[i] # None
  PROVE  /\ Planned(i, Kept(row[i]))
         /\ Planned(i, Operation("remove", row[i].value, row[i].origin))
<1>1. row[i].value \in Own(i) /\ OriginOK(kind, row[i].origin) /\ (HasOrigin => row[i].origin # None)
  BY DEF RowOK
<1>2. row[i].value \in Contents /\ row[i].origin \in Origins
  BY <1>1, NothingElse, OriginsKnown
<1>3. Operation("remove", row[i].value, row[i].origin) \in Operations
  BY <1>2 DEF Operation, Operations
<1>4. Kept(row[i]) = Operation("keep", row[i].value, row[i].origin) BY DEF Kept
<1>5. Planned(i, Kept(row[i])) BY <1>1, <1>4, PlansWanted
<1> QED BY <1>1, <1>3, <1>5, OperationIs DEF Planned

\* What the plan of a run may be, whatever it finds.
LEMMA PlanIs ==
  ASSUME Common, NEW i \in Installations, NEW want \in Own(i) \cup {None}, NEW repair \in BOOLEAN
  PROVE  Planned(i, PlanOf(i, want, repair))
<1> DEFINE op == PlanOf(i, want, repair)
           r  == row[i]
<1>1. TypeOK /\ RowOK(i) /\ Planned(i, NoOperation) /\ want \in Own(i) \cup {None}
  BY PlansNothing DEF Common
<1>2. r # None => /\ Planned(i, Kept(r)) /\ Planned(i, Operation("remove", r.value, r.origin))
                  /\ OriginOK(kind, r.origin) /\ (HasOrigin => r.origin # None)
  BY <1>1, PlansOwned DEF RowOK
<1>3. want # None => \A origin : OriginOK(kind, origin) =>
        /\ Planned(i, Operation("put", want, origin))
        /\ (HasOrigin => origin # None) => Planned(i, Operation("keep", want, origin))
  BY <1>1, PlansWanted
<1>4. OriginOK(kind, None) BY DEF OriginOK
<1>5. CASE IsProfile
  <2> DEFINE now == profile_state(place, Marker(i))
             origin == IF r = None THEN None ELSE r.origin
             known == IF r = None THEN NoOrigin ELSE origin
  <2>1. op = PlanBlock(i, want) BY <1>5 DEF PlanOf, IsProfile
  <2>2. OriginOK(kind, origin) BY <1>2, <1>4
  <2>3. OriginOK(kind, known) /\ known # None
    <3>1. NoOrigin \in Creations BY DEF NoOrigin, Creations
    <3> QED BY <1>2, <1>5, <3>1, NothingElse DEF OriginOK, HasOrigin, IsProfile
  <2>4. op = IF want # None
             THEN CASE now = want -> Operation("keep", want, known)
                    [] now \in {Unreadable, Damaged} -> IF r = None THEN NoOperation ELSE Kept(r)
                    [] OTHER -> Operation("put", want, origin)
             ELSE IF r # None /\ now = r.value THEN Operation("remove", r.value, r.origin)
             ELSE NoOperation
    BY <2>1 DEF PlanBlock
  <2>5. want # None => Planned(i, Operation("keep", want, known)) /\ Planned(i, Operation("put", want, origin))
    <3> HIDE DEF known, origin
    <3> QED BY <1>3, <2>2, <2>3
  <2>6. now = want /\ want # None => now \notin {Unreadable, Damaged}
    BY <1>1, NothingElse, ResourcesAssumption
  <2> HIDE DEF op, known, origin, now
  <2> QED BY <1>1, <1>2, <2>4, <2>5, <2>6 DEF op
<1>6. CASE kind = "shortcut"
  <2>1. op = PlanShortcut(i, want) BY <1>6 DEF PlanOf, IsProfile
  <2>2. ~HasOrigin BY <1>6 DEF HasOrigin, IsProfile
  <2>3. want # None => Planned(i, Operation("keep", want, None)) /\ Planned(i, Operation("put", want, None))
    BY <1>3, <1>4, <2>2
  <2>4. r # None => r.origin = None BY <1>2, <1>6 DEF OriginOK, IsProfile
  <2>5. op = IF want # None THEN Operation(IF place = want THEN "keep" ELSE "put", want, None)
             ELSE IF r # None /\ Removable(i) THEN Operation("remove", r.value, None)
             ELSE NoOperation
    BY <2>1 DEF PlanShortcut
  <2> HIDE DEF op
  <2> QED BY <1>1, <1>2, <2>3, <2>4, <2>5 DEF op
<1>7. CASE kind = "firewall"
  <2> DEFINE one == Len(place) = 1
             now == Head(place)
  <2>1. op = PlanRule(i, want, repair) BY <1>7 DEF PlanOf, IsProfile
  <2>2. ~HasOrigin BY <1>7 DEF HasOrigin, IsProfile
  <2>3. want # None => Planned(i, Operation("keep", want, None)) /\ Planned(i, Operation("put", want, None))
    BY <1>3, <1>4, <2>2
  <2>4. r # None => r.origin = None BY <1>2, <1>7 DEF OriginOK, IsProfile
  <2>5. place = <<>> => ~one OBVIOUS
  <2>6. op = IF want # None
             THEN CASE place = <<>> -> Operation("put", want, None)
                    [] one /\ now = want -> Operation("keep", want, None)
                    [] one /\ r # None /\ now # want ->
                         IF now # r.value /\ ~repair THEN Kept(r) ELSE Operation("put", want, None)
                    [] one /\ r = None /\ now # want -> NoOperation
                    [] OTHER -> IF r = None THEN NoOperation ELSE Kept(r)
             ELSE IF r # None /\ place = <<r.value>> THEN Operation("remove", r.value, None)
             ELSE NoOperation
    BY <2>1 DEF PlanRule
  <2> HIDE DEF op, one, now
  <2> QED BY <1>1, <1>2, <2>3, <2>4, <2>5, <2>6 DEF op
<1>8. CASE kind = "environment"
  <2>1. op = PlanVariable(i, want, repair) BY <1>8 DEF PlanOf, IsProfile
  <2>2. HasOrigin /\ place \in Values BY <1>1, <1>8, KindsOfPlace DEF HasOrigin
  <2>3. r # None /\ want # None => /\ Planned(i, Operation("keep", want, r.origin))
                                   /\ Planned(i, Operation("put", want, r.origin))
    BY <1>2, <1>3
  <2>4. want # None => Planned(i, Operation("put", want, None)) BY <1>3, <1>4
  <2>5. want # None => Planned(i, Operation("keep", want, <<want>>))
    <3> SUFFICES ASSUME want # None PROVE Planned(i, Operation("keep", want, <<want>>))
      OBVIOUS
    <3>1. want \in Values BY <1>1, NothingElse DEF Values
    <3>2. OriginOK(kind, <<want>>) BY <1>8, <3>1 DEF OriginOK
    <3>3. <<want>> # None
      <4>1. <<want>> \in Seq(Values) BY <3>1
      <4> QED BY <4>1, NothingElse
    <3> QED BY <1>3, <3>2, <3>3
  <2>6. op = IF want # None
             THEN CASE r # None /\ place = want -> Operation("keep", want, r.origin)
                    [] r # None /\ place # want ->
                         IF place \in {None, r.value} \/ repair
                         THEN Operation("put", want, r.origin) ELSE Kept(r)
                    [] OTHER -> IF place = want THEN Operation("keep", want, <<want>>)
                                ELSE Operation("put", want, None)
             ELSE IF r # None /\ place = r.value THEN Operation("remove", r.value, r.origin)
             ELSE NoOperation
    BY <2>1 DEF PlanVariable
  <2> HIDE DEF op
  <2> QED BY <1>1, <1>2, <2>3, <2>4, <2>5, <2>6 DEF op
<1> QED BY <1>1, <1>5, <1>6, <1>7, <1>8, KindsOfPlace

\* The undo record a step makes of the place.
LEMMA UndoIs ==
  ASSUME Common, NEW i \in Installations
  PROVE  /\ UndoOf(i) \in Undos /\ PreviousOK(kind, UndoOf(i).previous)
         /\ IsProfile =>
              LET now == profile_state(place, Marker(i))
              IN  UndoOf(i) = [existed |-> place.file # None /\ now # Unreadable, dir |-> place.dir,
                               previous |-> IF now \in {Unreadable, Damaged} THEN None ELSE now]
         /\ kind = "firewall" =>
              UndoOf(i) = [existed |-> place # <<>>, dir |-> FALSE,
                           previous |-> IF place = <<>> THEN None ELSE Head(place)]
         /\ kind \in {"shortcut", "environment"} =>
              UndoOf(i) = [existed |-> place # None, dir |-> FALSE, previous |-> place]
<1>1. TypeOK BY DEF Common
<1>2. Values \subseteq Rules \cup {None} BY DEF Values, Rules
<1>3. CASE IsProfile
  <2> DEFINE now == profile_state(place, Marker(i))
             existed == place.file # None /\ now # Unreadable
             previous == IF now \in {Unreadable, Damaged} THEN None ELSE now
  <2>1. UndoOf(i) = [existed |-> existed, dir |-> place.dir, previous |-> previous]
    BY <1>3 DEF UndoOf, IsProfile
  <2>2. WellFormed(place) BY <1>1, <1>3, KindsOfPlace
  <2>3. place.dir \in BOOLEAN BY <2>2, ProfileParts
  <2>4. previous \in Contents \cup {Edited, None}
    <3>1. find(TextOf(place), Marker(i)) \in Contents \cup {Edited, Damaged, None}
      BY <2>2, ProfileParts, FoundText
    <3> QED BY <3>1 DEF profile_state
  <2>5. existed \in BOOLEAN OBVIOUS
  <2>6. kind \notin {"shortcut", "firewall", "environment"} BY <1>3 DEF IsProfile
  <2> HIDE DEF existed, previous
  <2>7. UndoOf(i) \in Undos /\ UndoOf(i).previous = previous
    BY <2>1, <2>3, <2>4, <2>5 DEF Undos, Rules
  <2> QED BY <1>3, <2>1, <2>4, <2>6, <2>7 DEF PreviousOK, existed, previous, IsProfile
<1>4. CASE kind = "firewall"
  <2>1. UndoOf(i) = [NoUndo EXCEPT !.existed = place # <<>>,
                                   !.previous = IF place = <<>> THEN None ELSE Head(place)]
    BY <1>4 DEF UndoOf, IsProfile
  <2>2. UndoOf(i) = [existed |-> place # <<>>, dir |-> FALSE,
                     previous |-> IF place = <<>> THEN None ELSE Head(place)]
    BY <2>1 DEF NoUndo
  <2>3. place \in Seq(Rules) /\ ~IsProfile BY <1>1, <1>4, KindsOfPlace
  <2>4. place # <<>> => Head(place) \in Rules BY <2>3
  <2>5. UndoOf(i) \in Undos /\ UndoOf(i).previous = IF place = <<>> THEN None ELSE Head(place)
    BY <2>2, <2>4 DEF Undos
  <2> QED BY <1>4, <2>2, <2>3, <2>4, <2>5 DEF PreviousOK
<1>5. CASE kind \in {"shortcut", "environment"}
  <2>1. UndoOf(i) = [NoUndo EXCEPT !.existed = place # None, !.previous = place]
    BY <1>5 DEF UndoOf, IsProfile
  <2>2. UndoOf(i) = [existed |-> place # None, dir |-> FALSE, previous |-> place]
    BY <2>1 DEF NoUndo
  <2>3. place \in Values /\ ~IsProfile BY <1>1, <1>5, KindsOfPlace
  <2>4. UndoOf(i) \in Undos /\ UndoOf(i).previous = place BY <1>2, <2>2, <2>3 DEF Undos
  <2> QED BY <1>5, <2>2, <2>3, <2>4 DEF PreviousOK
<1> QED BY <1>1, <1>3, <1>4, <1>5, KindsOfPlace

\* The origin a prepared step holds.
LEMMA OriginIs ==
  ASSUME Common, NEW i \in Installations, NEW op \in Operations, OriginOK(kind, op.origin), Writes(op),
         op.does = "remove" /\ HasOrigin => op.origin # None
  PROVE  LET origin == OriginOf(op, UndoOf(i))
         IN  /\ OriginOK(kind, origin) /\ (IsProfile => origin # None)
             /\ ~IsProfile \/ op.does = "remove" => origin = op.origin
<1> DEFINE undo == UndoOf(i)
           known == IF op.origin = None THEN NoOrigin ELSE op.origin
           fresh == [file |-> known.file \/ ~undo.existed, dir |-> known.dir \/ ~undo.dir,
                     sep |-> IF undo.existed THEN separator_for(place.file) ELSE 0]
<1>1. CASE ~IsProfile \/ op.does # "put"
  <2>1. OriginOf(op, undo) = op.origin BY <1>1 DEF OriginOf
  <2>2. IsProfile => op.origin # None BY <1>1 DEF HasOrigin, Writes
  <2> QED BY <2>1, <2>2
<1>2. CASE IsProfile /\ op.does = "put"
  <2>1. known \in Creations BY <1>2 DEF OriginOK, NoOrigin, Creations, IsProfile
  <2>2. OriginOf(op, undo) = IF undo.previous # None THEN known ELSE fresh
    BY <1>2 DEF OriginOf
  <2>3. TypeOK /\ WellFormed(place) BY <1>2, KindsOfPlace DEF Common
  <2>4. undo.existed => separator_for(place.file) \in 0..2
    <3> DEFINE existed == place.file # None /\ profile_state(place, Marker(i)) # Unreadable
               previous == IF profile_state(place, Marker(i)) \in {Unreadable, Damaged} THEN None
                           ELSE profile_state(place, Marker(i))
    <3>4. UndoOf(i) = [existed |-> existed, dir |-> place.dir, previous |-> previous]
      BY <1>2, UndoIs
    <3>5. undo.existed = existed
      <4> HIDE DEF existed, previous
      <4> QED BY <3>4
    <3>1. undo.existed => place.file # None BY <3>5
    <3>2. place.file # None => place.file \in Seq(Tokens) BY <2>3, ProfileParts
    <3> QED BY <3>1, <3>2, Separators
  <2>5. fresh \in Creations
    <3> HIDE DEF known, undo
    <3>2. (known.file \/ ~undo.existed) \in BOOLEAN /\ (known.dir \/ ~undo.dir) \in BOOLEAN
      OBVIOUS
    <3>3. (IF undo.existed THEN separator_for(place.file) ELSE 0) \in 0..2 BY <2>4
    <3> QED BY <3>2, <3>3 DEF Creations
  <2> HIDE DEF known, fresh, undo
  <2>6. OriginOf(op, undo) \in Creations BY <2>1, <2>2, <2>5
  <2>7. OriginOf(op, undo) # None BY <2>6, NothingElse
  <2> QED BY <1>2, <2>6, <2>7 DEF OriginOK, undo, IsProfile
<1> QED BY <1>1, <1>2

\* Whose row and transaction no step touched.
LEMMA RowStays ==
  ASSUME NEW j \in Installations, RowOK(j), kind' = kind, row'[j] = row[j]
  PROVE  RowOK(j)'
  BY DEF RowOK, OriginOK, HasOrigin, IsProfile

LEMMA TransactionStays ==
  ASSUME NEW j \in Installations, TransactionOK(j), kind' = kind, row'[j] = row[j], txn'[j] = txn[j]
  PROVE  TransactionOK(j)'
  BY DEF TransactionOK, HasOrigin, IsProfile

LEMMA PlaceStays ==
  ASSUME TypeOK, kind' = kind, place' = place
  PROVE  PlaceOK'
  BY DEF TypeOK, PlaceOK, Places, IsProfile

LEMMA PlaceChanges ==
  ASSUME TypeOK, kind' = kind, place' \in Places, IsProfile => WellFormed(place')
  PROVE  PlaceOK'
<1>1. Places' = Places /\ (IsProfile' <=> IsProfile) BY KindsOfPlace
<1> QED BY <1>1 DEF PlaceOK, WellFormed

\* A step in which only the process acts.
LEMMA CommonInit ==
  ASSUME Init
  PROVE  Common
<1>1. kind \in {"profile", "shared", "shortcut", "firewall", "environment"} /\ kind \in Kinds
  BY ResourcesAssumption DEF Init
<1>2. PlaceOK
  <2>1. CASE IsProfile
    <3>1. place \in FoundProfiles BY <1>1, <2>1, ResourcesAssumption DEF Init, IsProfile
    <3>2. place \in Profiles /\ (place.file = None => place.access = "free")
          /\ (place.file # None => place.dir /\ place.file \in Seq(Texts \cup {NewLine}))
      BY <3>1 DEF FoundProfiles
    <3>3. TextOf(place) \in Seq(Texts \cup {NewLine}) BY <3>2 DEF TextOf
    <3>4. Single(TextOf(place))
      <4>1. \A k \in DOMAIN TextOf(place) : ~IsBlock(TextOf(place)[k]) BY <3>3 DEF IsBlock
      <4> QED BY <4>1 DEF Single
    <3> QED BY <2>1, <3>2, <3>4 DEF PlaceOK, Places, WellFormed
  <2>2. CASE kind = "firewall"
    <3>1. place \in Seq({Stranger}) BY <1>1, <2>2, ResourcesAssumption DEF Init
    <3>2. place \in Seq(Rules) BY <3>1 DEF Rules
    <3> QED BY <2>2, <3>2 DEF PlaceOK, Places, IsProfile
  <2>3. CASE kind \in {"shortcut", "environment"}
    <3>1. place \in {None, Stranger} BY <1>1, <2>3, ResourcesAssumption DEF Init
    <3> QED BY <2>3, <3>1 DEF PlaceOK, Places, Values, IsProfile
  <2> QED BY <1>1, <2>1, <2>2, <2>3 DEF IsProfile
<1>3. TypeOK
  <2>1. history \in Histories
    <3>1. <<place>> \in Seq(Places) BY <1>2 DEF PlaceOK
    <3> QED BY <3>1 DEF Init, Histories, Founds
  <2>2. backup \in [Installations -> Values] /\ mem \in [Installations -> Memories]
    BY DEF Init, Values, Memories, Down
  <2> QED BY <1>1, <1>2, <2>1, <2>2 DEF TypeOK, Init
<1>4. \A i \in Installations : RowOK(i) /\ TransactionOK(i) /\ ProcessOK(i)
  BY DEF Init, RowOK, TransactionOK, ProcessOK, Down
<1> QED BY <1>3, <1>4 DEF Common

LEMMA CommonBegin ==
  ASSUME Common, NEW i \in Installations, Begin(i)
  PROVE  Common'
<1>0. TypeOK /\ kind' = kind /\ place' = place /\ row' = row /\ ~Busy(i) /\ Alone(i)
      /\ (kind # "profile" => \A j \in Installations : ~Busy(j))
      /\ (kind = "environment" => \A j \in Installations \ {i} : row[j] = None)
  BY DEF Common, Begin, MayStart
<1>1. PICK want \in Own(i) \cup {None}, repair \in BOOLEAN :
        txn' = [txn EXCEPT ![i] = [op |-> PlanOf(i, want, repair), state |-> "running",
                                   at |-> "planned", undo |-> NoUndo, code |-> None]]
  BY DEF Begin
<1> DEFINE op == PlanOf(i, want, repair)
           t == [op |-> op, state |-> "running", at |-> "planned", undo |-> NoUndo, code |-> None]
<1>2. Planned(i, op) BY PlanIs
<1> HIDE DEF op
<1>3. t \in Transactions /\ t # None
  <2>1. NoUndo \in Undos BY DEF NoUndo, Undos
  <2>2. t \in Transactions BY <1>2, <2>1 DEF Planned, Transactions
  <2> QED BY <2>2, NothingElse
<1>4. txn' = [txn EXCEPT ![i] = t] BY <1>1 DEF op
<1>5. t.op = op /\ t.state = "running" /\ t.at = "planned" /\ t.undo = NoUndo /\ t.code = None
  OBVIOUS
<1> HIDE DEF t
<1>6. /\ txn' \in [Installations -> Transactions \cup {None}] /\ txn'[i] = t
      /\ \A j \in Installations \ {i} : txn'[j] = txn[j]
  BY <1>0, <1>3, <1>4 DEF TypeOK
<1>7. /\ mem' \in [Installations -> Memories] /\ mem'[i] = [pc |-> "walk", code |-> None]
      /\ \A j \in Installations \ {i} : mem'[j] = mem[j]
  <2>1. mem' = [mem EXCEPT ![i] = [Down EXCEPT !.pc = "walk"]] BY DEF Begin
  <2>2. [Down EXCEPT !.pc = "walk"] = [pc |-> "walk", code |-> None] BY DEF Down
  <2> QED BY <1>0, <2>1, <2>2 DEF TypeOK, Memories
<1>8. /\ backup' \in [Installations -> Values] /\ backup'[i] = None
      /\ \A j \in Installations \ {i} : backup'[j] = backup[j]
  BY <1>0 DEF TypeOK, Begin, Values
<1>9. /\ history' \in Histories /\ history'.before[i] = <<place>>
      /\ \A j \in Installations \ {i} : history'.before[j] = history.before[j]
  <2>1. place \in Places /\ <<place>> \in Founds BY <1>0, FoundsStay DEF TypeOK, PlaceOK
  <2>2. history' = [history EXCEPT !.before[i] = <<place>>, !.events = history.events + 1]
    BY DEF Begin
  <2>3. /\ history \in [found : Founds, events : Nat, ran : SUBSET Installations,
                        before : [Installations -> Founds]]
    BY <1>0 DEF TypeOK, Histories
  <2> DEFINE b == [history.before EXCEPT ![i] = <<place>>]
  <2>4. history' = [found |-> history.found, events |-> history.events + 1, ran |-> history.ran,
                    before |-> b]
    BY <2>2, <2>3
  <2>5. b \in [Installations -> Founds] /\ b[i] = <<place>>
        /\ \A j \in Installations \ {i} : b[j] = history.before[j]
    BY <2>1, <2>3
  <2> HIDE DEF b
  <2> QED BY <2>3, <2>4, <2>5 DEF Histories
<1>10. TypeOK' BY <1>0, <1>6, <1>7, <1>8, <1>9, PlaceStays, FoundsStay DEF TypeOK
<1>11. TransactionOK(i)'
  <2>1. NoUndo.previous = None BY DEF NoUndo
  <2>2. PreviousOK(kind', NoUndo.previous) BY <2>1 DEF PreviousOK, Values
  <2>3. t.op.does = "remove" => row'[i] # None /\ t.op.value = row'[i].value /\ t.op.origin = row'[i].origin
    BY <1>0, <1>2, <1>5 DEF Planned
  <2>4. OriginOK(kind', t.op.origin) /\ (t.op.does = "keep" /\ HasOrigin' => t.op.origin # None)
        /\ (t.op.does # "none" => t.op.value \in Own(i))
    BY <1>0, <1>2, <1>5 DEF Planned, HasOrigin, IsProfile
  <2> QED BY <1>5, <1>6, <2>2, <2>3, <2>4 DEF TransactionOK
<1>12. ASSUME NEW j \in Installations PROVE RowOK(j)' /\ TransactionOK(j)' /\ ProcessOK(j)'
  <2>1. RowOK(j)' BY <1>0, RowStays DEF Common
  <2>2. TransactionOK(j)'
    <3>1. CASE j = i BY <1>11, <3>1
    <3>2. CASE j # i BY <1>0, <1>6, <3>2, TransactionStays DEF Common
    <3> QED BY <3>1, <3>2
  <2>3. CASE j = i
    <3>1. ProcessOK(i)'
      BY <1>0, <1>3, <1>5, <1>6, <1>7, <1>8, <1>9 DEF ProcessOK, Alone, Busy
    <3> QED BY <2>1, <2>2, <2>3, <3>1
  <2>4. CASE j # i
    <3>1. ProcessOK(j) BY DEF Common
    <3>2. mem[j].pc = "down" BY <1>0, <2>4 DEF Alone
    <3>3. ProcessOK(j)'
      BY <1>0, <1>3, <1>6, <1>7, <1>8, <1>9, <2>4, <3>1, <3>2 DEF ProcessOK, Busy
    <3> QED BY <2>1, <2>2, <3>3
  <2> QED BY <2>3, <2>4
<1> QED BY <1>10, <1>12 DEF Common

LEMMA CommonPrepare ==
  ASSUME Common, NEW i \in Installations, Prepare(i)
  PROVE  Common'
<1>0. /\ TypeOK /\ kind' = kind /\ place' = place /\ row' = row /\ backup' = backup /\ mem' = mem
      /\ history' = history /\ mem[i].pc = "walk" /\ txn[i].at = "planned" /\ Writes(txn[i].op)
  BY DEF Common, Prepare, Walking
<1> DEFINE o == OriginOf(txn[i].op, UndoOf(i))
           u == UndoOf(i)
           t == [op |-> [does |-> txn[i].op.does, value |-> txn[i].op.value, origin |-> o],
                 state |-> txn[i].state, at |-> "applying", undo |-> u, code |-> txn[i].code]
<1>1. txn[i] \in Transactions /\ txn' = [txn EXCEPT ![i] = t] /\ txn[i] # None
  BY PrepareIs, NothingElse
<1>2. u \in Undos /\ PreviousOK(kind, u.previous) BY UndoIs
<1>3. TransactionOK(i) /\ txn[i].op \in Operations /\ RowOK(i) /\ ProcessOK(i)
  BY <1>1 DEF Common, Transactions
<1>4. /\ OriginOK(kind, o) /\ (IsProfile => o # None)
      /\ txn[i].op.does = "remove" => o = txn[i].op.origin
  <2>1. OriginOK(kind, txn[i].op.origin) BY <1>1, <1>3 DEF TransactionOK
  <2>2. txn[i].op.does = "remove" /\ HasOrigin => txn[i].op.origin # None
    BY <1>1, <1>3 DEF TransactionOK, RowOK
  <2> QED BY <1>0, <1>3, <2>1, <2>2, OriginIs
<1> HIDE DEF o, u
<1>5. t \in Transactions /\ t # None
  <2>1. o \in Origins BY <1>4, OriginsKnown
  <2>2. t \in Transactions BY <1>1, <1>2, <1>3, <2>1 DEF Transactions, Operations
  <2> QED BY <2>2, NothingElse
<1>6. /\ t.op.does = txn[i].op.does /\ t.op.value = txn[i].op.value /\ t.op.origin = o
      /\ t.state = txn[i].state /\ t.at = "applying" /\ t.undo = u /\ t.code = txn[i].code
  OBVIOUS
<1> HIDE DEF t
<1>7. /\ txn' \in [Installations -> Transactions \cup {None}] /\ txn'[i] = t
      /\ \A j \in Installations \ {i} : txn'[j] = txn[j]
  BY <1>0, <1>1, <1>5 DEF TypeOK
<1>8. TypeOK' BY <1>0, <1>7, PlaceStays, FoundsStay DEF TypeOK
<1>9. TransactionOK(i)'
  <2>1. OriginOK(kind', o) /\ PreviousOK(kind', u.previous) BY <1>0, <1>2, <1>4
  <2>2. t.op.does = "remove" => row'[i] # None /\ t.op.value = row'[i].value /\ t.op.origin = row'[i].origin
    BY <1>0, <1>1, <1>3, <1>4, <1>6 DEF TransactionOK
  <2>3. Writes(t.op) /\ t.op.value \in Own(i) /\ t.op.does \notin {"none", "keep"} /\ t.code = None
    BY <1>0, <1>1, <1>3, <1>6 DEF TransactionOK, Writes
  <2>4. IsProfile' => t.op.origin # None BY <1>0, <1>4, <1>6 DEF IsProfile
  <2> QED BY <1>6, <1>7, <2>1, <2>2, <2>3, <2>4 DEF TransactionOK
<1>10. ASSUME NEW j \in Installations PROVE RowOK(j)' /\ TransactionOK(j)' /\ ProcessOK(j)'
  <2>1. RowOK(j)' BY <1>0, RowStays DEF Common
  <2>2. TransactionOK(j)'
    <3>1. CASE j = i BY <1>9, <3>1
    <3>2. CASE j # i BY <1>0, <1>7, <3>2, TransactionStays DEF Common
    <3> QED BY <3>1, <3>2
  <2>3. txn'[j] # None <=> txn[j] # None BY <1>1, <1>5, <1>7
  <2>4. \A k \in Installations : txn'[k] = None <=> txn[k] = None BY <1>1, <1>5, <1>7
  <2>5. ProcessOK(j)'
    <3>1. ProcessOK(j) BY DEF Common
    <3>2. CASE j = i BY <1>0, <1>3, <1>6, <1>7, <2>4, <3>2 DEF ProcessOK, Alone
    <3>3. CASE j # i BY <1>0, <1>7, <2>4, <3>1, <3>3 DEF ProcessOK, Alone
    <3> QED BY <3>2, <3>3
  <2> QED BY <2>1, <2>2, <2>5
<1> QED BY <1>8, <1>10 DEF Common

\* A transaction that went on, with its operation and its undo record.
LEMMA TransactionMoves ==
  ASSUME NEW i \in Installations, TransactionOK(i), kind' = kind, row'[i] = row[i], txn[i] # None,
         txn'[i].op = txn[i].op, txn'[i].undo = txn[i].undo,
         txn'[i].at # "planned" => txn[i].at # "planned",
         txn'[i].code # None => txn'[i].at = "applied"
  PROVE  TransactionOK(i)'
<1>1. IsProfile' = IsProfile /\ HasOrigin' = HasOrigin BY DEF IsProfile, HasOrigin
<1> QED BY <1>1 DEF TransactionOK

LEMMA CommonKeepPrevious ==
  ASSUME Common, NEW i \in Installations, KeepPrevious(i)
  PROVE  Common'
<1>0. /\ TypeOK /\ kind' = kind /\ row' = row /\ txn' = txn /\ mem' = mem /\ Touch(i, None)
      /\ mem[i].pc = "walk" /\ kind = "shortcut" /\ txn[i] # None /\ place \in Values
      /\ backup' = [backup EXCEPT ![i] = place]
  <2>1. mem[i].pc = "walk" /\ kind = "shortcut" /\ TypeOK /\ ProcessOK(i)
    BY DEF Common, KeepPrevious, Walking, ToBackUp
  <2>2. place \in Values /\ txn[i] # None BY <2>1, KindsOfPlace DEF ProcessOK
  <2> QED BY <2>1, <2>2 DEF KeepPrevious
<1>1. /\ place' = None /\ history' \in Histories
      /\ \A j \in Installations : history'.before[j] # None => history.before[j] # None
  BY <1>0, Touched
<1>2. PlaceOK'
  <2>1. Places = Values /\ ~IsProfile BY <1>0, KindsOfPlace
  <2> QED BY <1>0, <1>1, <2>1, PlaceChanges DEF Values
<1>3. /\ backup' \in [Installations -> Values]
      /\ \A j \in Installations \ {i} : backup'[j] = backup[j]
  BY <1>0 DEF TypeOK
<1>4. TypeOK' BY <1>0, <1>1, <1>2, <1>3, FoundsStay DEF TypeOK
<1>5. ASSUME NEW j \in Installations PROVE RowOK(j)' /\ TransactionOK(j)' /\ ProcessOK(j)'
  <2>1. RowOK(j)' /\ TransactionOK(j)' /\ ProcessOK(j)
    BY <1>0, RowStays, TransactionStays DEF Common
  <2>2. ProcessOK(j)' BY <1>0, <1>1, <1>3, <2>1 DEF ProcessOK, Alone
  <2> QED BY <2>1, <2>2
<1> QED BY <1>4, <1>5 DEF Common

LEMMA CommonMutate ==
  ASSUME Common, NEW i \in Installations, Mutate(i)
  PROVE  Common'
<1> DEFINE q == Mutated(i).place
           code == Mutated(i).code
<1>0. /\ TypeOK /\ kind' = kind /\ row' = row /\ txn' = txn /\ backup' = backup /\ Touch(i, q)
      /\ mem[i].pc = "walk" /\ txn[i] # None /\ txn[i].at = "applying"
      /\ mem' = [mem EXCEPT ![i].pc = "mutated", ![i].code = code]
      /\ ProcessOK(i)
  <2>1. mem[i].pc = "walk" /\ TypeOK /\ ProcessOK(i) BY DEF Common, Mutate, Walking
  <2>2. txn[i] # None BY <2>1 DEF ProcessOK
  <2> QED BY <2>1, <2>2 DEF Mutate, Walking
<1>1. q \in Places /\ (IsProfile => WellFormed(q)) /\ code \in {None, "skipped"}
  BY <1>0, MutatedIsPlace
<1> HIDE DEF q, code
<1>2. /\ place' = q /\ history' \in Histories
      /\ \A j \in Installations : history'.before[j] # None => history.before[j] # None
  BY <1>0, Touched
<1>3. PlaceOK' BY <1>0, <1>1, <1>2, PlaceChanges
<1>4. /\ mem' \in [Installations -> Memories] /\ mem'[i] = [pc |-> "mutated", code |-> code]
      /\ \A j \in Installations \ {i} : mem'[j] = mem[j]
  BY <1>0, <1>1 DEF TypeOK, Memories
<1>5. TypeOK' BY <1>0, <1>2, <1>3, <1>4, FoundsStay DEF TypeOK
<1>6. ASSUME NEW j \in Installations PROVE RowOK(j)' /\ TransactionOK(j)' /\ ProcessOK(j)'
  <2>1. RowOK(j)' /\ TransactionOK(j)' /\ ProcessOK(j)
    BY <1>0, RowStays, TransactionStays DEF Common
  <2>2. CASE j = i
    <3>1. ProcessOK(i)' BY <1>0, <1>2, <1>4 DEF ProcessOK, Alone
    <3> QED BY <2>1, <2>2, <3>1
  <2>3. CASE j # i
    <3>1. mem[j].pc = "down" BY <1>0, <2>3 DEF ProcessOK, Alone
    <3>2. ProcessOK(j)' BY <1>0, <1>2, <1>4, <2>1, <2>3, <3>1 DEF ProcessOK
    <3> QED BY <2>1, <3>2
  <2> QED BY <2>2, <2>3
<1> QED BY <1>5, <1>6 DEF Common

LEMMA CommonMark ==
  ASSUME Common, NEW i \in Installations, Mark(i)
  PROVE  Common'
<1>0. /\ TypeOK /\ kind' = kind /\ place' = place /\ row' = row /\ backup' = backup /\ history' = history
      /\ mem[i].pc = "mutated" /\ txn[i] # None /\ txn[i].at = "applying" /\ ProcessOK(i)
      /\ txn[i] \in Transactions /\ mem[i].code \in {None, "skipped"}
  <2>1. mem[i].pc = "mutated" /\ TypeOK /\ ProcessOK(i) BY DEF Common, Mark
  <2>2. txn[i] # None /\ txn[i].at = "applying" BY <2>1 DEF ProcessOK
  <2>3. txn[i] \in Transactions /\ mem[i].code \in {None, "skipped"}
    BY <2>1, <2>2 DEF TypeOK, Memories
  <2> QED BY <2>1, <2>2, <2>3 DEF Mark
<1> DEFINE t == [op |-> txn[i].op, state |-> txn[i].state, at |-> "applied", undo |-> txn[i].undo,
                 code |-> mem[i].code]
<1>1. txn' = [txn EXCEPT ![i] = t]
  <2>1. txn' = [txn EXCEPT ![i].at = "applied", ![i].code = mem[i].code] BY DEF Mark
  <2>2. txn'[i] = t BY <1>0, <2>1 DEF TypeOK, Transactions
  <2> QED BY <1>0, <2>1, <2>2 DEF TypeOK
<1>2. t \in Transactions /\ t # None
  <2>1. t \in Transactions BY <1>0 DEF Transactions
  <2> QED BY <2>1, NothingElse
<1>3. t.op = txn[i].op /\ t.state = txn[i].state /\ t.at = "applied" /\ t.undo = txn[i].undo
  OBVIOUS
<1> HIDE DEF t
<1>4. /\ txn' \in [Installations -> Transactions \cup {None}] /\ txn'[i] = t
      /\ \A j \in Installations \ {i} : txn'[j] = txn[j]
  BY <1>0, <1>1, <1>2 DEF TypeOK
<1>5. /\ mem' \in [Installations -> Memories] /\ mem'[i] = [pc |-> "walk", code |-> None]
      /\ \A j \in Installations \ {i} : mem'[j] = mem[j]
  <2>1. mem' = [mem EXCEPT ![i].pc = "walk", ![i].code = None] BY DEF Mark
  <2> QED BY <1>0, <2>1 DEF TypeOK, Memories
<1>6. TypeOK' BY <1>0, <1>4, <1>5, PlaceStays, FoundsStay DEF TypeOK
<1>7. ASSUME NEW j \in Installations PROVE RowOK(j)' /\ TransactionOK(j)' /\ ProcessOK(j)'
  <2>1. RowOK(j)' /\ TransactionOK(j) /\ ProcessOK(j) BY <1>0, RowStays DEF Common
  <2>2. CASE j = i
    <3>1. TransactionOK(i)' BY <1>0, <1>3, <1>4, <2>1, <2>2, TransactionMoves
    <3>2. ProcessOK(i)' BY <1>0, <1>2, <1>3, <1>4, <1>5 DEF ProcessOK, Alone
    <3> QED BY <2>1, <2>2, <3>1, <3>2
  <2>3. CASE j # i
    <3>1. TransactionOK(j)' BY <1>0, <1>4, <2>1, <2>3, TransactionStays
    <3>2. mem[j].pc = "down" BY <1>0, <2>3 DEF ProcessOK, Alone
    <3>3. \A k \in Installations : txn'[k] = None <=> txn[k] = None BY <1>0, <1>2, <1>4
    <3>4. ProcessOK(j)' BY <1>0, <1>4, <1>5, <2>1, <2>3, <3>2, <3>3 DEF ProcessOK
    <3> QED BY <2>1, <3>1, <3>4
  <2> QED BY <2>2, <2>3
<1> QED BY <1>6, <1>7 DEF Common

\* A transaction closed.
LEMMA CommonClosed ==
  ASSUME Common, NEW i \in Installations, Closed(i), kind' = kind, place' = place,
         mem[i].pc # "down", history' \in Histories,
         \A j \in Installations :
           history'.before[j] = IF j = i THEN None ELSE history.before[j],
         row' \in [Installations -> Rows \cup {None}], RowOK(i)',
         \A j \in Installations \ {i} : row'[j] = row[j]
  PROVE  Common'
<1>0. TypeOK /\ ProcessOK(i) /\ txn[i] # None BY DEF Common, ProcessOK
<1>1. /\ txn' \in [Installations -> Transactions \cup {None}] /\ txn'[i] = None
      /\ \A j \in Installations \ {i} : txn'[j] = txn[j]
  BY <1>0 DEF Closed, TypeOK
<1>2. /\ backup' \in [Installations -> Values] /\ backup'[i] = None
      /\ \A j \in Installations \ {i} : backup'[j] = backup[j]
  BY <1>0 DEF Closed, TypeOK, Values
<1>3. /\ mem' \in [Installations -> Memories] /\ mem'[i] = Down
      /\ \A j \in Installations \ {i} : mem'[j] = mem[j]
  BY <1>0 DEF Closed, TypeOK, Memories, Down
<1>4. TypeOK' BY <1>0, <1>1, <1>2, <1>3, PlaceStays, FoundsStay DEF TypeOK
<1>5. ASSUME NEW j \in Installations PROVE RowOK(j)' /\ TransactionOK(j)' /\ ProcessOK(j)'
  <2>1. RowOK(j) /\ TransactionOK(j) /\ ProcessOK(j) BY DEF Common
  <2>2. CASE j = i
    <3>1. TransactionOK(i)' BY <1>1 DEF TransactionOK
    <3>2. ProcessOK(i)' BY <1>0, <1>1, <1>2, <1>3 DEF ProcessOK, Down
    <3> QED BY <2>2, <3>1, <3>2
  <2>3. CASE j # i
    <3>1. RowOK(j)' /\ TransactionOK(j)' BY <1>1, <2>1, <2>3, RowStays, TransactionStays
    <3>2. mem[j].pc = "down" BY <1>0, <2>3 DEF ProcessOK, Alone
    <3>3. kind = "environment" => row[j] = None BY <1>0, <2>3 DEF ProcessOK
    <3>4. kind # "profile" => txn[j] = None BY <1>0, <2>3 DEF ProcessOK
    <3>5. ProcessOK(j)' BY <1>1, <1>2, <1>3, <2>1, <2>3, <3>2, <3>3, <3>4 DEF ProcessOK
    <3> QED BY <3>1, <3>5
  <2> QED BY <2>2, <2>3
<1> QED BY <1>4, <1>5 DEF Common

\* The row a commit writes.
LEMMA RowIs ==
  ASSUME Common, NEW i \in Installations, txn[i] # None
  PROVE  LET r == RowOf(txn[i])
         IN  /\ r \in Rows \cup {None}
             /\ r # None => /\ txn[i].op.does \in {"put", "keep"} /\ txn[i].code # "skipped"
                            /\ r.value = txn[i].op.value
                            /\ r.value \in Own(i) /\ OriginOK(kind, r.origin)
                            /\ r.origin = IF kind = "environment" /\ txn[i].op.origin = None
                                          THEN <<txn[i].undo.previous>> ELSE txn[i].op.origin
                            /\ kind = "environment" => r.origin # None
<1> DEFINE t == txn[i]
           origin == IF kind = "environment" /\ t.op.origin = None THEN <<t.undo.previous>> ELSE t.op.origin
           r == RowOf(t)
<1>1. TransactionOK(i) BY DEF Common
<1>2. OriginOK(kind, origin) /\ (kind = "environment" => origin # None)
  <2>1. CASE kind = "environment" /\ t.op.origin = None
    <3>1. t.undo.previous \in Values BY <1>1, <2>1 DEF TransactionOK, PreviousOK
    <3>2. <<t.undo.previous>> \in Seq(Values) BY <3>1
    <3>3. <<t.undo.previous>> # None BY <3>2, NothingElse
    <3> QED BY <2>1, <3>1, <3>3 DEF OriginOK
  <2>2. CASE ~(kind = "environment" /\ t.op.origin = None) BY <1>1, <2>2 DEF TransactionOK
  <2> QED BY <2>1, <2>2
<1> HIDE DEF origin
<1>3. r = IF t.op.does \notin {"put", "keep"} \/ t.code = "skipped" THEN None
          ELSE [value |-> t.op.value, origin |-> origin]
  BY DEF RowOf, origin
<1>4. t.op.does \in {"put", "keep"} => t.op.value \in Own(i) /\ t.op.value \in Contents
  BY <1>1, NothingElse DEF TransactionOK
<1> HIDE DEF r, t
<1>5. r \in Rows \cup {None} BY <1>2, <1>3, <1>4, OriginsKnown DEF Rows
<1>6. r # None => /\ t.op.does \in {"put", "keep"} /\ t.code # "skipped"
                  /\ r.value = t.op.value /\ r.origin = origin
  BY <1>3
<1> QED BY <1>2, <1>4, <1>5, <1>6 DEF origin, r, t

LEMMA CommonCommit ==
  ASSUME Common, NEW i \in Installations, Commit(i)
  PROVE  Common'
<1>0. /\ TypeOK /\ ProcessOK(i) /\ TransactionOK(i) /\ kind' = kind /\ place' = place /\ Closed(i)
      /\ mem[i].pc = "walk" /\ (txn[i].at = "applied" \/ ~Writes(txn[i].op))
      /\ row' = [row EXCEPT ![i] = RowOf(txn[i])]
  BY DEF Common, Commit
<1>1. txn[i] # None BY <1>0 DEF ProcessOK
<1> DEFINE r == RowOf(txn[i])
<1>2. /\ r \in Rows \cup {None}
      /\ r # None => /\ txn[i].op.does \in {"put", "keep"} /\ r.value \in Own(i) /\ OriginOK(kind, r.origin)
                     /\ r.origin = IF kind = "environment" /\ txn[i].op.origin = None
                                          THEN <<txn[i].undo.previous>> ELSE txn[i].op.origin
                     /\ kind = "environment" => r.origin # None
  BY <1>1, RowIs
<1> HIDE DEF r
<1>3. /\ row' \in [Installations -> Rows \cup {None}] /\ row'[i] = r
      /\ \A j \in Installations \ {i} : row'[j] = row[j]
  BY <1>0, <1>2 DEF TypeOK, r
<1>4. RowOK(i)'
  <2>1. r # None /\ IsProfile => r.origin # None
    <3> SUFFICES ASSUME r # None, IsProfile PROVE txn[i].op.origin # None
      BY <1>2 DEF IsProfile
    <3>1. CASE txn[i].op.does = "keep" BY <1>0, <1>1, <3>1 DEF TransactionOK, HasOrigin
    <3>2. CASE txn[i].op.does = "put" BY <1>0, <1>1, <3>2 DEF TransactionOK, Writes
    <3> QED BY <1>2, <3>1, <3>2
  <2> QED BY <1>0, <1>2, <1>3, <2>1 DEF RowOK, HasOrigin, IsProfile
<1>5. /\ history' \in Histories
      /\ \A j \in Installations : history'.before[j] = IF j = i THEN None ELSE history.before[j]
  <2> DEFINE found == IF backup[i] = Stranger THEN None ELSE history.found
             b == [history.before EXCEPT ![i] = None]
  <2>1. history \in [found : Founds, events : Nat, ran : SUBSET Installations,
                     before : [Installations -> Founds]] /\ None \in Founds
    BY <1>0 DEF TypeOK, Histories, Founds
  <2>2. history' = [history EXCEPT !.before[i] = None, !.found = found] BY DEF Commit
  <2>3. found \in Founds /\ b \in [Installations -> Founds]
        /\ \A j \in Installations : b[j] = IF j = i THEN None ELSE history.before[j]
    BY <2>1
  <2> HIDE DEF found
  <2>4. history' = [found |-> found, events |-> history.events, ran |-> history.ran, before |-> b]
    BY <2>1, <2>2
  <2> HIDE DEF b
  <2> QED BY <2>1, <2>3, <2>4 DEF Histories
<1>6. mem[i].pc # "down" BY <1>0
<1> QED BY <1>0, <1>3, <1>4, <1>5, <1>6, CommonClosed

LEMMA CommonFinishRollback ==
  ASSUME Common, NEW i \in Installations, FinishRollback(i)
  PROVE  Common'
<1>0. /\ TypeOK /\ kind' = kind /\ place' = place /\ row' = row /\ Closed(i) /\ mem[i].pc # "down"
      /\ RowOK(i)
  BY DEF Common, FinishRollback
<1>1. RowOK(i)' /\ row' \in [Installations -> Rows \cup {None}] BY <1>0, RowStays DEF TypeOK
<1>2. /\ history' \in Histories
      /\ \A j \in Installations : history'.before[j] = IF j = i THEN None ELSE history.before[j]
  <2> DEFINE b == [history.before EXCEPT ![i] = None]
  <2>1. history \in [found : Founds, events : Nat, ran : SUBSET Installations,
                     before : [Installations -> Founds]] /\ None \in Founds
    BY <1>0 DEF TypeOK, Histories, Founds
  <2>2. history' = [history EXCEPT !.before[i] = None] BY DEF FinishRollback
  <2>3. b \in [Installations -> Founds]
        /\ \A j \in Installations : b[j] = IF j = i THEN None ELSE history.before[j]
    BY <2>1
  <2>4. history' = [found |-> history.found, events |-> history.events, ran |-> history.ran, before |-> b]
    BY <2>1, <2>2
  <2> HIDE DEF b
  <2> QED BY <2>1, <2>3, <2>4 DEF Histories
<1> QED BY <1>0, <1>1, <1>2, CommonClosed

LEMMA CommonFail ==
  ASSUME Common, NEW i \in Installations, Fail(i)
  PROVE  Common'
<1>0. /\ TypeOK /\ kind' = kind /\ place' = place /\ row' = row /\ backup' = backup /\ history' = history
      /\ mem[i].pc # "down" /\ txn[i] # None /\ ProcessOK(i) /\ txn[i] \in Transactions
      /\ TransactionOK(i)
  <2>1. mem[i].pc # "down" /\ TypeOK /\ ProcessOK(i) /\ TransactionOK(i) BY DEF Common, Fail
  <2>2. txn[i] # None BY <2>1 DEF ProcessOK
  <2>3. txn[i] \in Transactions BY <2>1, <2>2 DEF TypeOK
  <2> QED BY <2>1, <2>2, <2>3 DEF Fail
<1> DEFINE t == [op |-> txn[i].op, state |-> "rolling_back", at |-> txn[i].at, undo |-> txn[i].undo,
                 code |-> txn[i].code]
<1>1. txn' = [txn EXCEPT ![i] = t]
  <2>1. txn' = [txn EXCEPT ![i].state = "rolling_back"] BY DEF Fail
  <2>2. txn'[i] = t BY <1>0, <2>1 DEF TypeOK, Transactions
  <2> QED BY <1>0, <2>1, <2>2 DEF TypeOK
<1>2. t \in Transactions /\ t # None
  <2>1. t \in Transactions BY <1>0 DEF Transactions
  <2> QED BY <2>1, NothingElse
<1>3. /\ t.op = txn[i].op /\ t.state = "rolling_back" /\ t.at = txn[i].at /\ t.undo = txn[i].undo
      /\ t.code = txn[i].code
  OBVIOUS
<1> HIDE DEF t
<1>4. /\ txn' \in [Installations -> Transactions \cup {None}] /\ txn'[i] = t
      /\ \A j \in Installations \ {i} : txn'[j] = txn[j]
  BY <1>0, <1>1, <1>2 DEF TypeOK
<1>5. /\ mem' \in [Installations -> Memories] /\ mem'[i] = [pc |-> "reverse", code |-> None]
      /\ \A j \in Installations \ {i} : mem'[j] = mem[j]
  <2>1. mem' = [mem EXCEPT ![i] = [Down EXCEPT !.pc = "reverse"]] BY DEF Fail
  <2>2. [Down EXCEPT !.pc = "reverse"] = [pc |-> "reverse", code |-> None] BY DEF Down
  <2> QED BY <1>0, <2>1, <2>2 DEF TypeOK, Memories
<1>6. TypeOK' BY <1>0, <1>4, <1>5, PlaceStays, FoundsStay DEF TypeOK
<1>7. ASSUME NEW j \in Installations PROVE RowOK(j)' /\ TransactionOK(j)' /\ ProcessOK(j)'
  <2>1. RowOK(j)' /\ TransactionOK(j) /\ ProcessOK(j) BY <1>0, RowStays DEF Common
  <2>2. CASE j = i
    <3>1. TransactionOK(i)' BY <1>0, <1>3, <1>4, TransactionMoves DEF TransactionOK
    <3>2. ProcessOK(i)' BY <1>0, <1>2, <1>3, <1>4, <1>5 DEF ProcessOK, Alone
    <3> QED BY <2>1, <2>2, <3>1, <3>2
  <2>3. CASE j # i
    <3>1. TransactionOK(j)' BY <1>0, <1>4, <2>1, <2>3, TransactionStays
    <3>2. mem[j].pc = "down" BY <1>0, <2>3 DEF ProcessOK, Alone
    <3>3. \A k \in Installations : txn'[k] = None <=> txn[k] = None BY <1>0, <1>2, <1>4
    <3>4. ProcessOK(j)' BY <1>0, <1>4, <1>5, <2>1, <2>3, <3>2, <3>3 DEF ProcessOK
    <3> QED BY <2>1, <3>1, <3>4
  <2> QED BY <2>2, <2>3
<1> QED BY <1>6, <1>7 DEF Common

LEMMA CommonUndo ==
  ASSUME Common, NEW i \in Installations, Undo(i)
  PROVE  Common'
<1> DEFINE q == Undone(i)
<1>0. /\ TypeOK /\ kind' = kind /\ row' = row /\ txn' = txn /\ Touch(i, q)
      /\ mem[i].pc = "reverse" /\ txn[i] # None /\ txn[i].at # "planned"
      /\ mem' = [mem EXCEPT ![i].pc = "undone"]
      /\ backup' = [backup EXCEPT ![i] = IF kind = "shortcut" /\ place = None THEN None ELSE backup[i]]
      /\ ProcessOK(i)
  <2>1. mem[i].pc = "reverse" /\ TypeOK /\ ProcessOK(i) BY DEF Common, Undo
  <2>2. txn[i] # None BY <2>1 DEF ProcessOK
  <2> QED BY <2>1, <2>2 DEF Undo
<1>1. q \in Places /\ (IsProfile => WellFormed(q)) BY <1>0, UndoneIsPlace
<1> HIDE DEF q
<1>2. /\ place' = q /\ history' \in Histories
      /\ \A j \in Installations : history'.before[j] # None => history.before[j] # None
  BY <1>0, Touched
<1>3. PlaceOK' BY <1>0, <1>1, <1>2, PlaceChanges
<1>4. /\ mem' \in [Installations -> Memories] /\ mem'[i] = [pc |-> "undone", code |-> mem[i].code]
      /\ \A j \in Installations \ {i} : mem'[j] = mem[j]
  BY <1>0 DEF TypeOK, Memories
<1>5. /\ backup' \in [Installations -> Values]
      /\ \A j \in Installations : backup'[j] # None => backup[j] # None
  BY <1>0 DEF TypeOK, Values
<1>6. TypeOK' BY <1>0, <1>2, <1>3, <1>4, <1>5, FoundsStay DEF TypeOK
<1>7. ASSUME NEW j \in Installations PROVE RowOK(j)' /\ TransactionOK(j)' /\ ProcessOK(j)'
  <2>1. RowOK(j)' /\ TransactionOK(j)' /\ ProcessOK(j)
    BY <1>0, RowStays, TransactionStays DEF Common
  <2>2. CASE j = i
    <3>1. ProcessOK(i)' BY <1>0, <1>2, <1>4, <1>5 DEF ProcessOK, Alone
    <3> QED BY <2>1, <2>2, <3>1
  <2>3. CASE j # i
    <3>1. mem[j].pc = "down" BY <1>0, <2>3 DEF ProcessOK, Alone
    <3>2. ProcessOK(j)' BY <1>0, <1>2, <1>4, <1>5, <2>1, <2>3, <3>1 DEF ProcessOK
    <3> QED BY <2>1, <3>2
  <2> QED BY <2>2, <2>3
<1> QED BY <1>6, <1>7 DEF Common

LEMMA CommonCrash ==
  ASSUME Common, NEW i \in Installations, Crash(i)
  PROVE  Common'
<1>0. /\ TypeOK /\ kind' = kind /\ place' = place /\ row' = row /\ txn' = txn /\ backup' = backup
      /\ history' = history /\ mem' = [mem EXCEPT ![i] = Down] /\ mem[i].pc # "down" /\ ProcessOK(i)
  BY DEF Common, Crash
<1>1. /\ mem' \in [Installations -> Memories] /\ mem'[i] = [pc |-> "down", code |-> None]
      /\ \A j \in Installations \ {i} : mem'[j] = mem[j]
  BY <1>0 DEF TypeOK, Memories, Down
<1>2. TypeOK' BY <1>0, <1>1, PlaceStays, FoundsStay DEF TypeOK
<1>3. ASSUME NEW j \in Installations PROVE RowOK(j)' /\ TransactionOK(j)' /\ ProcessOK(j)'
  <2>1. RowOK(j)' /\ TransactionOK(j)' /\ ProcessOK(j)
    BY <1>0, RowStays, TransactionStays DEF Common
  <2>2. ProcessOK(j)'
    <3>1. mem'[j].pc = "down" /\ mem'[j].code = None
      <4>1. CASE j = i BY <1>1, <4>1
      <4>2. CASE j # i
        <5>1. mem[j].pc = "down" BY <1>0, <4>2 DEF ProcessOK, Alone
        <5>2. mem[j].code = None BY <2>1, <5>1 DEF ProcessOK
        <5> QED BY <1>1, <4>2, <5>1, <5>2
      <4> QED BY <4>1, <4>2
    <3> QED BY <1>0, <2>1, <3>1 DEF ProcessOK
  <2> QED BY <2>1, <2>2
<1> QED BY <1>2, <1>3 DEF Common

LEMMA CommonRecover ==
  ASSUME Common, NEW i \in Installations, Recover(i)
  PROVE  Common'
<1>0. /\ TypeOK /\ kind' = kind /\ place' = place /\ row' = row /\ backup' = backup /\ history' = history
      /\ mem[i].pc = "down" /\ txn[i] # None /\ Alone(i) /\ txn[i] \in Transactions
      /\ TransactionOK(i) /\ ProcessOK(i)
  <2>1. TypeOK /\ txn[i] # None /\ TransactionOK(i) /\ ProcessOK(i) BY DEF Common, Recover
  <2>2. txn[i] \in Transactions BY <2>1 DEF TypeOK
  <2> QED BY <2>1, <2>2 DEF Recover
<1>1. PICK forward \in BOOLEAN :
        /\ forward => txn[i].state = "running"
        /\ mem' = [mem EXCEPT ![i].pc = IF forward THEN "walk" ELSE "reverse"]
        /\ txn' = IF forward THEN txn ELSE [txn EXCEPT ![i].state = "rolling_back"]
  BY DEF Recover
<1> DEFINE t == [op |-> txn[i].op, state |-> IF forward THEN "running" ELSE "rolling_back",
                 at |-> txn[i].at, undo |-> txn[i].undo, code |-> txn[i].code]
<1>2. /\ txn' \in [Installations -> Transactions \cup {None}] /\ txn'[i] = t
      /\ \A j \in Installations \ {i} : txn'[j] = txn[j]
  <2>1. t \in Transactions BY <1>0 DEF Transactions
  <2>2. CASE forward BY <1>0, <1>1, <2>2 DEF TypeOK, Transactions
  <2>3. CASE ~forward
    <3>1. txn' = [txn EXCEPT ![i].state = "rolling_back"] BY <1>1, <2>3
    <3>2. txn'[i] = t BY <1>0, <2>3, <3>1 DEF TypeOK, Transactions
    <3> QED BY <1>0, <2>1, <3>1, <3>2 DEF TypeOK
  <2> QED BY <2>2, <2>3
<1>3. /\ t.op = txn[i].op /\ t.state = (IF forward THEN "running" ELSE "rolling_back") /\ t.at = txn[i].at
      /\ t.undo = txn[i].undo /\ t.code = txn[i].code /\ t # None
  <2>1. t \in Transactions BY <1>0 DEF Transactions
  <2> QED BY <2>1, NothingElse
<1> HIDE DEF t
<1>4. /\ mem' \in [Installations -> Memories]
      /\ mem'[i] = [pc |-> IF forward THEN "walk" ELSE "reverse", code |-> mem[i].code]
      /\ \A j \in Installations \ {i} : mem'[j] = mem[j]
  BY <1>0, <1>1 DEF TypeOK, Memories
<1>5. TypeOK' BY <1>0, <1>2, <1>4, PlaceStays, FoundsStay DEF TypeOK
<1>6. mem[i].code = None BY <1>0 DEF ProcessOK
<1>7. ASSUME NEW j \in Installations PROVE RowOK(j)' /\ TransactionOK(j)' /\ ProcessOK(j)'
  <2>1. RowOK(j)' /\ TransactionOK(j) /\ ProcessOK(j) BY <1>0, RowStays DEF Common
  <2>2. CASE j = i
    <3>1. TransactionOK(i)' BY <1>0, <1>2, <1>3, TransactionMoves DEF TransactionOK
    <3>2. ProcessOK(i)' BY <1>0, <1>1, <1>2, <1>3, <1>4, <1>6 DEF ProcessOK, Alone
    <3> QED BY <2>1, <2>2, <3>1, <3>2
  <2>3. CASE j # i
    <3>1. TransactionOK(j)' BY <1>0, <1>2, <2>1, <2>3, TransactionStays
    <3>2. mem[j].pc = "down" BY <1>0, <2>3 DEF Alone
    <3>3. \A k \in Installations : txn'[k] = None <=> txn[k] = None BY <1>0, <1>2, <1>3
    <3>4. ProcessOK(j)' BY <1>0, <1>2, <1>4, <2>1, <2>3, <3>2, <3>3 DEF ProcessOK
    <3> QED BY <2>1, <3>1, <3>4
  <2> QED BY <2>2, <2>3
<1> QED BY <1>5, <1>7 DEF Common

(***************************************************************************)
(* What other people do to a profile.                                       *)
(***************************************************************************)

\* Two texts of one length whose blocks have the same markers.
LEMMA LineAdded ==
  ASSUME NEW text \in Seq(Tokens), Single(text), NEW line \in Texts
  PROVE  LET next == text \o <<line, NewLine>>
         IN  next \in Seq(Tokens) /\ Single(next) /\ (Tidy(text) => Tidy(next))
<1> DEFINE next == text \o <<line, NewLine>>
           n == Len(text)
<1>1. line \in Tokens /\ NewLine \in Tokens /\ ~IsBlock(line) /\ ~IsBlock(NewLine)
  BY DEF Tokens, IsBlock
<1>2. /\ next \in Seq(Tokens) /\ Len(next) = n + 2 /\ n \in Nat
      /\ \A j \in 1..n : next[j] = text[j]
      /\ next[n + 1] = line /\ next[n + 2] = NewLine
      /\ DOMAIN text = 1..n /\ DOMAIN next = 1..(n + 2)
  BY <1>1
<1> HIDE DEF next, n
<1>3. \A j \in 1..(n + 2) : IsBlock(next[j]) => j \in 1..n
  <2> SUFFICES ASSUME NEW j \in 1..(n + 2), j \notin 1..n PROVE ~IsBlock(next[j]) OBVIOUS
  <2>1. j = n + 1 \/ j = n + 2 BY <1>2
  <2> QED BY <1>1, <1>2, <2>1
<1>4. Single(next) BY <1>2, <1>3 DEF Single
<1>5. Tidy(text) => Tidy(next)
  <2>1. /\ Len(next) = Len(text) + 0 + 2 /\ next[Len(text) + 0 + 2] = NewLine
        /\ \A j \in 1..Len(text) : next[j] = text[j]
        /\ \A j \in 1..0 : next[Len(text) + j] = NewLine
    BY <1>2 DEF n
  <2> QED BY <1>1, <1>2, <2>1, AppendTidy
<1> QED BY <1>2, <1>4, <1>5 DEF next

LEMMA BlockChanged ==
  ASSUME NEW text \in Seq(Tokens), Single(text), NEW k \in DOMAIN text, IsBlock(text[k]),
         NEW what \in {Edited, Damaged}
  PROVE  LET next == [text EXCEPT ![k].text = what]
         IN  next \in Seq(Tokens) /\ Single(next) /\ (Tidy(text) => Tidy(next))
<1> DEFINE b == Block(text[k].marker, what)
           next == [text EXCEPT ![k].text = what]
<1>1. k \in 1..Len(text) /\ text[k] \in Tokens /\ text[k] # NewLine BY DEF IsBlock
<1>2. text[k] \in Blocks BY <1>1, TokenKinds
<1>3. [text[k] EXCEPT !.text = what] = b /\ text[k].marker \in Installations \cup {"product"}
  BY <1>2 DEF Blocks, Block
<1>4. next = [text EXCEPT ![k] = b] BY <1>3
<1>5. b \in Tokens /\ IsBlock(b) /\ b.marker = text[k].marker BY <1>3, BlockToken
<1> HIDE DEF b
<1>6. /\ [text EXCEPT ![k] = b] \in Seq(Tokens) /\ Single([text EXCEPT ![k] = b])
  <2> DEFINE x == [text EXCEPT ![k] = b]
  <2>1. /\ x \in Seq(Tokens) /\ DOMAIN x = DOMAIN text /\ x[k] = b
        /\ \A j \in DOMAIN text : j # k => x[j] = text[j]
    BY <1>1, <1>5
  <2> HIDE DEF x
  <2>2. Single(x) BY <1>5, <2>1 DEF Single
  <2> QED BY <2>1, <2>2 DEF x
<1>7. Tidy(text) => Tidy([text EXCEPT ![k] = b]) BY <1>1, <1>5, PutOverTidy
<1> QED BY <1>4, <1>6, <1>7

\* A block or a blank line cut away.
LEMMA BlockCut ==
  ASSUME NEW text \in Seq(Tokens), Single(text), NEW k \in DOMAIN text, IsBlock(text[k])
  PROVE  LET next == SubSeq(text, 1, k - 1) \o SubSeq(text, k + 2, Len(text))
         IN  next \in Seq(Tokens) /\ Single(next) /\ (Tidy(text) => Tidy(next))
<1> DEFINE n == Len(text)
<1>1. k \in 1..n /\ n \in Nat /\ text[k] # NewLine BY DEF IsBlock
<1>2. CASE k = n
  <2>1. SubSeq(text, n + 2, n) = <<>> /\ SubSeq(text, n + 1, n) = <<>> BY <1>1
  <2>2. SubSeq(text, k + 2, n) = SubSeq(text, k + 1, n) BY <1>2, <2>1
  <2>3. ~Tidy(text) BY <1>1, <1>2 DEF Tidy, Finished
  <2>4. k - 1 \in 0..n /\ k + 1 \in ((k - 1) + 1)..(n + 1) BY <1>1
  <2>5. /\ SubSeq(text, 1, k - 1) \o SubSeq(text, k + 1, n) \in Seq(Tokens)
        /\ Single(SubSeq(text, 1, k - 1) \o SubSeq(text, k + 1, n))
    BY <2>4, CutOut, CutSingle
  <2> QED BY <2>2, <2>3, <2>5
<1>3. CASE k # n
  <2>1. k - 1 \in 0..n /\ k + 2 \in ((k - 1) + 1)..(n + 1) BY <1>1, <1>3
  <2>2. /\ SubSeq(text, 1, k - 1) \o SubSeq(text, k + 2, n) \in Seq(Tokens)
        /\ Single(SubSeq(text, 1, k - 1) \o SubSeq(text, k + 2, n))
    BY <2>1, CutOut, CutSingle
  <2>3. Tidy(text) => k - 1 = 0 \/ text[k - 1] = NewLine
    <3>1. Tidy(text) => k = 1 \/ text[k - 1] = NewLine BY <1>1, Neighbours DEF Tidy
    <3> QED BY <3>1
  <2>4. Tidy(text) => Tidy(SubSeq(text, 1, k - 1) \o SubSeq(text, k + 2, n))
    BY <2>1, <2>3, CutTidy
  <2> QED BY <2>2, <2>4
<1> QED BY <1>2, <1>3

LEMMA BreakCut ==
  ASSUME NEW text \in Seq(Tokens), Single(text), NEW k \in DOMAIN text, k > 1, text[k - 1] = NewLine
  PROVE  LET next == SubSeq(text, 1, k - 1) \o SubSeq(text, k + 1, Len(text))
         IN  next \in Seq(Tokens) /\ Single(next) /\ (Tidy(text) => Tidy(next))
<1> DEFINE n == Len(text)
<1>1. k \in 1..n /\ n \in Nat OBVIOUS
<1>2. k - 1 \in 0..n /\ k + 1 \in ((k - 1) + 1)..(n + 1) BY <1>1
<1>3. /\ SubSeq(text, 1, k - 1) \o SubSeq(text, k + 1, n) \in Seq(Tokens)
      /\ Single(SubSeq(text, 1, k - 1) \o SubSeq(text, k + 1, n))
  BY <1>2, CutOut, CutSingle
<1>4. Tidy(text) => Tidy(SubSeq(text, 1, k - 1) \o SubSeq(text, k + 1, n)) BY <1>2, CutTidy
<1> QED BY <1>3, <1>4

\* A profile that somebody edited.
LEMMA Edits ==
  ASSUME TypeOK, IsProfile, EditProfile
  PROVE  /\ WellFormed(place') /\ (Tidy(TextOf(place)) => Tidy(TextOf(place')))
         /\ place' # place
         /\ \E next : Change(next)
<1> DEFINE text == TextOf(place)
<1>1. /\ WellFormed(place) /\ text \in Seq(Tokens) /\ Single(text) /\ None \notin Seq(Tokens)
      /\ place = [dir |-> place.dir, file |-> place.file, access |-> place.access]
      /\ place.dir \in BOOLEAN /\ place.access \in {"free", "readonly", "locked"}
      /\ place.file # None => place.dir
  BY KindsOfPlace, ProfileParts
<1>2. \A next : Change(next) => place' = next /\ next # place /\ \E x : Change(x)
  BY DEF Change
<1>3. ASSUME NEW next, next \in Seq(Tokens), Single(next), Tidy(text) => Tidy(next),
             Change([dir |-> TRUE, file |-> next, access |-> place.access])
      PROVE  /\ WellFormed(place') /\ (Tidy(text) => Tidy(TextOf(place')))
             /\ place' # place /\ \E x : Change(x)
  <2> DEFINE q == [dir |-> TRUE, file |-> next, access |-> place.access]
  <2>1. place' = q /\ q # place /\ \E x : Change(x) BY <1>2, <1>3
  <2>2. q = [dir |-> TRUE, file |-> next, access |-> place.access] OBVIOUS
  <2> HIDE DEF q
  <2>3. q.file # None /\ TextOf(q) = next /\ q.dir BY <1>1, <1>3, <2>2 DEF TextOf
  <2>4. q \in Profiles BY <1>1, <1>3, <2>2 DEF Profiles
  <2>5. WellFormed(q) BY <1>3, <2>3, <2>4 DEF WellFormed
  <2> QED BY <1>3, <2>1, <2>3, <2>5
<1> HIDE DEF text
<1>4. ASSUME ~Unbroken(place), NEW line \in Texts,
             Change([dir |-> TRUE, file |-> text \o <<line, NewLine>>, access |-> place.access])
      PROVE  WellFormed(place') /\ (Tidy(text) => Tidy(TextOf(place'))) /\ place' # place /\ \E x : Change(x)
  BY <1>1, <1>3, <1>4, LineAdded
<1>5. ASSUME NEW k \in DOMAIN text, IsBlock(text[k]), NEW what \in {Edited, Damaged},
             Change([dir |-> TRUE, file |-> [text EXCEPT ![k].text = what], access |-> place.access])
      PROVE  WellFormed(place') /\ (Tidy(text) => Tidy(TextOf(place'))) /\ place' # place /\ \E x : Change(x)
  <2> DEFINE next == [text EXCEPT ![k].text = what]
  <2>1. next \in Seq(Tokens) /\ Single(next) /\ (Tidy(text) => Tidy(next))
    BY <1>1, <1>5, BlockChanged
  <2>2. Change([dir |-> TRUE, file |-> next, access |-> place.access]) BY <1>5
  <2> HIDE DEF next
  <2> QED BY <1>3, <2>1, <2>2
<1>6. ASSUME NEW k \in DOMAIN text, IsBlock(text[k]),
             Change([dir |-> TRUE, file |-> SubSeq(text, 1, k - 1) \o SubSeq(text, k + 2, Len(text)), access |-> place.access])
      PROVE  WellFormed(place') /\ (Tidy(text) => Tidy(TextOf(place'))) /\ place' # place /\ \E x : Change(x)
  BY <1>1, <1>3, <1>6, BlockCut
<1>7. ASSUME NEW k \in DOMAIN text, k > 1, text[k] = NewLine, text[k - 1] = NewLine,
             Change([dir |-> TRUE, file |-> SubSeq(text, 1, k - 1) \o SubSeq(text, k + 1, Len(text)), access |-> place.access])
      PROVE  WellFormed(place') /\ (Tidy(text) => Tidy(TextOf(place'))) /\ place' # place /\ \E x : Change(x)
  BY <1>1, <1>3, <1>7, BreakCut
<1>8. ASSUME place.file # None, Change([dir |-> place.dir, file |-> None, access |-> "free"])
      PROVE  WellFormed(place') /\ (Tidy(text) => Tidy(TextOf(place'))) /\ place' # place /\ \E x : Change(x)
  <2> DEFINE q == [dir |-> place.dir, file |-> None, access |-> "free"]
  <2>1. place' = q /\ q # place /\ \E x : Change(x) BY <1>2, <1>8
  <2>2. q = [dir |-> place.dir, file |-> None, access |-> "free"] OBVIOUS
  <2> HIDE DEF q
  <2>3. TextOf(q) = <<>> /\ q.file = None /\ q.access = "free" BY <2>2 DEF TextOf
  <2>4. Single(<<>>) /\ Tidy(<<>>) BY DEF Single, Tidy, Separate, Finished
  <2>5. q \in Profiles BY <1>1, <2>2 DEF Profiles
  <2>6. WellFormed(q) BY <2>3, <2>4, <2>5 DEF WellFormed
  <2> QED BY <2>1, <2>3, <2>4, <2>6
<1>9. ASSUME place.file # None, NEW access \in {"free", "readonly", "locked"},
             Change([place EXCEPT !.access = access])
      PROVE  WellFormed(place') /\ (Tidy(text) => Tidy(TextOf(place'))) /\ place' # place /\ \E x : Change(x)
  <2> DEFINE q == [place EXCEPT !.access = access]
  <2>1. place' = q /\ q # place /\ \E x : Change(x) BY <1>2, <1>9
  <2>2. q = [dir |-> place.dir, file |-> place.file, access |-> access]
    <3>1. place \in [dir : BOOLEAN, file : Seq(Tokens) \cup {None}, access : {"free", "readonly", "locked"}]
      BY <1>1 DEF WellFormed, Profiles
    <3> QED BY <3>1
  <2> HIDE DEF q
  <2>3. TextOf(q) = text /\ q.file # None /\ q.dir BY <1>1, <1>9, <2>2 DEF TextOf, text
  <2>4. place \in Profiles /\ Single(text) BY <1>1 DEF WellFormed
  <2>5. q \in Profiles BY <2>2, <2>4 DEF Profiles
  <2>6. WellFormed(q) BY <2>3, <2>4, <2>5 DEF WellFormed
  <2> QED BY <2>1, <2>3, <2>6
<1>10. \/ ~Unbroken(place) /\ \E line \in Texts :
            Change([dir |-> TRUE, file |-> text \o <<line, NewLine>>, access |-> place.access])
       \/ \E k \in DOMAIN text : IsBlock(text[k]) /\ \E what \in {Edited, Damaged} :
            Change([dir |-> TRUE, file |-> [text EXCEPT ![k].text = what], access |-> place.access])
       \/ \E k \in DOMAIN text : IsBlock(text[k]) /\
            Change([dir |-> TRUE, file |-> SubSeq(text, 1, k - 1) \o SubSeq(text, k + 2, Len(text)), access |-> place.access])
       \/ \E k \in DOMAIN text : k > 1 /\ text[k] = NewLine /\ text[k - 1] = NewLine /\
            Change([dir |-> TRUE, file |-> SubSeq(text, 1, k - 1) \o SubSeq(text, k + 1, Len(text)), access |-> place.access])
       \/ place.file # None /\ Change([dir |-> place.dir, file |-> None, access |-> "free"])
       \/ place.file # None /\ \E access \in {"free", "readonly", "locked"} :
            Change([place EXCEPT !.access = access])
  BY DEF EditProfile, text
<1>11. WellFormed(place') /\ (Tidy(text) => Tidy(TextOf(place'))) /\ place' # place /\ \E x : Change(x)
  <2> HIDE DEF Change
  <2> QED BY <1>4, <1>5, <1>6, <1>7, <1>8, <1>9, <1>10
<1> QED BY <1>11 DEF text

\* What others do changes the place, and nothing is known of it from before.
LEMMA OthersIs ==
  ASSUME Common, Others
  PROVE  /\ kind' = kind /\ row' = row /\ txn' = txn /\ backup' = backup /\ mem' = mem /\ Exposed
         /\ place' # place /\ place' \in Places /\ (IsProfile => WellFormed(place'))
         /\ IsProfile => (Tidy(TextOf(place)) => Tidy(TextOf(place')))
         /\ history' \in Histories /\ history'.found = None
         /\ \A j \in Installations : history'.before[j] = None
         /\ (IsProfile /\ history.found # None) => (Unended \/ ~Unbroken(history.found[1]))
<1>1. TypeOK BY DEF Common
<1>2. \E next : Change(next) /\ next \in Places
                /\ (IsProfile => WellFormed(next) /\ (Tidy(TextOf(place)) => Tidy(TextOf(next))))
  <2>1. CASE IsProfile
    <3>1. EditProfile BY <2>1 DEF Others, IsProfile
    <3>2. PICK next : Change(next) BY <1>1, <2>1, <3>1, Edits
    <3>3. place' = next BY <3>2 DEF Change
    <3>4. WellFormed(next) /\ (Tidy(TextOf(place)) => Tidy(TextOf(next)))
      BY <1>1, <2>1, <3>1, <3>3, Edits
    <3>5. next \in Places BY <1>1, <2>1, <3>4, KindsOfPlace DEF WellFormed
    <3> QED BY <3>2, <3>4, <3>5
  <2>2. CASE kind = "firewall"
    <3>1. Places = Seq(Rules) /\ place \in Seq(Rules) /\ ~IsProfile
      BY <1>1, <2>2, KindsOfPlace
    <3>2. \/ Change(Append(place, Stranger))
          \/ place # <<>> /\ Change(Tail(place))
          \/ place # <<>> /\ Change([place EXCEPT ![1] = Edited])
      BY <2>2, <3>1 DEF Others
    <3>3. /\ Append(place, Stranger) \in Seq(Rules) /\ (place # <<>> => Tail(place) \in Seq(Rules))
      BY <3>1 DEF Rules
    <3>4. place # <<>> => [place EXCEPT ![1] = Edited] \in Seq(Rules)
      <4>1. Edited \in Rules /\ (place # <<>> => 1 \in 1..Len(place)) BY <3>1 DEF Rules
      <4> QED BY <3>1, <4>1, ExceptSeq
    <3> QED BY <3>1, <3>2, <3>3, <3>4
  <2>3. CASE kind \in {"shortcut", "environment"}
    <3>1. Places = Values /\ ~IsProfile BY <1>1, <2>3, KindsOfPlace
    <3>2. \E next \in {None, Stranger} : Change(next) BY <2>3, <3>1 DEF Others
    <3> QED BY <3>1, <3>2 DEF Values
  <2> QED BY <1>1, <2>1, <2>2, <2>3, KindsOfPlace
<1>3. PICK next : Change(next) /\ next \in Places
                  /\ (IsProfile => WellFormed(next) /\ (Tidy(TextOf(place)) => Tidy(TextOf(next))))
  BY <1>2
<1>4. /\ kind' = kind /\ row' = row /\ txn' = txn /\ backup' = backup /\ mem' = mem
      /\ place' = next /\ next # place
  BY <1>3 DEF Change
<1>5. /\ history' \in Histories /\ history'.found = None
      /\ \A j \in Installations : history'.before[j] = None
  <2> DEFINE b == [i \in Installations |-> None]
  <2>1. history \in [found : Founds, events : Nat, ran : SUBSET Installations,
                     before : [Installations -> Founds]] /\ None \in Founds
    BY <1>1 DEF TypeOK, Histories, Founds
  <2>2. history' = [history EXCEPT !.found = None, !.events = history.events + 1, !.ran = {}, !.before = b]
    BY <1>3 DEF Change
  <2>3. b \in [Installations -> Founds] /\ \A j \in Installations : b[j] = None BY <2>1
  <2> HIDE DEF b
  <2>4. history' = [found |-> None, events |-> history.events + 1, ran |-> {}, before |-> b]
    BY <2>1, <2>2
  <2> QED BY <2>1, <2>3, <2>4 DEF Histories
<1>6. Exposed /\ ((IsProfile /\ history.found # None) => (Unended \/ ~Unbroken(history.found[1])))
  BY DEF Others
<1> QED BY <1>3, <1>4, <1>5, <1>6

LEMMA CommonOthers ==
  ASSUME Common, Others
  PROVE  Common'
<1>1. /\ TypeOK /\ kind' = kind /\ row' = row /\ txn' = txn /\ backup' = backup /\ mem' = mem
      /\ place' \in Places /\ (IsProfile => WellFormed(place')) /\ history' \in Histories
      /\ \A j \in Installations : history'.before[j] = None
  BY OthersIs DEF Common
<1>2. TypeOK' BY <1>1, PlaceChanges, FoundsStay DEF TypeOK
<1>3. ASSUME NEW j \in Installations PROVE RowOK(j)' /\ TransactionOK(j)' /\ ProcessOK(j)'
  <2>1. RowOK(j)' /\ TransactionOK(j)' /\ ProcessOK(j)
    BY <1>1, RowStays, TransactionStays DEF Common
  <2>2. ProcessOK(j)' BY <1>1, <2>1 DEF ProcessOK, Alone
  <2> QED BY <2>1, <2>2
<1> QED BY <1>2, <1>3 DEF Common

LEMMA CommonStutter ==
  ASSUME Common, UNCHANGED vars
  PROVE  Common'
<1>1. /\ TypeOK /\ kind' = kind /\ place' = place /\ row' = row /\ txn' = txn /\ backup' = backup
      /\ mem' = mem /\ history' = history
  BY DEF Common, vars
<1>2. TypeOK' BY <1>1, PlaceStays, FoundsStay DEF TypeOK
<1>3. ASSUME NEW j \in Installations PROVE RowOK(j)' /\ TransactionOK(j)' /\ ProcessOK(j)'
  <2>1. RowOK(j)' /\ TransactionOK(j)' /\ ProcessOK(j)
    BY <1>1, RowStays, TransactionStays DEF Common
  <2>2. ProcessOK(j)' BY <1>1, <2>1 DEF ProcessOK, Alone
  <2> QED BY <2>1, <2>2
<1> QED BY <1>2, <1>3 DEF Common

LEMMA CommonStep ==
  ASSUME Common, [Next]_vars
  PROVE  Common'
<1>1. ASSUME NEW i \in Installations, EngineStep(i) PROVE Common'
  BY <1>1, CommonBegin, CommonPrepare, CommonKeepPrevious, CommonMutate, CommonMark, CommonCommit,
     CommonFail, CommonUndo, CommonFinishRollback, CommonCrash, CommonRecover DEF EngineStep
<1>2. CASE Others BY <1>2, CommonOthers
<1>3. CASE UNCHANGED vars BY <1>3, CommonStutter
<1> QED BY <1>1, <1>2, <1>3 DEF Next

\* The state has its shape, the processes keep the executor's protocol, and
\* what is owned and removed is an installation's own, whatever the runs,
\* crashes and recoveries of any number of installations.
THEOREM ResourcesProtocol == Spec => []Common
<1>1. Init => Common BY CommonInit
<1>2. Common /\ [Next]_vars => Common' BY CommonStep
<1> QED BY <1>1, <1>2, PTL DEF Spec

(***************************************************************************)
(* The undo record, while nobody else touches the place: what it says of    *)
(* the place before, and which places the attempts may have left.           *)
(***************************************************************************)

\* A link p: in its place, aside in the staging area, or given way to.
LinkStage(p, t, aside, pc, before) ==
  /\ t.at = "planned" => aside = None /\ (before # None => before = <<p>>)
  /\ t.at # "planned" =>
       /\ t.undo.existed <=> t.undo.previous # None
       /\ \/ p = t.undo.previous /\ (aside = None \/ t.state = "rolling_back")
          \/ aside = t.undo.previous /\ p \in {None, t.op.value}
       /\ aside # None => aside = t.undo.previous
       /\ pc = "undone" => p = t.undo.previous
       /\ before # None => before = <<t.undo.previous>>

\* A variable p: as it was, or as the operation writes it.
Written(t) == IF t.op.does = "put" THEN t.op.value ELSE t.op.origin[1]

VariableStage(p, t, pc, before) ==
  /\ t.at = "planned" =>
       /\ t.op.does = "remove" => p = t.op.value
       /\ before # None => before = <<p>>
  /\ t.at = "applying" \/ (t.at = "applied" /\ before # None) =>
       /\ p \in {t.undo.previous, Written(t)}
       /\ t.op.does = "remove" => t.undo.previous = t.op.value
       /\ pc = "undone" => p = t.undo.previous
       /\ before # None => before = <<t.undo.previous>>

\* The firewall rules p: the one there was, or the one put in its place.
Rules0(t) == IF t.undo.previous = None THEN <<>> ELSE <<t.undo.previous>>

RuleStage(p, t, pc, before, owned) ==
  /\ t.at = "planned" =>
       /\ t.op.does = "put" => p = <<>> \/ (Len(p) = 1 /\ owned)
       /\ t.op.does = "remove" => p = <<t.op.value>>
       /\ before # None => before = <<p>>
  /\ t.at = "applying" \/ (t.at = "applied" /\ before # None) =>
       /\ t.op.does = "put" => p \in {Rules0(t), <<t.op.value>>} /\ (t.undo.previous # None => owned)
       /\ t.op.does = "remove" => t.undo.previous = t.op.value /\ p \in {Rules0(t), <<>>}
       /\ pc = "undone" => p = Rules0(t)
       /\ before # None => before = <<Rules0(t)>>

\* A profile p that was b: as it was, with the block put, without the block
\* removed, or with it put back.
Alike(p, q) == TextsOf(p) = TextsOf(q) /\ BlocksOf(p) = BlocksOf(q) /\ p.dir = q.dir

Cut(b, m, t) == Without(b, m, t.op.origin.sep, t.op.origin.file, t.op.origin.dir)

BlockStage(p, t, code, pc, b, m) ==
  LET now == find(TextOf(b), m)
  IN  /\ WellFormed(b)
      /\ Writes(t.op) => ~Locked(b) /\ now # Damaged
      /\ t.op.does = "remove" => now = t.op.value
      /\ t.at = "planned" => p = b
      /\ t.at # "planned" =>
           /\ t.undo = [existed |-> b.file # None, dir |-> b.dir, previous |-> now]
           /\ "skipped" \in {code, t.code} => p = b
           /\ t.op.does = "put" =>
                /\ now = None => t.op.origin.sep = separator_for(TextOf(b))
                /\ p = b \/ (p = With(b, m, t.op.value) /\ b.access = "free")
                /\ pc = "undone" => p = b
           /\ t.op.does = "remove" =>
                /\ \/ p = b
                   \/ p = Cut(b, m, t) /\ b.access = "free"
                   \/ Alike(p, b) /\ find(TextOf(p), m) = now /\ t.state = "rolling_back"
                /\ pc = "undone" => Alike(p, b)

StageOK(i) ==
  txn[i] # None =>
    /\ kind = "shortcut" => LinkStage(place, txn[i], backup[i], mem[i].pc, history.before[i])
    /\ kind = "environment" => VariableStage(place, txn[i], mem[i].pc, history.before[i])
    /\ kind = "firewall" => RuleStage(place, txn[i], mem[i].pc, history.before[i], row[i] # None)
    /\ IsProfile /\ history.before[i] # None =>
         BlockStage(place, txn[i], mem[i].code, mem[i].pc, history.before[i][1], Marker(i))

Undoing == \A i \in Installations : StageOK(i)

\* A profile whose lines no separator ends.
FoundEnded ==
  \A k \in Kinds \cap {"profile", "shared"} : \A p \in Firsts[k] : Finished(TextOf(p))

EndedLines ==
  IsProfile =>
    /\ Tidy(TextOf(place))
    /\ \A i \in Installations :
         /\ row[i] # None => row[i].origin.sep # 2
         /\ txn[i] # None /\ txn[i].op.origin # None => txn[i].op.origin.sep # 2

(***************************************************************************)
(* Adding a block and taking it back, and taking one out and putting it     *)
(* back.                                                                    *)
(***************************************************************************)

\* The one way to write a profile with a block.
LEMMA WithIs ==
  ASSUME NEW p, WellFormed(p), NEW m, NEW c
  PROVE  With(p, m, c) = [dir |-> TRUE, file |-> with_block(TextOf(p), m, c), access |-> p.access]
<1> DEFINE next == with_block(TextOf(p), m, c)
<1>1. With(p, m, c) = [p EXCEPT !.dir = TRUE, !.file = next] BY DEF With
<1>2. p \in [dir : BOOLEAN, file : Seq(Tokens) \cup {None}, access : {"free", "readonly", "locked"}]
  BY DEF WellFormed, Profiles
<1> QED BY <1>1, <1>2

\* The block that is there, put again, is no change.
LEMMA PutAgain ==
  ASSUME NEW p, WellFormed(p), NEW m \in Installations \cup {"product"},
         NEW d \in Contents \cup {Edited}, find(TextOf(p), m) = d
  PROVE  With(p, m, d) = p
<1>1. /\ p = [dir |-> p.dir, file |-> p.file, access |-> p.access] /\ p.dir \in BOOLEAN
      /\ TextOf(p) \in Seq(Tokens) /\ Single(TextOf(p))
      /\ p.file # None => p.file = TextOf(p) /\ p.dir
      /\ p.file = None => TextOf(p) = <<>>
  BY ProfileParts
<1>2. d # None BY NothingElse
<1>3. p.file # None BY <1>1, <1>2, FindsNothing
<1>4. with_block(TextOf(p), m, d) = TextOf(p) BY <1>1, PutTwice
<1>5. With(p, m, d) = [dir |-> TRUE, file |-> TextOf(p), access |-> p.access]
  BY <1>4, WithIs
<1>6. p.dir = TRUE /\ p.file = TextOf(p) BY <1>1, <1>3
<1> QED BY <1>1, <1>5, <1>6

\* A block put over one there, and that one put back, whether the first put
\* happened or not.
LEMMA PutBackOver ==
  ASSUME NEW b, WellFormed(b), NEW m \in Installations \cup {"product"},
         NEW c \in Contents \cup {Edited}, NEW d \in Contents \cup {Edited},
         find(TextOf(b), m) = d, b.access = "free"
  PROVE  AddBlock(With(b, m, c), m, d).place = b
<1> DEFINE p == With(b, m, c)
<1>1. /\ WellFormed(p) /\ TextOf(p) = with_block(TextOf(b), m, c) /\ p.access = "free"
      /\ find(TextOf(p), m) = c
  BY WithBlock
<1>2. With(b, m, d) = b BY PutAgain
<1>3. With(p, m, d) = b
  <2>1. TextOf(b) \in Seq(Tokens) /\ Single(TextOf(b)) BY ProfileParts
  <2>2. with_block(TextOf(p), m, d) = with_block(TextOf(b), m, d) BY <1>1, <2>1, PutTwice
  <2>3. With(p, m, d) = [dir |-> TRUE, file |-> with_block(TextOf(b), m, d), access |-> "free"]
    BY <1>1, <2>2, WithIs
  <2>4. With(b, m, d) = [dir |-> TRUE, file |-> with_block(TextOf(b), m, d), access |-> "free"]
    BY WithIs
  <2> QED BY <1>2, <2>3, <2>4
<1>4. c = d => p = b BY <1>2
<1>5. c # Damaged BY ResourcesAssumption
<1> HIDE DEF p
<1>6. \/ AddBlock(p, m, d) = Outcome(p, "skipped") /\ (p.access # "free" \/ c = Damaged)
      \/ AddBlock(p, m, d) = Outcome(p, None) /\ c = d
      \/ AddBlock(p, m, d) = Outcome(With(p, m, d), None)
  BY <1>1, Adding
<1> QED BY <1>1, <1>3, <1>4, <1>5, <1>6 DEF Outcome, p

\* A block appended and taken out again.
LEMMA TakenBack ==
  ASSUME NEW b, WellFormed(b), NEW m \in Installations \cup {"product"},
         NEW c \in Contents \cup {Edited}, find(TextOf(b), m) = None, b.access = "free"
  PROVE  RemoveBlock(With(b, m, c), m, separator_for(TextOf(b)), b.file = None, ~b.dir).place = b
<1> DEFINE p   == With(b, m, c)
           sep == separator_for(TextOf(b))
           noFile == (b.file = None)
           noDir  == ~b.dir
<1>1. /\ WellFormed(p) /\ TextOf(p) = with_block(TextOf(b), m, c) /\ p.access = "free"
      /\ find(TextOf(p), m) = c /\ p.file # None
  BY WithBlock
<1>2. /\ b = [dir |-> b.dir, file |-> b.file, access |-> b.access] /\ b.dir \in BOOLEAN
      /\ TextOf(b) \in Seq(Tokens) /\ Single(TextOf(b))
      /\ b.file # None => b.file = TextOf(b) /\ b.dir
      /\ b.file = None => TextOf(b) = <<>>
  BY ProfileParts
<1>3. without_block(TextOf(p), m, sep) = TextOf(b) BY <1>1, <1>2, AppendedTakenOut
<1>4. p = [dir |-> TRUE, file |-> TextOf(p), access |-> "free"] BY <1>1, WithIs
<1>5. Without(p, m, sep, noFile, noDir) = b
  <2>1. CASE b.file = None
    <3>1. Without(p, m, sep, noFile, noDir) = [dir |-> ~noDir, file |-> None, access |-> "free"]
      BY <1>2, <1>3, <2>1 DEF Without
    <3>2. ~noDir = b.dir BY <1>2
    <3> QED BY <1>2, <2>1, <3>1, <3>2
  <2>2. CASE b.file # None
    <3> HIDE DEF p, sep
    <3>1. Without(p, m, sep, noFile, noDir) = [p EXCEPT !.file = TextOf(b)]
      BY <1>3, <2>2 DEF Without
    <3>2. [p EXCEPT !.file = TextOf(b)] = [dir |-> TRUE, file |-> TextOf(b), access |-> "free"]
      <4>1. [p EXCEPT !.file = TextOf(b)] = [dir |-> p.dir, file |-> TextOf(b), access |-> p.access]
        BY <1>1, ProfileParts, Fields
      <4>2. p.dir = TRUE /\ p.access = "free" BY <1>4
      <4> QED BY <4>1, <4>2
    <3>3. b.dir = TRUE /\ b.file = TextOf(b) BY <1>2, <2>2
    <3> QED BY <1>2, <3>1, <3>2, <3>3
  <2> QED BY <2>1, <2>2
<1>6. c \notin {None, Damaged} BY NothingElse, ResourcesAssumption
<1> HIDE DEF p, sep, noFile, noDir
<1>7. \/ RemoveBlock(p, m, sep, noFile, noDir) = Outcome(p, None) /\ c = None
      \/ RemoveBlock(p, m, sep, noFile, noDir) = Outcome(p, "skipped") /\ (p.access # "free" \/ c = Damaged)
      \/ RemoveBlock(p, m, sep, noFile, noDir) = Outcome(Without(p, m, sep, noFile, noDir), None)
  BY <1>1, Removing
<1>8. RemoveBlock(p, m, sep, noFile, noDir).place = b BY <1>1, <1>5, <1>6, <1>7 DEF Outcome
<1> QED BY <1>8 DEF p, sep, noFile, noDir

\* The blocks of a profile are those of others and the one of the marker.
LEMMA WithApart ==
  ASSUME NEW text \in Seq(Tokens), Single(text), NEW m, find(text, m) # None
  PROVE  BlocksIn(text) = Apart(text, m) \cup {Block(m, find(text, m))}
<1>1. /\ Position(text, m) \in 1..Len(text) /\ text[Position(text, m)] = Block(m, find(text, m))
      /\ IsBlock(text[Position(text, m)])
  BY Finds
<1>2. Block(m, find(text, m)) \in BlocksIn(text) BY <1>1 DEF BlocksIn, ToSet
<1>3. \A b \in BlocksIn(text) : b.marker = m => b = Block(m, find(text, m))
  <2> SUFFICES ASSUME NEW b \in BlocksIn(text), b.marker = m
               PROVE  b = Block(m, find(text, m))
    OBVIOUS
  <2>1. b \in Tokens /\ IsBlock(b) BY DEF BlocksIn, ToSet
  <2>2. b = Block(b.marker, b.text) BY <2>1, TokenKinds
  <2>3. find(text, m) = b.text BY Finds
  <2> QED BY <2>2, <2>3
<1> QED BY <1>2, <1>3 DEF Apart

\* A block taken out and put back may stand elsewhere.
LEMMA PutBackAfter ==
  ASSUME NEW b, WellFormed(b), NEW m \in Installations \cup {"product"},
         NEW d \in Contents \cup {Edited}, find(TextOf(b), m) = d, b.access = "free",
         NEW sep \in 0..2, NEW deleteFile \in BOOLEAN, NEW deleteDir \in BOOLEAN
  PROVE  LET q == AddBlock(Without(b, m, sep, deleteFile, deleteDir), m, d).place
         IN  Alike(q, b) /\ find(TextOf(q), m) = d
<1> DEFINE p == Without(b, m, sep, deleteFile, deleteDir)
           q == AddBlock(p, m, d).place
<1>1. d # None /\ d # Damaged BY NothingElse, ResourcesAssumption
<1>2. /\ WellFormed(p) /\ p.access = "free" /\ find(TextOf(p), m) = None
      /\ TextsOf(p) = TextsOf(b) /\ BlocksOf(p) = Apart(TextOf(b), m)
  BY <1>1, WithoutBlock
<1>3. /\ TextOf(b) \in Seq(Tokens) /\ Single(TextOf(b)) /\ (b.file # None => b.dir) /\ b.dir \in BOOLEAN
      /\ b.file = None => TextOf(b) = <<>>
  BY ProfileParts
<1> HIDE DEF p
<1>4. q = With(p, m, d)
  <2>1. \/ AddBlock(p, m, d) = Outcome(p, "skipped") /\ (p.access # "free" \/ None = Damaged)
        \/ AddBlock(p, m, d) = Outcome(p, None) /\ None = d
        \/ AddBlock(p, m, d) = Outcome(With(p, m, d), None)
    BY <1>2, Adding
  <2>2. None # Damaged BY NothingElse
  <2> QED BY <1>1, <1>2, <2>1, <2>2 DEF Outcome
<1> HIDE DEF q
<1>5. /\ find(TextOf(q), m) = d /\ TextsOf(q) = TextsOf(b)
      /\ BlocksOf(q) = Apart(TextOf(p), m) \cup {Block(m, d)}
  BY <1>2, <1>4, WithBlock
<1>6. q.dir = TRUE BY <1>2, <1>4, WithIs
<1>7. Apart(TextOf(p), m) = Apart(TextOf(b), m)
  <2>1. BlocksIn(TextOf(p)) = Apart(TextOf(b), m) BY <1>2 DEF BlocksOf
  <2> QED BY <2>1 DEF Apart
<1>8. BlocksOf(b) = Apart(TextOf(b), m) \cup {Block(m, d)}
  BY <1>1, <1>3, WithApart DEF BlocksOf
<1>9. b.dir = TRUE BY <1>1, <1>3, FindsNothing
<1> QED BY <1>5, <1>6, <1>7, <1>8, <1>9 DEF Alike, p, q

(***************************************************************************)
(* The steps of an installation, as the undo record sees them.              *)
(***************************************************************************)

\* A transaction begun, with the plan for the place as it is.
LEMMA BeginIs ==
  ASSUME Common, NEW i \in Installations, Begin(i)
  PROVE  /\ kind' = kind /\ place' = place /\ row' = row
         /\ \E want \in Own(i) \cup {None}, repair \in BOOLEAN :
              txn'[i] = [op |-> PlanOf(i, want, repair), state |-> "running", at |-> "planned",
                         undo |-> NoUndo, code |-> None]
         /\ backup'[i] = None /\ history'.before[i] = <<place>> /\ <<place>> # None
         /\ \A j \in Installations \ {i} :
              /\ txn'[j] = txn[j] /\ mem'[j] = mem[j] /\ backup'[j] = backup[j]
              /\ history'.before[j] = history.before[j]
<1>1. kind' = kind /\ place' = place /\ row' = row /\ TypeOK BY DEF Begin, Common
<1>2. PICK want \in Own(i) \cup {None}, repair \in BOOLEAN :
        txn' = [txn EXCEPT ![i] = [op |-> PlanOf(i, want, repair), state |-> "running",
                                   at |-> "planned", undo |-> NoUndo, code |-> None]]
  BY DEF Begin
<1> DEFINE t == [op |-> PlanOf(i, want, repair), state |-> "running", at |-> "planned",
                 undo |-> NoUndo, code |-> None]
<1>3. txn' = [txn EXCEPT ![i] = t] BY <1>2
<1>4. <<place>> # None BY <1>1, FoundsStay DEF TypeOK, PlaceOK
<1>5. txn'[i] = t /\ \A j \in Installations \ {i} : txn'[j] = txn[j]
  <2> HIDE DEF t
  <2> QED BY <1>1, <1>3 DEF TypeOK
<1>6. /\ backup'[i] = None /\ \A j \in Installations \ {i} : backup'[j] = backup[j]
      /\ \A j \in Installations \ {i} : mem'[j] = mem[j]
  BY <1>1 DEF TypeOK, Begin
<1>7. history'.before[i] = <<place>> /\ \A j \in Installations \ {i} : history'.before[j] = history.before[j]
  <2>1. history' = [history EXCEPT !.before[i] = <<place>>, !.events = history.events + 1]
    BY DEF Begin
  <2>2. history \in [found : Founds, events : Nat, ran : SUBSET Installations,
                     before : [Installations -> Founds]]
    BY <1>1 DEF TypeOK, Histories
  <2>3. history'.before = [history.before EXCEPT ![i] = <<place>>] BY <2>1, <2>2
  <2> QED BY <2>2, <2>3
<1> QED BY <1>1, <1>4, <1>5, <1>6, <1>7

\* The record made; nothing else moves.
LEMMA PrepareMoves ==
  ASSUME Common, NEW i \in Installations, Prepare(i)
  PROVE  /\ kind' = kind /\ place' = place /\ row' = row /\ backup' = backup /\ mem' = mem
         /\ history' = history /\ txn[i] \in Transactions /\ mem[i].pc = "walk" /\ mem[i].code = None
         /\ txn[i].at = "planned" /\ Writes(txn[i].op) /\ txn[i].state = "running" /\ txn[i].code = None
         /\ txn'[i].op.does = txn[i].op.does /\ txn'[i].op.value = txn[i].op.value
         /\ txn'[i].op.origin = OriginOf(txn[i].op, UndoOf(i))
         /\ txn'[i].at = "applying" /\ txn'[i].undo = UndoOf(i) /\ txn'[i].code = None
         /\ txn'[i].state = "running"
         /\ \A j \in Installations \ {i} : txn'[j] = txn[j]
<1> DEFINE o == OriginOf(txn[i].op, UndoOf(i))
           u == UndoOf(i)
<1>1. /\ txn[i] \in Transactions
      /\ txn' = [txn EXCEPT ![i] =
           [op |-> [does |-> txn[i].op.does, value |-> txn[i].op.value, origin |-> o],
            state |-> txn[i].state, at |-> "applying", undo |-> u, code |-> txn[i].code]]
  BY PrepareIs
<1> HIDE DEF o, u
<1>2. /\ kind' = kind /\ place' = place /\ row' = row /\ backup' = backup /\ mem' = mem
      /\ history' = history /\ mem[i].pc = "walk" /\ txn[i].at = "planned" /\ Writes(txn[i].op)
  BY DEF Prepare, Walking
<1>3. mem[i].code = None /\ txn[i].state = "running" /\ txn[i].code = None
  <2>1. ProcessOK(i) /\ TransactionOK(i) /\ txn[i] # None BY <1>1, NothingElse DEF Common
  <2> QED BY <1>2, <2>1 DEF ProcessOK, TransactionOK
<1>4. txn \in [Installations -> Transactions \cup {None}] BY DEF Common, TypeOK
<1>5. /\ txn'[i] = [op |-> [does |-> txn[i].op.does, value |-> txn[i].op.value, origin |-> o],
                    state |-> txn[i].state, at |-> "applying", undo |-> u, code |-> txn[i].code]
      /\ \A j \in Installations \ {i} : txn'[j] = txn[j]
  BY <1>1, <1>4
<1> QED BY <1>1, <1>2, <1>3, <1>5 DEF o, u

\* The mutation.
LEMMA MutateIs ==
  ASSUME Common, NEW i \in Installations, Mutate(i)
  PROVE  /\ kind' = kind /\ row' = row /\ txn' = txn /\ backup' = backup /\ Touch(i, Mutated(i).place)
         /\ mem[i].pc = "walk" /\ txn[i] # None /\ txn[i].at = "applying" /\ txn[i].state = "running"
         /\ txn[i] \in Transactions /\ Writes(txn[i].op) /\ txn[i].code = None /\ ~ToBackUp(i)
         /\ place' = Mutated(i).place /\ history'.before[i] = history.before[i]
         /\ mem'[i].pc = "mutated" /\ mem'[i].code = Mutated(i).code
         /\ \A j \in Installations \ {i} : mem'[j] = mem[j]
<1>1. /\ kind' = kind /\ row' = row /\ txn' = txn /\ backup' = backup /\ Touch(i, Mutated(i).place)
      /\ mem[i].pc = "walk" /\ txn[i].at = "applying" /\ ~ToBackUp(i) /\ TypeOK
      /\ TransactionOK(i) /\ ProcessOK(i)
  BY DEF Mutate, Walking, Common
<1>2. txn[i] # None /\ txn[i].state = "running" BY <1>1 DEF ProcessOK
<1>3. txn[i] \in Transactions /\ Writes(txn[i].op) /\ txn[i].code = None
  BY <1>1, <1>2 DEF TypeOK, TransactionOK
<1> DEFINE code == Mutated(i).code
<1>4. mem' = [mem EXCEPT ![i].pc = "mutated", ![i].code = code] BY DEF Mutate
<1>5. place' = Mutated(i).place /\ history'.before[i] = history.before[i]
  <2>1. /\ place' = Mutated(i).place
        /\ place' = place => history' = history
        /\ place' # place => history'.before[i] = history.before[i]
    BY <1>1, Touched
  <2> QED BY <2>1
<1> HIDE DEF code
<1>6. mem'[i].pc = "mutated" /\ mem'[i].code = code /\ \A j \in Installations \ {i} : mem'[j] = mem[j]
  BY <1>1, <1>4 DEF TypeOK, Memories
<1> QED BY <1>1, <1>2, <1>3, <1>5, <1>6 DEF code

\* The way back of the step.
LEMMA UndoStepIs ==
  ASSUME Common, NEW i \in Installations, Undo(i)
  PROVE  /\ kind' = kind /\ row' = row /\ txn' = txn /\ Touch(i, Undone(i))
         /\ mem[i].pc = "reverse" /\ txn[i] # None /\ txn[i].at \in {"applying", "applied"}
         /\ txn[i].state = "rolling_back"
         /\ txn[i] \in Transactions /\ Writes(txn[i].op) /\ mem[i].code = None
         /\ place' = Undone(i) /\ history'.before[i] = history.before[i]
         /\ backup'[i] = (IF kind = "shortcut" /\ place = None THEN None ELSE backup[i])
         /\ mem'[i].pc = "undone" /\ mem'[i].code = None
         /\ \A j \in Installations \ {i} : mem'[j] = mem[j] /\ backup'[j] = backup[j]
<1>1. /\ kind' = kind /\ row' = row /\ txn' = txn /\ Touch(i, Undone(i))
      /\ mem[i].pc = "reverse" /\ txn[i].at # "planned" /\ TypeOK /\ TransactionOK(i) /\ ProcessOK(i)
      /\ mem' = [mem EXCEPT ![i].pc = "undone"]
      /\ backup' = [backup EXCEPT ![i] = IF kind = "shortcut" /\ place = None THEN None ELSE backup[i]]
  BY DEF Undo, Common
<1>2. txn[i] # None /\ txn[i].state = "rolling_back" /\ mem[i].code = None
  BY <1>1 DEF ProcessOK
<1>3. txn[i] \in Transactions /\ Writes(txn[i].op) /\ txn[i].at \in {"applying", "applied"}
  <2>1. txn[i] \in Transactions BY <1>1, <1>2 DEF TypeOK
  <2> QED BY <1>1, <1>2, <2>1 DEF TransactionOK, Transactions
<1>4. place' = Undone(i) /\ history'.before[i] = history.before[i]
  <2>1. /\ place' = Undone(i)
        /\ place' = place => history' = history
        /\ place' # place => history'.before[i] = history.before[i]
    BY <1>1, Touched
  <2> QED BY <2>1
<1>5. /\ mem'[i].pc = "undone" /\ mem'[i].code = mem[i].code
      /\ \A j \in Installations \ {i} : mem'[j] = mem[j]
  BY <1>1 DEF TypeOK, Memories
<1>6. /\ backup'[i] = (IF kind = "shortcut" /\ place = None THEN None ELSE backup[i])
      /\ \A j \in Installations \ {i} : backup'[j] = backup[j]
  BY <1>1 DEF TypeOK
<1> QED BY <1>1, <1>2, <1>3, <1>4, <1>5, <1>6

\* A step that leaves the place, its undo record and the operation alone:
\* the journal's mark, a failure, a crash, a recovery.
Rests(i) ==
  /\ kind' = kind /\ place' = place /\ row' = row /\ backup' = backup /\ history' = history
  /\ txn[i] # None /\ txn'[i] # None /\ txn'[i].op = txn[i].op /\ txn'[i].undo = txn[i].undo
  /\ \/ txn'[i].at = txn[i].at
     \/ txn[i].at = "applying" /\ txn'[i].at = "applied"
  /\ txn[i].state = "rolling_back" => txn'[i].state = "rolling_back"
  /\ mem'[i].pc # "undone"
  /\ {mem'[i].code, txn'[i].code} \subseteq {mem[i].code, txn[i].code, None}
  /\ \A j \in Installations \ {i} : txn'[j] = txn[j] /\ mem'[j] = mem[j]

LEMMA RestingIs ==
  ASSUME Common, NEW i \in Installations, Mark(i) \/ Fail(i) \/ Crash(i) \/ Recover(i)
  PROVE  Rests(i)
<1>1. TypeOK /\ TransactionOK(i) /\ ProcessOK(i) BY DEF Common
<1>2. /\ kind' = kind /\ place' = place /\ row' = row /\ backup' = backup /\ history' = history
  BY DEF Mark, Fail, Crash, Recover
<1>3. txn[i] # None BY <1>1 DEF Mark, Fail, Crash, Recover, ProcessOK
<1>4. /\ txn[i] \in Transactions /\ txn \in [Installations -> Transactions \cup {None}]
      /\ mem \in [Installations -> [pc : {"down", "walk", "mutated", "reverse", "undone"}, code : {None, "skipped"}]]
  BY <1>1, <1>3 DEF TypeOK, Memories
<1>5. CASE Mark(i)
  <2>1. /\ txn' = [txn EXCEPT ![i].at = "applied", ![i].code = mem[i].code]
        /\ mem' = [mem EXCEPT ![i].pc = "walk", ![i].code = None]
        /\ txn[i].at = "applying"
    BY <1>1, <1>5 DEF Mark, ProcessOK
  <2>2. /\ mem'[i].pc = "walk" /\ mem'[i].code = None
        /\ \A j \in Installations \ {i} : mem'[j] = mem[j]
    BY <1>4, <2>1
  <2>3. /\ txn'[i].op = txn[i].op /\ txn'[i].undo = txn[i].undo /\ txn'[i].at = "applied"
        /\ txn'[i].state = txn[i].state /\ txn'[i].code = mem[i].code
        /\ \A j \in Installations \ {i} : txn'[j] = txn[j]
    BY <1>4, <2>1 DEF Transactions
  <2>4. txn'[i] # None
    <3>1. Common' BY <1>5, CommonMark
    <3>2. mem'[i].pc # "down" BY <2>2
    <3> QED BY <3>1, <3>2 DEF Common, ProcessOK
  <2> QED BY <1>2, <1>3, <2>1, <2>2, <2>3, <2>4 DEF Rests
<1>6. CASE Fail(i)
  <2>1. /\ txn' = [txn EXCEPT ![i].state = "rolling_back"]
        /\ mem' = [mem EXCEPT ![i] = [Down EXCEPT !.pc = "reverse"]]
    BY <1>6 DEF Fail
  <2>2. /\ mem'[i].pc = "reverse" /\ mem'[i].code = None
        /\ \A j \in Installations \ {i} : mem'[j] = mem[j]
    BY <1>4, <2>1 DEF Down
  <2>3. /\ txn'[i].op = txn[i].op /\ txn'[i].undo = txn[i].undo /\ txn'[i].at = txn[i].at
        /\ txn'[i].state = "rolling_back" /\ txn'[i].code = txn[i].code
        /\ \A j \in Installations \ {i} : txn'[j] = txn[j]
    BY <1>4, <2>1 DEF Transactions
  <2>4. txn'[i] # None
    <3>1. Common' BY <1>6, CommonFail
    <3>2. mem'[i].pc # "down" BY <2>2
    <3> QED BY <3>1, <3>2 DEF Common, ProcessOK
  <2> QED BY <1>2, <1>3, <2>2, <2>3, <2>4 DEF Rests
<1>7. CASE Crash(i)
  <2>1. txn' = txn /\ mem' = [mem EXCEPT ![i] = Down] BY <1>7 DEF Crash
  <2>2. /\ mem'[i].pc = "down" /\ mem'[i].code = None
        /\ \A j \in Installations \ {i} : mem'[j] = mem[j]
    BY <1>4, <2>1 DEF Down
  <2> QED BY <1>2, <1>3, <2>1, <2>2 DEF Rests
<1>8. CASE Recover(i)
  <2>1. PICK forward \in BOOLEAN :
          /\ forward => txn[i].state = "running"
          /\ mem' = [mem EXCEPT ![i].pc = IF forward THEN "walk" ELSE "reverse"]
          /\ txn' = IF forward THEN txn ELSE [txn EXCEPT ![i].state = "rolling_back"]
    BY <1>8 DEF Recover
  <2>2. /\ mem'[i].pc \in {"walk", "reverse"} /\ mem'[i].code = mem[i].code
        /\ \A j \in Installations \ {i} : mem'[j] = mem[j]
    BY <1>4, <2>1
  <2>3. /\ txn'[i].op = txn[i].op /\ txn'[i].undo = txn[i].undo /\ txn'[i].at = txn[i].at
        /\ txn'[i].state \in {txn[i].state, "rolling_back"} /\ txn'[i].code = txn[i].code
        /\ \A j \in Installations \ {i} : txn'[j] = txn[j]
    <3>1. CASE forward BY <2>1, <3>1
    <3>2. CASE ~forward BY <1>4, <2>1, <3>2 DEF Transactions
    <3> QED BY <3>1, <3>2
  <2>4. txn'[i] # None
    <3>1. Common' BY <1>8, CommonRecover
    <3>2. mem'[i].pc # "down" BY <2>2
    <3> QED BY <3>1, <3>2 DEF Common, ProcessOK
  <2> QED BY <1>2, <1>3, <2>2, <2>3, <2>4 DEF Rests
<1> QED BY <1>5, <1>6, <1>7, <1>8

\* What a step of one installation is to another.
LEMMA OthersStand ==
  ASSUME Common, NEW i \in Installations, EngineStep(i), NEW j \in Installations \ {i}
  PROVE  /\ kind' = kind /\ txn'[j] = txn[j] /\ mem'[j] = mem[j] /\ backup'[j] = backup[j]
         /\ row'[j] = row[j]
         /\ history'.before[j] # None => history'.before[j] = history.before[j] /\ place' = place
<1>1. TypeOK BY DEF Common
<1>2. CASE Begin(i) BY <1>2, BeginIs
<1>3. CASE Prepare(i) BY <1>3, PrepareMoves
<1>4. CASE KeepPrevious(i)
  <2>1. /\ kind' = kind /\ row' = row /\ txn' = txn /\ mem' = mem /\ Touch(i, None)
        /\ backup' = [backup EXCEPT ![i] = place]
    BY <1>4 DEF KeepPrevious
  <2>2. backup'[j] = backup[j] BY <1>1, <2>1 DEF TypeOK
  <2> QED BY <1>1, <2>1, <2>2, Touched
<1>5. CASE Mutate(i)
  <2>1. /\ kind' = kind /\ row' = row /\ txn' = txn /\ backup' = backup /\ Touch(i, Mutated(i).place)
        /\ mem'[j] = mem[j]
    BY <1>5, MutateIs
  <2> QED BY <1>1, <2>1, Touched
<1>6. CASE Undo(i)
  <2>1. /\ kind' = kind /\ row' = row /\ txn' = txn /\ Touch(i, Undone(i))
        /\ mem'[j] = mem[j] /\ backup'[j] = backup[j]
    BY <1>6, UndoStepIs
  <2> QED BY <1>1, <2>1, Touched
<1>7. CASE Mark(i) \/ Fail(i) \/ Crash(i) \/ Recover(i) BY <1>7, RestingIs DEF Rests
<1>8. CASE Commit(i) \/ FinishRollback(i)
  <2>1. kind' = kind /\ place' = place /\ Closed(i) BY <1>8 DEF Commit, FinishRollback
  <2>2. txn'[j] = txn[j] /\ mem'[j] = mem[j] /\ backup'[j] = backup[j]
    BY <1>1, <2>1 DEF Closed, TypeOK
  <2>3. row'[j] = row[j] BY <1>1, <1>8 DEF Commit, FinishRollback, TypeOK
  <2>4. history'.before[j] = history.before[j]
    <3>1. history \in [found : Founds, events : Nat, ran : SUBSET Installations,
                       before : [Installations -> Founds]]
      BY <1>1 DEF TypeOK, Histories
    <3>2. history'.before = [history.before EXCEPT ![i] = None]
      BY <1>8, <3>1 DEF Commit, FinishRollback
    <3> QED BY <3>1, <3>2
  <2> QED BY <2>1, <2>2, <2>3, <2>4
<1> QED BY <1>2, <1>3, <1>4, <1>5, <1>6, <1>7, <1>8 DEF EngineStep

(***************************************************************************)
(* Links, variables and rules: the undo record stands through every step.   *)
(***************************************************************************)

\* A step of one installation, seen from another with an open transaction.
LEMMA StageElsewhere ==
  ASSUME Common, NEW i \in Installations, EngineStep(i), NEW j \in Installations \ {i}, StageOK(j)
  PROVE  StageOK(j)'
<1>1. /\ kind' = kind /\ txn'[j] = txn[j] /\ mem'[j] = mem[j] /\ backup'[j] = backup[j]
      /\ row'[j] = row[j]
      /\ history'.before[j] # None => history'.before[j] = history.before[j] /\ place' = place
  BY OthersStand
<1>2. IsProfile' = IsProfile /\ Marker(j)' = Marker(j) BY <1>1 DEF IsProfile, Marker
<1>3. CASE IsProfile
  <2>1. kind \notin {"shortcut", "environment", "firewall"} BY <1>3 DEF IsProfile
  <2> QED BY <1>1, <1>2, <2>1 DEF StageOK
<1>4. CASE ~IsProfile
  <2>1. txn[j] = None
    <3> SUFFICES ASSUME txn[j] # None PROVE FALSE OBVIOUS
    <3>1. kind # "profile" /\ ProcessOK(i) /\ ProcessOK(j) BY <1>4 DEF IsProfile, Common
    <3>2. txn[i] = None /\ mem[i].pc = "down" BY <3>1 DEF ProcessOK
    <3>3. Begin(i)
      BY <3>2 DEF EngineStep, Prepare, KeepPrevious, Mutate, Mark, Commit, Fail, Undo, FinishRollback,
                  Crash, Recover, Walking
    <3>4. ~Busy(j) BY <3>1, <3>3 DEF Begin, MayStart
    <3> QED BY <3>4 DEF Busy
  <2> QED BY <1>1, <2>1 DEF StageOK
<1> QED BY <1>3, <1>4

\* A stage of a profile's block outlasts a step that leaves the place and the
\* undo record alone.
LEMMA BlockRests ==
  ASSUME NEW p, NEW t, NEW u, NEW code, NEW code2, NEW pc, NEW pc2, NEW b, NEW m,
         BlockStage(p, t, code, pc, b, m), u.op = t.op, u.undo = t.undo, pc2 # "undone",
         u.at = "planned" <=> t.at = "planned",
         t.state = "rolling_back" => u.state = "rolling_back",
         "skipped" \in {code2, u.code} => "skipped" \in {code, t.code}
  PROVE  BlockStage(p, u, code2, pc2, b, m)
<1> DEFINE now == find(TextOf(b), m)
<1>1. Cut(b, m, u) = Cut(b, m, t) BY DEF Cut
<1>2. Writes(u.op) = Writes(t.op) BY DEF Writes
<1>3. /\ WellFormed(b)
      /\ Writes(t.op) => ~Locked(b) /\ now # Damaged
      /\ t.op.does = "remove" => now = t.op.value
      /\ t.at = "planned" => p = b
  BY DEF BlockStage
<1>4. t.at # "planned" =>
        /\ t.undo = [existed |-> b.file # None, dir |-> b.dir, previous |-> now]
        /\ "skipped" \in {code, t.code} => p = b
        /\ t.op.does = "put" =>
             /\ now = None => t.op.origin.sep = separator_for(TextOf(b))
             /\ p = b \/ (p = With(b, m, t.op.value) /\ b.access = "free")
        /\ t.op.does = "remove" =>
             \/ p = b
             \/ p = Cut(b, m, t) /\ b.access = "free"
             \/ Alike(p, b) /\ find(TextOf(p), m) = now /\ t.state = "rolling_back"
  BY DEF BlockStage
<1> DEFINE undo == [existed |-> b.file # None, dir |-> b.dir, previous |-> now]
<1> HIDE DEF now, undo
<1>5. u.at # "planned" =>
        /\ u.undo = undo
        /\ "skipped" \in {code2, u.code} => p = b
        /\ u.op.does = "put" =>
             /\ now = None => u.op.origin.sep = separator_for(TextOf(b))
             /\ p = b \/ (p = With(b, m, u.op.value) /\ b.access = "free")
        /\ u.op.does = "remove" =>
             \/ p = b
             \/ p = Cut(b, m, u) /\ b.access = "free"
             \/ Alike(p, b) /\ find(TextOf(p), m) = now /\ u.state = "rolling_back"
  <2> SUFFICES ASSUME u.at # "planned"
               PROVE  /\ u.undo = undo
                      /\ "skipped" \in {code2, u.code} => p = b
                      /\ u.op.does = "put" =>
                           /\ now = None => u.op.origin.sep = separator_for(TextOf(b))
                           /\ p = b \/ (p = With(b, m, u.op.value) /\ b.access = "free")
                      /\ u.op.does = "remove" =>
                           \/ p = b
                           \/ p = Cut(b, m, u) /\ b.access = "free"
                           \/ Alike(p, b) /\ find(TextOf(p), m) = now /\ u.state = "rolling_back"
    OBVIOUS
  <2>1. t.at # "planned" OBVIOUS
  <2>2. u.undo = undo BY <1>4, <2>1 DEF undo
  <2> QED BY <1>1, <1>4, <2>1, <2>2
<1>6. /\ Writes(u.op) => ~Locked(b) /\ now # Damaged
      /\ u.op.does = "remove" => now = u.op.value
      /\ u.at = "planned" => p = b
  BY <1>2, <1>3
<1> QED BY <1>3, <1>5, <1>6 DEF BlockStage, now, undo

\* What a step begun records of a place.
LEMMA Resting ==
  ASSUME NEW i \in Installations, StageOK(i), Rests(i)
  PROVE  StageOK(i)'
<1>1. IsProfile' = IsProfile /\ Marker(i)' = Marker(i) BY DEF Rests, IsProfile, Marker
<1>2. kind = "shortcut" => LinkStage(place, txn'[i], backup[i], mem'[i].pc, history.before[i])
  BY DEF StageOK, Rests, LinkStage
<1>3. kind = "environment" => VariableStage(place, txn'[i], mem'[i].pc, history.before[i])
  BY DEF StageOK, Rests, VariableStage, Written
<1>4. kind = "firewall" => RuleStage(place, txn'[i], mem'[i].pc, history.before[i], row[i] # None)
  BY DEF StageOK, Rests, RuleStage, Rules0
<1>5. IsProfile /\ history.before[i] # None =>
        BlockStage(place, txn'[i], mem'[i].code, mem'[i].pc, history.before[i][1], Marker(i))
  <2> SUFFICES ASSUME IsProfile, history.before[i] # None
               PROVE  BlockStage(place, txn'[i], mem'[i].code, mem'[i].pc, history.before[i][1], Marker(i))
    OBVIOUS
  <2> DEFINE b == history.before[i][1]
             m == Marker(i)
  <2>1. BlockStage(place, txn[i], mem[i].code, mem[i].pc, b, m) BY DEF StageOK, Rests
  <2>2. /\ txn'[i].op = txn[i].op /\ txn'[i].undo = txn[i].undo /\ mem'[i].pc # "undone"
        /\ txn'[i].at = "planned" <=> txn[i].at = "planned"
        /\ txn[i].state = "rolling_back" => txn'[i].state = "rolling_back"
        /\ "skipped" \in {mem'[i].code, txn'[i].code} => "skipped" \in {mem[i].code, txn[i].code}
    <3>1. None # "skipped" BY NothingElse
    <3> QED BY <3>1 DEF Rests
  <2> HIDE DEF b, m
  <2>3. BlockStage(place, txn'[i], mem'[i].code, mem'[i].pc, b, m) BY <2>1, <2>2, BlockRests
  <2> QED BY <2>3 DEF b, m
<1> QED BY <1>1, <1>2, <1>3, <1>4, <1>5 DEF StageOK, Rests

LEMMA LinkStep ==
  ASSUME Common, NEW i \in Installations, kind = "shortcut", StageOK(i),
         Begin(i) \/ Prepare(i) \/ KeepPrevious(i) \/ Mutate(i) \/ Undo(i)
  PROVE  LinkStage(place', txn'[i], backup'[i], mem'[i].pc, history'.before[i])
<1>0. /\ TypeOK /\ ~IsProfile /\ TransactionOK(i) /\ ProcessOK(i) /\ place \in Values
      /\ txn[i] # None => LinkStage(place, txn[i], backup[i], mem[i].pc, history.before[i])
  <2>1. TypeOK BY DEF Common
  <2> QED BY <2>1, KindsOfPlace DEF Common, StageOK
<1>1. CASE Begin(i)
  <2>1. PICK want \in Own(i) \cup {None}, repair \in BOOLEAN :
          txn'[i] = [op |-> PlanOf(i, want, repair), state |-> "running", at |-> "planned",
                     undo |-> NoUndo, code |-> None]
    BY <1>1, BeginIs
  <2>2. txn'[i].at = "planned" BY <2>1
  <2>3. place' = place /\ backup'[i] = None /\ history'.before[i] = <<place>>
    BY <1>1, BeginIs
  <2> QED BY <2>2, <2>3 DEF LinkStage
<1>2. CASE Prepare(i)
  <2>1. /\ place' = place /\ backup' = backup /\ mem' = mem /\ history' = history
        /\ mem[i].pc = "walk" /\ txn[i].at = "planned" /\ txn'[i].at = "applying"
        /\ txn'[i].undo = UndoOf(i) /\ txn[i] # None
    <3>1. mem[i].pc = "walk" BY <1>2, PrepareMoves
    <3>2. txn[i] # None BY <1>0, <3>1 DEF ProcessOK
    <3> QED BY <1>2, <3>2, PrepareMoves
  <2>2. txn'[i].undo = [existed |-> place # None, dir |-> FALSE, previous |-> place]
    BY <1>0, <2>1, UndoIs
  <2>3. txn'[i].undo.existed = (place # None) /\ txn'[i].undo.previous = place BY <2>2
  <2>4. backup[i] = None /\ (history.before[i] # None => history.before[i] = <<place>>)
    BY <1>0, <2>1 DEF LinkStage
  <2> QED BY <2>1, <2>3, <2>4 DEF LinkStage
<1>3. CASE KeepPrevious(i)
  <2>1. /\ mem[i].pc = "walk" /\ txn[i].at = "applying" /\ txn' = txn /\ mem' = mem /\ Touch(i, None)
        /\ txn[i].undo.existed /\ backup[i] = None /\ place # None /\ kind' = kind
        /\ backup' = [backup EXCEPT ![i] = place]
    BY <1>3 DEF KeepPrevious, Walking, ToBackUp
  <2>2. txn[i] # None /\ txn[i].state = "running" BY <1>0, <2>1 DEF ProcessOK
  <2>3. /\ place' = None
        /\ history'.before[i] # None => history'.before[i] = history.before[i]
    BY <1>0, <2>1, Touched
  <2>4. backup'[i] = place BY <1>0, <2>1 DEF TypeOK
  <2>5. place = txn[i].undo.previous BY <1>0, <2>1, <2>2 DEF LinkStage
  <2> QED BY <1>0, <2>1, <2>2, <2>3, <2>4, <2>5 DEF LinkStage
<1>4. CASE Mutate(i)
  <2>1. /\ txn' = txn /\ backup' = backup /\ txn[i] # None /\ txn[i].at = "applying"
        /\ txn[i].state = "running" /\ Writes(txn[i].op) /\ ~ToBackUp(i)
        /\ place' = Mutated(i).place /\ history'.before[i] = history.before[i] /\ mem'[i].pc = "mutated"
    BY <1>4, MutateIs
  <2>2. Mutated(i).place = IF txn[i].op.does = "put" THEN txn[i].op.value
                           ELSE IF Removable(i) THEN None ELSE place
    BY <1>0 DEF Mutated, Outcome
  <2>3. txn[i].op.does \in {"put", "remove"} BY <2>1 DEF Writes
  <2>4. ~(txn[i].undo.existed /\ backup[i] = None /\ place # None
            /\ (txn[i].op.does = "remove" => Removable(i)))
    BY <2>1 DEF ToBackUp
  <2>5. LinkStage(place, txn[i], backup[i], mem[i].pc, history.before[i]) BY <1>0, <2>1
  <2>6. place' = place \/ (backup[i] = txn[i].undo.previous /\ place' \in {None, txn[i].op.value})
    BY <2>1, <2>2, <2>3, <2>4, <2>5 DEF LinkStage
  <2> QED BY <2>1, <2>5, <2>6 DEF LinkStage
<1>5. CASE Undo(i)
  <2>1. /\ txn' = txn /\ txn[i] # None /\ txn[i].at # "planned" /\ txn[i].state = "rolling_back"
        /\ place' = Undone(i) /\ history'.before[i] = history.before[i]
        /\ backup'[i] = IF place = None THEN None ELSE backup[i]
    BY <1>5, UndoStepIs
  <2>2. Undone(i) = IF ~txn[i].undo.existed THEN None
                    ELSE IF place = txn[i].undo.previous THEN place ELSE backup[i]
    BY <1>0 DEF Undone, UndoneLink
  <2>3. LinkStage(place, txn[i], backup[i], mem[i].pc, history.before[i]) BY <1>0, <2>1
  <2>4. place' = txn[i].undo.previous BY <2>1, <2>2, <2>3 DEF LinkStage
  <2> QED BY <2>1, <2>3, <2>4 DEF LinkStage
<1> QED BY <1>1, <1>2, <1>3, <1>4, <1>5

LEMMA VariableStep ==
  ASSUME Common, NEW i \in Installations, kind = "environment", StageOK(i),
         Begin(i) \/ Prepare(i) \/ Mutate(i) \/ Undo(i)
  PROVE  VariableStage(place', txn'[i], mem'[i].pc, history'.before[i])
<1>0. /\ TypeOK /\ ~IsProfile /\ TransactionOK(i) /\ ProcessOK(i)
      /\ txn[i] # None => VariableStage(place, txn[i], mem[i].pc, history.before[i])
  <2>1. TypeOK BY DEF Common
  <2> QED BY <2>1, KindsOfPlace DEF Common, StageOK
<1>1. CASE Begin(i)
  <2>1. PICK want \in Own(i) \cup {None}, repair \in BOOLEAN :
          txn'[i] = [op |-> PlanOf(i, want, repair), state |-> "running", at |-> "planned",
                     undo |-> NoUndo, code |-> None]
    BY <1>1, BeginIs
  <2> DEFINE op == PlanOf(i, want, repair)
  <2>2. op = PlanVariable(i, want, repair) BY <1>0 DEF PlanOf
  <2>3. op.does = "remove" => place = op.value
    BY <2>2 DEF PlanVariable, Operation, NoOperation, Kept
  <2> HIDE DEF op
  <2>4. txn'[i].at = "planned" /\ txn'[i].op = op BY <2>1 DEF op
  <2>5. place' = place /\ history'.before[i] = <<place>> BY <1>1, BeginIs
  <2> QED BY <2>3, <2>4, <2>5 DEF VariableStage
<1>2. CASE Prepare(i)
  <2>1. mem[i].pc = "walk" BY <1>2, PrepareMoves
  <2>2. txn[i] # None BY <1>0, <2>1 DEF ProcessOK
  <2>3. /\ place' = place /\ mem' = mem /\ history' = history
        /\ txn[i].at = "planned" /\ txn'[i].at = "applying"
        /\ txn'[i].op.does = txn[i].op.does /\ txn'[i].op.value = txn[i].op.value
    BY <1>2, PrepareMoves
  <2>4. txn'[i].undo = [existed |-> place # None, dir |-> FALSE, previous |-> place]
    BY <1>0, <1>2, PrepareMoves, UndoIs
  <2>5. txn'[i].undo.previous = place BY <2>4
  <2> QED BY <1>0, <2>1, <2>2, <2>3, <2>5 DEF VariableStage
<1>3. CASE Mutate(i)
  <2>1. /\ txn' = txn /\ txn[i] # None /\ txn[i].at = "applying"
        /\ txn[i].op.does \in {"put", "remove"}
        /\ place' = Mutated(i).place /\ history'.before[i] = history.before[i] /\ mem'[i].pc = "mutated"
    BY <1>3, MutateIs DEF Writes
  <2>2. Mutated(i).place = IF txn[i].op.does = "put" THEN txn[i].op.value
                           ELSE IF place = txn[i].op.value THEN txn[i].op.origin[1] ELSE place
    BY <1>0 DEF Mutated, Outcome
  <2>3. VariableStage(place, txn[i], mem[i].pc, history.before[i]) BY <1>0, <2>1
  <2> QED BY <2>1, <2>2, <2>3 DEF VariableStage, Written
<1>4. CASE Undo(i)
  <2>1. /\ txn' = txn /\ txn[i] # None /\ txn[i].at \in {"applying", "applied"}
        /\ place' = Undone(i) /\ history'.before[i] = history.before[i]
    BY <1>4, UndoStepIs
  <2>2. Undone(i) = IF place \in {None, Written(txn[i])} THEN txn[i].undo.previous ELSE place
    BY <1>0 DEF Undone, UndoneVariable, Written
  <2>3. VariableStage(place, txn[i], mem[i].pc, history.before[i]) BY <1>0, <2>1
  <2> QED BY <2>1, <2>2, <2>3 DEF VariableStage
<1> QED BY <1>1, <1>2, <1>3, <1>4

LEMMA RuleStep ==
  ASSUME Common, NEW i \in Installations, kind = "firewall", StageOK(i),
         Begin(i) \/ Prepare(i) \/ Mutate(i) \/ Undo(i)
  PROVE  RuleStage(place', txn'[i], mem'[i].pc, history'.before[i], row'[i] # None)
<1>0. /\ TypeOK /\ ~IsProfile /\ TransactionOK(i) /\ ProcessOK(i) /\ place \in Seq(Rules)
      /\ txn[i] # None =>
           RuleStage(place, txn[i], mem[i].pc, history.before[i], row[i] # None)
  <2>1. TypeOK BY DEF Common
  <2> QED BY <2>1, KindsOfPlace DEF Common, StageOK
<1>1. CASE Begin(i)
  <2>1. PICK want \in Own(i) \cup {None}, repair \in BOOLEAN :
          txn'[i] = [op |-> PlanOf(i, want, repair), state |-> "running", at |-> "planned",
                     undo |-> NoUndo, code |-> None]
    BY <1>1, BeginIs
  <2> DEFINE op == PlanOf(i, want, repair)
  <2>2. op = PlanRule(i, want, repair) BY <1>0 DEF PlanOf
  <2>3. op.does = "put" => place = <<>> \/ (Len(place) = 1 /\ row[i] # None)
    BY <2>2 DEF PlanRule, Operation, NoOperation, Kept
  <2>4. op.does = "remove" => place = <<op.value>>
    BY <2>2 DEF PlanRule, Operation, NoOperation, Kept
  <2> HIDE DEF op
  <2>5. txn'[i].at = "planned" /\ txn'[i].op = op BY <2>1 DEF op
  <2>6. place' = place /\ row' = row /\ history'.before[i] = <<place>> BY <1>1, BeginIs
  <2> QED BY <2>3, <2>4, <2>5, <2>6 DEF RuleStage
<1>2. CASE Prepare(i)
  <2>1. mem[i].pc = "walk" BY <1>2, PrepareMoves
  <2>2. txn[i] # None BY <1>0, <2>1 DEF ProcessOK
  <2>3. /\ place' = place /\ row' = row /\ mem' = mem /\ history' = history
        /\ txn[i].at = "planned" /\ txn'[i].at = "applying"
        /\ txn'[i].op.does = txn[i].op.does /\ txn'[i].op.value = txn[i].op.value
        /\ txn[i].op.does \in {"put", "remove"}
    BY <1>2, PrepareMoves DEF Writes
  <2>4. txn'[i].undo.previous = IF place = <<>> THEN None ELSE Head(place)
    BY <1>0, <1>2, PrepareMoves, UndoIs
  <2>5. /\ txn[i].op.does = "put" => place = <<>> \/ (Len(place) = 1 /\ row[i] # None)
        /\ txn[i].op.does = "remove" => place = <<txn[i].op.value>>
        /\ history.before[i] # None => history.before[i] = <<place>>
    BY <1>0, <2>2, <2>3 DEF RuleStage
  <2>6. /\ Rules0(txn'[i]) = place
        /\ txn'[i].undo.previous # None => place # <<>>
    <3>1. CASE place = <<>> BY <2>4, <3>1 DEF Rules0
    <3>2. CASE place # <<>>
      <4>1. Len(place) = 1 /\ Head(place) \in Rules /\ place = <<Head(place)>>
        BY <1>0, <2>3, <2>5, <3>2
      <4>2. None \notin Rules BY NothingElse DEF Rules
      <4> QED BY <2>4, <3>2, <4>1, <4>2 DEF Rules0
    <3> QED BY <3>1, <3>2
  <2>7. txn[i].op.does = "remove" => txn'[i].undo.previous = txn[i].op.value
    <3> DEFINE v == txn[i].op.value
    <3>1. <<v>> # <<>> /\ Head(<<v>>) = v OBVIOUS
    <3>2. txn[i].op.does = "remove" => place = <<v>> BY <2>5
    <3> HIDE DEF v
    <3>3. txn[i].op.does = "remove" => txn'[i].undo.previous = v BY <2>4, <3>1, <3>2
    <3> QED BY <3>3 DEF v
  <2> QED BY <2>1, <2>3, <2>5, <2>6, <2>7 DEF RuleStage
<1>3. CASE Mutate(i)
  <2>1. /\ txn' = txn /\ row' = row /\ txn[i] # None /\ txn[i].at = "applying"
        /\ txn[i].op.does \in {"put", "remove"}
        /\ place' = Mutated(i).place /\ history'.before[i] = history.before[i] /\ mem'[i].pc = "mutated"
    BY <1>3, MutateIs DEF Writes
  <2>2. Mutated(i).place = IF txn[i].op.does = "put"
                           THEN IF place = <<>> THEN <<txn[i].op.value>>
                                ELSE [place EXCEPT ![1] = txn[i].op.value]
                           ELSE IF place = <<txn[i].op.value>> THEN <<>> ELSE place
    BY <1>0 DEF Mutated, Outcome
  <2>3. RuleStage(place, txn[i], mem[i].pc, history.before[i], row[i] # None) BY <1>0, <2>1
  <2>4. place = <<>> \/ place = <<txn[i].undo.previous>> \/ place = <<txn[i].op.value>>
    BY <2>1, <2>3 DEF RuleStage, Rules0
  <2>5. place # <<>> => [place EXCEPT ![1] = txn[i].op.value] = <<txn[i].op.value>> BY <2>4
  <2>6. /\ txn[i].op.does = "put" => place' = <<txn[i].op.value>>
        /\ txn[i].op.does = "remove" => place' \in {<<>>, place}
    BY <2>1, <2>2, <2>5
  <2> QED BY <2>1, <2>3, <2>6 DEF RuleStage
<1>4. CASE Undo(i)
  <2>1. /\ txn' = txn /\ row' = row /\ txn[i] # None /\ txn[i].at \in {"applying", "applied"}
        /\ txn[i].op.does \in {"put", "remove"}
        /\ place' = Undone(i) /\ history'.before[i] = history.before[i]
    BY <1>4, UndoStepIs DEF Writes
  <2>2. Undone(i) = IF place = <<>> \/ (txn[i].op.does = "put" /\ place = <<txn[i].op.value>>)
                    THEN Rules0(txn[i]) ELSE place
    BY <1>0 DEF Undone, UndoneRule, Rules0
  <2>3. RuleStage(place, txn[i], mem[i].pc, history.before[i], row[i] # None) BY <1>0, <2>1
  <2>4. place' = Rules0(txn[i]) \/ place' = place BY <2>1, <2>2
  <2>5. ASSUME txn[i].at = "applying" \/ (txn[i].at = "applied" /\ history.before[i] # None)
        PROVE  place' = Rules0(txn[i])
    BY <2>1, <2>2, <2>3, <2>5 DEF RuleStage
  <2>6. ASSUME txn[i].at = "applying" \/ (txn[i].at = "applied" /\ history.before[i] # None)
        PROVE  /\ txn[i].op.does = "put" => (txn[i].undo.previous # None => row[i] # None)
               /\ txn[i].op.does = "remove" => txn[i].undo.previous = txn[i].op.value
               /\ history.before[i] # None => history.before[i] = <<Rules0(txn[i])>>
    BY <2>3, <2>6 DEF RuleStage
  <2> QED BY <2>1, <2>5, <2>6 DEF RuleStage
<1> QED BY <1>1, <1>2, <1>3, <1>4

(***************************************************************************)
(* A profile: the undo record stands through every step, and leads back.    *)
(***************************************************************************)

\* The plan writes only what it could read.
LEMMA BlockPlanned ==
  ASSUME Common, IsProfile, NEW i \in Installations, NEW want \in Own(i) \cup {None}
  PROVE  LET op  == PlanBlock(i, want)
             now == find(TextOf(place), Marker(i))
         IN  /\ Writes(op) => ~Locked(place) /\ now # Damaged
             /\ op.does = "remove" => now = op.value
<1> DEFINE op  == PlanBlock(i, want)
           now == find(TextOf(place), Marker(i))
           state == profile_state(place, Marker(i))
<1>1. state = IF Locked(place) THEN Unreadable ELSE now BY DEF profile_state
<1>2. row[i] # None => row[i].value \notin {Unreadable, Damaged}
  <2>1. RowOK(i) /\ Own(i) \subseteq Contents BY NothingElse DEF Common
  <2> QED BY <2>1, ResourcesAssumption DEF RowOK
<1> HIDE DEF state, now
<1>3. op.does = "put" => state \notin {Unreadable, Damaged}
  BY DEF PlanBlock, Operation, NoOperation, Kept, state
<1>4. op.does = "remove" => row[i] # None /\ state = row[i].value /\ op.value = row[i].value
  BY DEF PlanBlock, Operation, NoOperation, Kept, state
<1> HIDE DEF op
<1>5. Writes(op) => state \notin {Unreadable, Damaged} BY <1>2, <1>3, <1>4 DEF Writes
<1>6. (Writes(op) => ~Locked(place) /\ now # Damaged) /\ (op.does = "remove" => now = op.value)
  BY <1>1, <1>4, <1>5 DEF Writes
<1> QED BY <1>6 DEF op, now

LEMMA BlockBegins ==
  ASSUME Common, IsProfile, NEW i \in Installations, Begin(i)
  PROVE  BlockStage(place', txn'[i], mem'[i].code, mem'[i].pc, history'.before[i][1], Marker(i))
<1>1. PICK want \in Own(i) \cup {None}, repair \in BOOLEAN :
        txn'[i] = [op |-> PlanOf(i, want, repair), state |-> "running", at |-> "planned",
                   undo |-> NoUndo, code |-> None]
  BY BeginIs
<1>2. PlanOf(i, want, repair) = PlanBlock(i, want) BY DEF PlanOf, IsProfile
<1> DEFINE op == PlanBlock(i, want)
           m  == Marker(i)
<1>3. /\ Writes(op) => ~Locked(place) /\ find(TextOf(place), m) # Damaged
      /\ op.does = "remove" => find(TextOf(place), m) = op.value
  BY BlockPlanned
<1>4. place' = place /\ history'.before[i] = <<place>> BY BeginIs
<1> HIDE DEF op, m
<1>5. txn'[i].op = op /\ txn'[i].at = "planned" BY <1>1, <1>2 DEF op
<1>6. WellFormed(place) BY KindsOfPlace DEF Common
<1>7. BlockStage(place, txn'[i], mem'[i].code, mem'[i].pc, place, m)
  BY <1>3, <1>5, <1>6 DEF BlockStage
<1> QED BY <1>4, <1>7 DEF m

LEMMA BlockPrepares ==
  ASSUME Common, IsProfile, NEW i \in Installations, Prepare(i), history.before[i] # None, StageOK(i)
  PROVE  BlockStage(place', txn'[i], mem'[i].code, mem'[i].pc, history'.before[i][1], Marker(i))
<1> DEFINE m == Marker(i)
           b == history.before[i][1]
           now == find(TextOf(b), m)
           code == mem[i].code
           pc   == mem[i].pc
           t == txn[i]
           u == txn'[i]
<1>1. /\ place' = place /\ mem' = mem /\ history' = history /\ pc = "walk" /\ code = None
      /\ t.at = "planned" /\ Writes(t.op) /\ u.op.does = t.op.does /\ u.op.value = t.op.value
      /\ u.op.origin = OriginOf(t.op, UndoOf(i)) /\ u.at = "applying" /\ u.undo = UndoOf(i)
      /\ u.code = None
  BY PrepareMoves
<1>2. BlockStage(place, t, code, pc, b, m)
  <2>1. ProcessOK(i) BY DEF Common
  <2> QED BY <1>1, <2>1 DEF ProcessOK, StageOK
<1>3. /\ place = b /\ WellFormed(b) /\ ~Locked(b) /\ now # Damaged
      /\ t.op.does = "remove" => now = t.op.value
  BY <1>1, <1>2 DEF BlockStage
<1>4. TextOf(b) \in Seq(Tokens) /\ Single(TextOf(b)) /\ (b.file # None => b.file = TextOf(b))
      /\ (b.file = None => TextOf(b) = <<>>)
  BY <1>3, ProfileParts
<1>5. now # Unreadable BY <1>3, <1>4, FoundText
<1> HIDE DEF m, b, now
<1>6. UndoOf(i) = [existed |-> b.file # None, dir |-> b.dir, previous |-> now]
  <2>1. profile_state(place, m) = now BY <1>3 DEF profile_state, now
  <2>2. UndoOf(i) = [existed |-> place.file # None /\ profile_state(place, m) # Unreadable,
                     dir |-> place.dir,
                     previous |-> IF profile_state(place, m) \in {Unreadable, Damaged} THEN None
                                  ELSE profile_state(place, m)]
    BY UndoIs DEF m
  <2> QED BY <1>3, <1>5, <2>1, <2>2
<1>7. now = None /\ t.op.does = "put" => u.op.origin.sep = separator_for(TextOf(b))
  <2> SUFFICES ASSUME now = None, t.op.does = "put"
               PROVE  u.op.origin.sep = separator_for(TextOf(b))
    OBVIOUS
  <2> DEFINE undo == UndoOf(i)
  <2>1. undo.previous = None /\ undo.existed = (b.file # None) BY <1>6
  <2> HIDE DEF undo
  <2>2. OriginOf(t.op, undo).sep = IF undo.existed THEN separator_for(place.file) ELSE 0
    BY <2>1 DEF OriginOf
  <2>3. b.file = None => separator_for(TextOf(b)) = 0 BY <1>4 DEF separator_for
  <2> QED BY <1>1, <1>3, <1>4, <2>1, <2>2, <2>3 DEF undo
<1> DEFINE undo == [existed |-> b.file # None, dir |-> b.dir, previous |-> now]
<1>8. u.undo = undo BY <1>1, <1>6
<1> HIDE DEF u, t, code, pc, undo
<1>9. None # "skipped" BY NothingElse
<1>10. /\ Writes(u.op) => ~Locked(b) /\ now # Damaged
       /\ u.op.does = "remove" => now = u.op.value
       /\ u.at # "planned" /\ place = b /\ pc # "undone"
       /\ u.op.does = "put" => (now = None => u.op.origin.sep = separator_for(TextOf(b)))
  BY <1>1, <1>3, <1>7
<1>11. BlockStage(place, u, code, pc, b, m) BY <1>3, <1>8, <1>10 DEF BlockStage, now, undo
<1> QED BY <1>1, <1>11 DEF u, code, pc, b, m

\* The mutation, attempted once or again.
LEMMA BlockMutates ==
  ASSUME NEW p, NEW t, NEW code, NEW pc, NEW b, NEW m \in Installations \cup {"product"},
         BlockStage(p, t, code, pc, b, m), t.at = "applying", t.state = "running", t.code = None,
         Writes(t.op), t.op.value \in Contents, t.op.origin \in Creations,
         NEW o,
         t.op.does = "put" => o = AddBlock(p, m, t.op.value),
         t.op.does = "remove" => o = RemoveBlock(p, m, t.op.origin.sep, t.op.origin.file, t.op.origin.dir)
  PROVE  BlockStage(o.place, t, o.code, "mutated", b, m)
<1> DEFINE now == find(TextOf(b), m)
           c   == t.op.value
           cut == Cut(b, m, t)
<1>1. /\ WellFormed(b) /\ (t.op.does = "remove" => now = c)
      /\ Writes(t.op) => ~Locked(b) /\ now # Damaged
      /\ t.op.does = "put" => p = b \/ (p = With(b, m, c) /\ b.access = "free")
      /\ t.op.does = "remove" => p = b \/ (p = cut /\ b.access = "free")
  BY DEF BlockStage
<1>2. c # None /\ c # Damaged /\ None # Damaged /\ None # "skipped" /\ c \in Contents
  BY NothingElse, ResourcesAssumption
<1>3. t.op.does \in {"put", "remove"} BY DEF Writes
<1>4. ASSUME t.op.does = "put"
      PROVE  /\ o.place = b \/ (o.place = With(b, m, c) /\ b.access = "free")
             /\ o.code = "skipped" => o.place = b
  <2>1. CASE p = b
    <3>1. \/ o = Outcome(b, "skipped") \/ o = Outcome(b, None)
          \/ o = Outcome(With(b, m, c), None) /\ b.access = "free"
      <4>1. o = AddBlock(b, m, c) BY <1>4, <2>1
      <4> QED BY <1>1, <1>2, <4>1, Adding
    <3> QED BY <1>2, <3>1 DEF Outcome
  <2>2. CASE p = With(b, m, c) /\ b.access = "free"
    <3>1. WellFormed(p) /\ p.access = "free" /\ find(TextOf(p), m) = c
      BY <1>1, <1>2, <2>2, WithBlock
    <3>2. o = Outcome(p, None)
      <4>1. o = AddBlock(p, m, c) BY <1>4
      <4> HIDE DEF c
      <4> QED BY <1>2, <3>1, <4>1, Adding
    <3> QED BY <1>2, <2>2, <3>2 DEF Outcome
  <2> QED BY <1>1, <1>4, <2>1, <2>2
<1>5. ASSUME t.op.does = "remove"
      PROVE  /\ o.place = b \/ (o.place = cut /\ b.access = "free")
             /\ o.code = "skipped" => o.place = b
  <2> DEFINE sep == t.op.origin.sep
             dropFile == t.op.origin.file
             dropDir == t.op.origin.dir
  <2>1. /\ sep \in 0..2 /\ dropFile \in BOOLEAN /\ dropDir \in BOOLEAN
        /\ cut = Without(b, m, sep, dropFile, dropDir) /\ now # None
    BY <1>1, <1>2, <1>5 DEF Creations, Cut
  <2>2. o = RemoveBlock(p, m, sep, dropFile, dropDir) BY <1>5
  <2> HIDE DEF sep, dropFile, dropDir
  <2>3. CASE p = b
    <3>1. \/ o = Outcome(b, None) \/ o = Outcome(b, "skipped")
          \/ o = Outcome(cut, None) /\ b.access = "free"
      BY <1>1, <2>1, <2>2, <2>3, Removing
    <3> QED BY <1>2, <3>1 DEF Outcome
  <2>4. CASE p = cut /\ b.access = "free"
    <3>1. WellFormed(p) /\ p.access = "free" /\ find(TextOf(p), m) = None
      BY <1>1, <2>1, <2>4, WithoutBlock
    <3>2. o = Outcome(p, None)
      <4> HIDE DEF cut
      <4> QED BY <1>2, <2>2, <3>1, Removing
    <3> QED BY <1>2, <2>4, <3>2 DEF Outcome
  <2> QED BY <1>1, <1>5, <2>3, <2>4
<1> DEFINE undo == [existed |-> b.file # None, dir |-> b.dir, previous |-> now]
<1>6. /\ t.undo = undo
      /\ t.op.does = "put" => (now = None => t.op.origin.sep = separator_for(TextOf(b)))
  BY DEF BlockStage
<1> DEFINE q == o.place
           k == o.code
<1>7. "skipped" \in {k, t.code} => k = "skipped" BY <1>2
<1> HIDE DEF now, undo, cut, q, k
<1>8. /\ "skipped" \in {k, t.code} => q = b
      /\ t.op.does = "put" => q = b \/ (q = With(b, m, t.op.value) /\ b.access = "free")
      /\ t.op.does = "remove" => q = b \/ (q = cut /\ b.access = "free")
  BY <1>3, <1>4, <1>5, <1>7 DEF q, k
<1>9. BlockStage(q, t, k, "mutated", b, m)
  BY <1>1, <1>6, <1>8 DEF BlockStage, now, undo, cut
<1> QED BY <1>9 DEF q, k

\* The way back of a block.
LEMMA BlockUndoes ==
  ASSUME NEW p, WellFormed(p), NEW t, NEW pc, NEW b, NEW m \in Installations \cup {"product"},
         BlockStage(p, t, None, pc, b, m), t.at # "planned", t.state = "rolling_back",
         Writes(t.op), t.op.value \in Contents, t.op.origin \in Creations,
         NEW q,
         q = IF t.code = "skipped" THEN p
             ELSE IF t.undo.previous # None THEN AddBlock(p, m, t.undo.previous).place
             ELSE IF t.op.does = "put"
                  THEN RemoveBlock(p, m, t.op.origin.sep, ~t.undo.existed, ~t.undo.dir).place
             ELSE p
  PROVE  BlockStage(q, t, None, "undone", b, m)
<1> DEFINE now == find(TextOf(b), m)
           c   == t.op.value
           cut == Cut(b, m, t)
           undo == [existed |-> b.file # None, dir |-> b.dir, previous |-> now]
           noFile == (b.file = None)
           noDir  == ~b.dir
           sep    == t.op.origin.sep
<1>1. /\ WellFormed(b) /\ (t.op.does = "remove" => now = c)
      /\ Writes(t.op) => ~Locked(b) /\ now # Damaged
      /\ t.undo = undo /\ ("skipped" \in {None, t.code} => p = b)
      /\ t.op.does = "put" => /\ now = None => sep = separator_for(TextOf(b))
                              /\ p = b \/ (p = With(b, m, c) /\ b.access = "free")
      /\ t.op.does = "remove" =>
           \/ p = b
           \/ p = cut /\ b.access = "free"
           \/ Alike(p, b) /\ find(TextOf(p), m) = now
  BY DEF BlockStage
<1>2. c # None /\ c # Damaged /\ None # Damaged /\ None # "skipped" /\ c \in Contents
  BY NothingElse, ResourcesAssumption
<1>3. t.op.does \in {"put", "remove"} BY DEF Writes
<1>4. /\ t.undo.previous = now /\ (~t.undo.existed <=> noFile) /\ (~t.undo.dir <=> noDir)
  <2>1. b.dir \in BOOLEAN BY <1>1, ProfileParts
  <2>2. undo.existed = (b.file # None) /\ undo.dir = b.dir /\ undo.previous = now OBVIOUS
  <2> HIDE DEF undo, now
  <2>3. t.undo = undo BY <1>1
  <2> QED BY <2>1, <2>2, <2>3
<1>5. now # None => now \in Contents \cup {Edited}
  <2>1. now \in Contents \cup {Edited, Damaged, None} BY <1>1, ProfileParts, FoundText
  <2> QED BY <1>1, <2>1
<1>6. /\ t.code # "skipped" /\ now # None => q = AddBlock(p, m, now).place
      /\ t.code # "skipped" /\ now = None /\ t.op.does = "put" => q = RemoveBlock(p, m, sep, noFile, noDir).place
      /\ t.code = "skipped" => q = p /\ p = b
      /\ now = None => t.op.does = "put"
  <2>1. (~t.undo.existed) = noFile /\ (~t.undo.dir) = noDir BY <1>4
  <2>2. now = None => t.op.does = "put" BY <1>1, <1>2, <1>3
  <2>3. t.undo.previous = now BY <1>4
  <2>4. t.code = "skipped" => q = p /\ p = b BY <1>1
  <2> HIDE DEF now, noFile, noDir
  <2> QED BY <2>1, <2>2, <2>3, <2>4
<1>7. ASSUME t.op.does = "put" PROVE q = b
  <2>1. CASE t.code = "skipped" BY <1>6, <2>1
  <2>2. CASE t.code # "skipped" /\ now # None
    <3>1. q = AddBlock(p, m, now).place /\ now \in Contents \cup {Edited}
      BY <1>5, <1>6, <2>2
    <3>2. CASE p = b
      <4>1. \/ AddBlock(b, m, now) = Outcome(b, "skipped") \/ AddBlock(b, m, now) = Outcome(b, None)
        BY <1>1, <3>1, Adding
      <4> QED BY <3>1, <3>2, <4>1 DEF Outcome
    <3>3. CASE p = With(b, m, c) /\ b.access = "free"
      <4>1. AddBlock(With(b, m, c), m, now).place = b BY <1>1, <1>2, <3>1, <3>3, PutBackOver
      <4> QED BY <3>1, <3>3, <4>1
    <3> QED BY <1>1, <1>7, <3>2, <3>3
  <2>3. CASE t.code # "skipped" /\ now = None
    <3>1. q = RemoveBlock(p, m, sep, noFile, noDir).place BY <1>6, <1>7, <2>3
    <3>2. CASE p = b
      <4>1. \/ RemoveBlock(b, m, sep, noFile, noDir) = Outcome(b, "skipped")
            \/ RemoveBlock(b, m, sep, noFile, noDir) = Outcome(b, None)
        BY <1>1, <2>3, Removing
      <4> QED BY <3>1, <3>2, <4>1 DEF Outcome
    <3>3. CASE p = With(b, m, c) /\ b.access = "free"
      <4>1. sep = separator_for(TextOf(b)) BY <1>1, <1>7, <2>3
      <4>2. RemoveBlock(With(b, m, c), m, separator_for(TextOf(b)), b.file = None, ~b.dir).place = b
        BY <1>1, <1>2, <2>3, <3>3, TakenBack
      <4> QED BY <3>1, <3>3, <4>1, <4>2
    <3> QED BY <1>1, <1>7, <3>2, <3>3
  <2> QED BY <2>1, <2>2, <2>3
<1>8. ASSUME t.op.does = "remove" PROVE Alike(q, b) /\ find(TextOf(q), m) = now
  <2>1. CASE t.code = "skipped" BY <1>6, <2>1 DEF Alike
  <2>2. CASE t.code # "skipped"
    <3>1. now # None /\ now \in Contents \cup {Edited} BY <1>1, <1>2, <1>8
    <3>2. q = AddBlock(p, m, now).place BY <1>6, <2>2, <3>1
    <3>3. CASE p = b
      <4>1. \/ AddBlock(b, m, now) = Outcome(b, "skipped") \/ AddBlock(b, m, now) = Outcome(b, None)
        BY <1>1, <3>1, Adding
      <4>2. q = b BY <3>2, <3>3, <4>1 DEF Outcome
      <4> QED BY <4>2 DEF Alike
    <3>4. CASE p = cut /\ b.access = "free"
      <4> DEFINE x == t.op.origin.file
                 y == t.op.origin.dir
      <4>1. cut = Without(b, m, sep, x, y) /\ sep \in 0..2 /\ x \in BOOLEAN /\ y \in BOOLEAN
        BY DEF Cut, Creations
      <4> HIDE DEF cut, sep, x, y
      <4> QED BY <1>1, <3>1, <3>2, <3>4, <4>1, PutBackAfter
    <3>5. CASE p # b /\ Alike(p, b) /\ find(TextOf(p), m) = now
      <4>1. \/ AddBlock(p, m, now) = Outcome(p, "skipped") \/ AddBlock(p, m, now) = Outcome(p, None)
        <5> HIDE DEF now
        <5> QED BY <3>1, <3>5, Adding
      <4>2. q = p BY <3>2, <4>1 DEF Outcome
      <4> QED BY <3>5, <4>2
    <3> QED BY <1>1, <1>8, <3>3, <3>4, <3>5
  <2> QED BY <2>1, <2>2
<1> HIDE DEF now, undo, cut, sep
<1>9. /\ "skipped" \in {None, t.code} => q = b
      /\ t.op.does = "put" => q = b
      /\ t.op.does = "remove" => Alike(q, b) /\ find(TextOf(q), m) = now /\ t.state = "rolling_back"
  BY <1>2, <1>6, <1>7, <1>8
<1>10. BlockStage(q, t, None, "undone", b, m)
  BY <1>1, <1>9 DEF BlockStage, now, undo, cut, sep
<1> QED BY <1>10

LEMMA BlockStep ==
  ASSUME Common, NEW i \in Installations, IsProfile, StageOK(i), history'.before[i] # None,
         Begin(i) \/ Prepare(i) \/ Mutate(i) \/ Undo(i)
  PROVE  BlockStage(place', txn'[i], mem'[i].code, mem'[i].pc, history'.before[i][1], Marker(i))
<1> DEFINE m == Marker(i)
           b == history.before[i][1]
<1>0. /\ TypeOK /\ TransactionOK(i) /\ ProcessOK(i) /\ WellFormed(place)
      /\ m \in Installations \cup {"product"}
  <2>1. TypeOK BY DEF Common
  <2> QED BY <2>1, KindsOfPlace, Markers DEF Common
<1>1. ASSUME txn[i] # None, txn[i].at # "planned"
      PROVE  /\ Writes(txn[i].op) /\ txn[i].op.value \in Contents /\ txn[i].op.origin \in Creations
  <2>1. Writes(txn[i].op) /\ OriginOK(kind, txn[i].op.origin) /\ txn[i].op.origin # None
    BY <1>0, <1>1 DEF TransactionOK
  <2>2. txn[i].op.value \in Contents
    BY <1>0, <1>1, <2>1, NothingElse DEF TransactionOK, Writes
  <2>3. txn[i].op.origin \in Creations BY <2>1 DEF OriginOK, IsProfile
  <2> QED BY <2>1, <2>2, <2>3
<1>2. CASE Begin(i) BY <1>2, BlockBegins
<1>3. CASE Prepare(i)
  <2>1. history' = history BY <1>3 DEF Prepare
  <2> QED BY <1>3, <2>1, BlockPrepares
<1>4. CASE Mutate(i)
  <2> DEFINE t == txn[i]
             o == Mutated(i)
  <2>1. /\ txn' = txn /\ t # None /\ t.at = "applying" /\ t.state = "running" /\ t.code = None
        /\ place' = o.place /\ history'.before[i] = history.before[i]
        /\ mem'[i].pc = "mutated" /\ mem'[i].code = o.code
    BY <1>4, MutateIs
  <2>2. Writes(t.op) /\ t.op.value \in Contents /\ t.op.origin \in Creations BY <1>1, <2>1
  <2>3. BlockStage(place, t, mem[i].code, mem[i].pc, b, m) BY <2>1 DEF StageOK
  <2>4. t.op.origin # None BY <2>2, NothingElse
  <2>5. /\ t.op.does = "put" => o = AddBlock(place, m, t.op.value)
        /\ t.op.does = "remove" =>
             o = RemoveBlock(place, m, t.op.origin.sep, t.op.origin.file, t.op.origin.dir)
    BY <2>4 DEF Mutated, IsProfile
  <2> HIDE DEF t, o, b, m
  <2>6. BlockStage(o.place, t, o.code, "mutated", b, m)
    BY <1>0, <2>1, <2>2, <2>3, <2>5, BlockMutates
  <2> QED BY <2>1, <2>6 DEF t, b, m
<1>5. CASE Undo(i)
  <2> DEFINE t == txn[i]
             q == Undone(i)
  <2>1. /\ txn' = txn /\ t # None /\ t.at # "planned" /\ t.state = "rolling_back" /\ mem[i].code = None
        /\ place' = q /\ history'.before[i] = history.before[i]
        /\ mem'[i].pc = "undone" /\ mem'[i].code = None
    BY <1>5, UndoStepIs
  <2>2. Writes(t.op) /\ t.op.value \in Contents /\ t.op.origin \in Creations BY <1>1, <2>1
  <2>3. BlockStage(place, t, None, mem[i].pc, b, m) BY <2>1 DEF StageOK
  <2>4. q = IF t.code = "skipped" THEN place
            ELSE IF t.undo.previous # None THEN AddBlock(place, m, t.undo.previous).place
            ELSE IF t.op.does = "put"
                 THEN RemoveBlock(place, m, t.op.origin.sep, ~t.undo.existed, ~t.undo.dir).place
            ELSE place
    BY DEF Undone, UndoneBlock, IsProfile
  <2> HIDE DEF t, q, b, m
  <2>5. BlockStage(q, t, None, "undone", b, m) BY <1>0, <2>1, <2>2, <2>3, <2>4, BlockUndoes
  <2> QED BY <2>1, <2>5 DEF t, b, m
<1> QED BY <1>2, <1>3, <1>4, <1>5

\* Nobody else comes between a plan's look at a place and its own write.
LEMMA OthersUndoing ==
  ASSUME Common, Others, NEW i \in Installations, StageOK(i)
  PROVE  StageOK(i)'
<1>1. /\ kind' = kind /\ txn' = txn /\ Exposed /\ history'.before[i] = None BY OthersIs
<1>2. IsProfile' = IsProfile BY <1>1 DEF IsProfile
<1>3. ~IsProfile /\ txn[i] # None => kind # "shortcut" /\ txn[i].at = "applied"
  BY <1>1 DEF Exposed
<1>4. ~IsProfile /\ txn[i] # None =>
        /\ VariableStage(place', txn'[i], mem'[i].pc, history'.before[i])
        /\ RuleStage(place', txn'[i], mem'[i].pc, history'.before[i], row'[i] # None)
  BY <1>1, <1>3 DEF VariableStage, RuleStage
<1>5. kind \in {"shortcut", "environment", "firewall"} => ~IsProfile BY DEF IsProfile
<1> QED BY <1>1, <1>2, <1>3, <1>4, <1>5 DEF StageOK

LEMMA UndoingStep ==
  ASSUME Common, Undoing, [Next]_vars
  PROVE  Undoing'
<1>1. ASSUME NEW i \in Installations, EngineStep(i), NEW j \in Installations PROVE StageOK(j)'
  <2>0. StageOK(i) /\ StageOK(j) /\ Common BY DEF Undoing
  <2>1. CASE j # i BY <1>1, <2>0, <2>1, StageElsewhere
  <2>2. CASE j = i /\ (Mark(i) \/ Fail(i) \/ Crash(i) \/ Recover(i))
    BY <2>0, <2>2, RestingIs, Resting
  <2>3. CASE j = i /\ (Commit(i) \/ FinishRollback(i))
    <3>1. txn'[i] = None BY <2>3 DEF Commit, FinishRollback, Closed, Common, TypeOK
    <3> QED BY <2>3, <3>1 DEF StageOK
  <2>4. CASE j = i /\ KeepPrevious(i)
    <3>1. kind = "shortcut" /\ kind' = kind BY <2>4 DEF KeepPrevious, ToBackUp
    <3>2. LinkStage(place', txn'[i], backup'[i], mem'[i].pc, history'.before[i])
      BY <2>0, <2>4, <3>1, LinkStep
    <3> QED BY <2>4, <3>1, <3>2 DEF StageOK, IsProfile
  <2>5. CASE j = i /\ (Begin(i) \/ Prepare(i) \/ Mutate(i) \/ Undo(i))
    <3>1. kind' = kind BY <2>5 DEF Begin, Prepare, Mutate, Undo
    <3>2. IsProfile' = IsProfile /\ Marker(i)' = Marker(i) BY <3>1 DEF IsProfile, Marker
    <3>3. kind = "shortcut" => LinkStage(place', txn'[i], backup'[i], mem'[i].pc, history'.before[i])
      BY <2>0, <2>5, LinkStep
    <3>4. kind = "environment" => VariableStage(place', txn'[i], mem'[i].pc, history'.before[i])
      BY <2>0, <2>5, VariableStep
    <3>5. kind = "firewall" =>
            RuleStage(place', txn'[i], mem'[i].pc, history'.before[i], row'[i] # None)
      BY <2>0, <2>5, RuleStep
    <3>6. IsProfile /\ history'.before[i] # None =>
            BlockStage(place', txn'[i], mem'[i].code, mem'[i].pc, history'.before[i][1], Marker(i))
      BY <2>0, <2>5, BlockStep
    <3> QED BY <2>5, <3>1, <3>2, <3>3, <3>4, <3>5, <3>6 DEF StageOK
  <2> QED BY <1>1, <2>1, <2>2, <2>3, <2>4, <2>5 DEF EngineStep
<1>2. CASE Others BY <1>2, OthersUndoing DEF Undoing
<1>3. CASE UNCHANGED vars
  <2>1. /\ kind' = kind /\ place' = place /\ row' = row /\ txn' = txn /\ backup' = backup
        /\ mem' = mem /\ history' = history
    BY <1>3 DEF vars
  <2>2. IsProfile' = IsProfile /\ \A i \in Installations : Marker(i)' = Marker(i)
    BY <2>1 DEF IsProfile, Marker
  <2>3. ASSUME NEW i \in Installations PROVE StageOK(i)'
    <3>1. StageOK(i) BY DEF Undoing
    <3> QED BY <2>1, <2>2, <3>1 DEF StageOK
  <2> QED BY <2>3 DEF Undoing
<1>4. (\E i \in Installations : EngineStep(i)) => Undoing' BY <1>1 DEF Undoing
<1> QED BY <1>2, <1>3, <1>4 DEF Next

\* The undo record leads back, from every place the attempts may have left,
\* as long as nobody else touches the place.
THEOREM UndoRecordStands == Spec => [](Common /\ Undoing)
<1>1. Init => Common /\ Undoing BY CommonInit DEF Init, Undoing, StageOK
<1>2. Common /\ Undoing /\ [Next]_vars => (Common /\ Undoing)' BY CommonStep, UndoingStep
<1> QED BY <1>1, <1>2, PTL DEF Spec

\* A rolled back transaction leaves the place as it was when it began, unless
\* somebody else touched it meanwhile, through any crashes, resumed attempts
\* and refusals (rollback.rs 138-236).
THEOREM UndoneAsBegun == Spec => UndoneAsBefore
<1> DEFINE Back == \A i \in Installations :
                     FinishRollback(i) /\ history.before[i] # None =>
                       LET before == history.before[i][1]
                       IN  IF IsProfile /\ txn[i].op.does = "remove"
                           THEN /\ TextsOf(place) = TextsOf(before) /\ BlocksOf(place) = BlocksOf(before)
                                /\ place.dir = before.dir
                           ELSE place = before
<1>1. Common /\ Undoing => Back
  <2> SUFFICES ASSUME Common, Undoing, NEW i \in Installations, FinishRollback(i), history.before[i] # None
               PROVE  LET before == history.before[i][1]
                      IN  IF IsProfile /\ txn[i].op.does = "remove"
                          THEN /\ TextsOf(place) = TextsOf(before) /\ BlocksOf(place) = BlocksOf(before)
                               /\ place.dir = before.dir
                          ELSE place = before
    OBVIOUS
  <2> DEFINE b == history.before[i][1]
             t == txn[i]
  <2>1. TypeOK /\ TransactionOK(i) /\ ProcessOK(i) /\ StageOK(i) BY DEF Common, Undoing
  <2>2. mem[i].pc = "undone" \/ (mem[i].pc = "reverse" /\ t.at = "planned")
    BY DEF FinishRollback
  <2>3. t # None /\ (mem[i].pc = "undone" => t.at # "planned") BY <2>1, <2>2 DEF ProcessOK
  <2>4. t.at # "planned" => t.at \in {"applying", "applied"} /\ t.op.does \in {"put", "remove"}
    <3>1. t \in Transactions BY <2>1, <2>3 DEF TypeOK
    <3>2. t.at \in {"planned", "applying", "applied"} BY <3>1 DEF Transactions
    <3> QED BY <2>1, <2>3, <3>2 DEF TransactionOK, Writes
  <2>5. CASE kind = "shortcut"
    <3>1. LinkStage(place, t, backup[i], mem[i].pc, history.before[i])
      BY <2>1, <2>3, <2>5 DEF StageOK
    <3>2. history.before[i] = <<place>> BY <2>2, <2>3, <3>1 DEF LinkStage
    <3> QED BY <2>5, <3>2 DEF IsProfile
  <2>6. CASE kind = "environment"
    <3>1. VariableStage(place, t, mem[i].pc, history.before[i])
      BY <2>1, <2>3, <2>6 DEF StageOK
    <3>2. history.before[i] = <<place>> BY <2>2, <2>3, <2>4, <3>1 DEF VariableStage
    <3> QED BY <2>6, <3>2 DEF IsProfile
  <2>7. CASE kind = "firewall"
    <3>1. RuleStage(place, t, mem[i].pc, history.before[i], row[i] # None)
      BY <2>1, <2>3, <2>7 DEF StageOK
    <3>2. history.before[i] = <<place>> BY <2>2, <2>3, <2>4, <3>1 DEF RuleStage
    <3> QED BY <2>7, <3>2 DEF IsProfile
  <2>8. CASE IsProfile
    <3>1. BlockStage(place, t, mem[i].code, mem[i].pc, b, Marker(i))
      BY <2>1, <2>3, <2>8 DEF StageOK
    <3> HIDE DEF b, t
    <3>2. place = b \/ (t.op.does = "remove" /\ Alike(place, b))
      BY <2>2, <2>3, <2>4, <3>1 DEF BlockStage
    <3>3. IF t.op.does = "remove" THEN Alike(place, b) ELSE place = b BY <3>2 DEF Alike
    <3> QED BY <2>8, <3>3 DEF Alike, b, t
  <2> QED BY <2>1, <2>5, <2>6, <2>7, <2>8, KindsOfPlace
<1> HIDE DEF Back
<1>2. Common /\ Undoing => [Back]_vars BY <1>1
<1>3. Spec => [][Back]_vars BY <1>2, UndoRecordStands, PTL
<1> QED BY <1>3 DEF UndoneAsBefore, Back

(***************************************************************************)
(* What is not the product's outlasts every step.                           *)
(***************************************************************************)

\* A step on a profile leaves the lines of its users, and, where no separator
\* is meant to end a line, keeps them apart.
Keeps(p, q, ended) ==
  /\ TextsOf(q) = TextsOf(p)
  /\ Tidy(TextOf(p)) /\ ended => Tidy(TextOf(q))

Ended(i) == txn[i].op.origin.sep # 2

LEMMA BlockOperation ==
  ASSUME Common, IsProfile, NEW i \in Installations, txn[i] # None, txn[i].at # "planned"
  PROVE  /\ txn[i].op.does \in {"put", "remove"} /\ txn[i].op.value \in Contents
         /\ txn[i].op.origin # None /\ txn[i].op.origin.sep \in 0..2
         /\ txn[i].op.origin.file \in BOOLEAN /\ txn[i].op.origin.dir \in BOOLEAN
         /\ txn[i].undo.previous \in Contents \cup {Edited, None}
         /\ WellFormed(place) /\ Marker(i) \in Installations \cup {"product"}
<1>1. TypeOK /\ TransactionOK(i) BY DEF Common
<1>2. txn[i].op.does \in {"put", "remove"} /\ txn[i].op.value \in Contents
  BY <1>1, NothingElse DEF TransactionOK, Writes
<1>3. txn[i].op.origin # None /\ OriginOK(kind, txn[i].op.origin) /\ PreviousOK(kind, txn[i].undo.previous)
  BY <1>1 DEF TransactionOK
<1>4. txn[i].op.origin \in Creations /\ txn[i].undo.previous \in Contents \cup {Edited, None}
  BY <1>3 DEF OriginOK, PreviousOK, IsProfile
<1> QED BY <1>1, <1>2, <1>3, <1>4, KindsOfPlace, Markers DEF Creations

LEMMA MutatedKeeps ==
  ASSUME Common, IsProfile, NEW i \in Installations, txn[i] # None, txn[i].at # "planned"
  PROVE  Keeps(place, Mutated(i).place, Ended(i))
<1> DEFINE op == txn[i].op
           sep == op.origin.sep
           file == op.origin.file
           dir == op.origin.dir
<1>1. /\ op.does \in {"put", "remove"} /\ op.value \in Contents \cup {Edited} /\ op.origin # None
      /\ sep \in 0..2 /\ file \in BOOLEAN /\ dir \in BOOLEAN
      /\ WellFormed(place) /\ Marker(i) \in Installations \cup {"product"}
  BY BlockOperation
<1>2. CASE op.does = "put"
  <2>1. Mutated(i) = AddBlock(place, Marker(i), op.value) BY <1>2 DEF Mutated, IsProfile
  <2> HIDE DEF op
  <2> QED BY <1>1, <2>1, AddingKeeps DEF Keeps
<1>3. CASE op.does = "remove"
  <2>1. Mutated(i) = RemoveBlock(place, Marker(i), sep, file, dir)
    BY <1>1, <1>3 DEF Mutated, IsProfile
  <2>2. Ended(i) <=> sep # 2 BY DEF Ended
  <2> HIDE DEF op, sep, file, dir
  <2> QED BY <1>1, <2>1, <2>2, RemovingKeeps DEF Keeps
<1> QED BY <1>1, <1>2, <1>3

LEMMA UndoneKeeps ==
  ASSUME Common, IsProfile, NEW i \in Installations, txn[i] # None, txn[i].at # "planned"
  PROVE  Keeps(place, Undone(i), Ended(i))
<1> DEFINE t == txn[i]
           sep == t.op.origin.sep
           fresh == ~t.undo.existed
           alone == ~t.undo.dir
<1>1. /\ sep \in 0..2 /\ t.undo.previous \in Contents \cup {Edited, None}
      /\ WellFormed(place) /\ Marker(i) \in Installations \cup {"product"}
  BY BlockOperation
<1>2. Undone(i) = UndoneBlock(i) BY DEF Undone, IsProfile
<1>3. CASE t.code # "skipped" /\ t.undo.previous # None
  <2>1. Undone(i) = AddBlock(place, Marker(i), t.undo.previous).place
    BY <1>2, <1>3 DEF UndoneBlock
  <2>2. t.undo.previous \in Contents \cup {Edited} BY <1>1, <1>3
  <2> HIDE DEF t
  <2> QED BY <1>1, <2>1, <2>2, AddingKeeps DEF Keeps
<1>4. CASE t.code # "skipped" /\ t.undo.previous = None /\ t.op.does = "put"
  <2>1. Undone(i) = RemoveBlock(place, Marker(i), sep, fresh, alone).place
    BY <1>2, <1>4 DEF UndoneBlock
  <2>2. (Ended(i) <=> sep # 2) /\ fresh \in BOOLEAN /\ alone \in BOOLEAN BY DEF Ended
  <2> HIDE DEF t, sep, fresh, alone
  <2> QED BY <1>1, <2>1, <2>2, RemovingKeeps DEF Keeps
<1>5. CASE t.code = "skipped" \/ (t.undo.previous = None /\ t.op.does # "put")
  <2>1. Undone(i) = place BY <1>2, <1>5 DEF UndoneBlock
  <2> QED BY <2>1 DEF Keeps
<1> QED BY <1>3, <1>4, <1>5

\* Every step of the engine.
LEMMA ProfileStep ==
  ASSUME Common, IsProfile, NEW i \in Installations, EngineStep(i)
  PROVE  /\ TextsOf(place') = TextsOf(place)
         /\ Tidy(TextOf(place)) /\ (txn[i] # None /\ txn[i].at # "planned" => Ended(i)) =>
              Tidy(TextOf(place'))
<1>1. CASE Mutate(i)
  <2>1. txn[i] # None /\ txn[i].at # "planned" /\ place' = Mutated(i).place
    BY <1>1, MutateIs
  <2> QED BY <2>1, MutatedKeeps DEF Keeps
<1>2. CASE Undo(i)
  <2>1. txn[i] # None /\ txn[i].at # "planned" /\ place' = Undone(i) BY <1>2, UndoStepIs
  <2> QED BY <2>1, UndoneKeeps DEF Keeps
<1>3. CASE ~Mutate(i) /\ ~Undo(i)
  <2>1. ~KeepPrevious(i) BY DEF KeepPrevious, ToBackUp, IsProfile
  <2>2. place' = place
    BY <1>3, <2>1 DEF EngineStep, Begin, Prepare, Mark, Commit, Fail, FinishRollback, Crash, Recover
  <2> QED BY <2>2
<1> QED BY <1>1, <1>2, <1>3

\* A plan passes on how a block came to be, or nothing.
LEMMA PlannedOrigin ==
  ASSUME IsProfile, NEW i \in Installations, NEW want, NEW repair
  PROVE  LET origin == PlanOf(i, want, repair).origin
         IN  \/ origin \in {None, NoOrigin}
             \/ row[i] # None /\ origin = row[i].origin
<1>1. PlanOf(i, want, repair) = PlanBlock(i, want) BY DEF PlanOf, IsProfile
<1> QED BY <1>1 DEF PlanBlock, Operation, NoOperation, Kept

\* In a tidy profile no separator is two breaks.
EndedOrigins(i) ==
  /\ row[i] # None => row[i].origin.sep # 2
  /\ txn[i] # None /\ txn[i].op.origin # None => txn[i].op.origin.sep # 2

LEMMA EndedPrepare ==
  ASSUME Common, IsProfile, Tidy(TextOf(place)), NEW i \in Installations, EndedOrigins(i), Prepare(i)
  PROVE  txn'[i].op.origin # None => txn'[i].op.origin.sep # 2
<1> DEFINE op == txn[i].op
           undo == UndoOf(i)
<1>1. /\ op.does \in {"put", "remove"} /\ txn'[i].op.origin = OriginOf(op, undo) /\ txn[i] # None
  <2>1. txn[i] # None BY PrepareMoves, NothingElse
  <2> QED BY <2>1, PrepareMoves DEF Writes
<1>2. undo.existed => place.file # None
  <2> DEFINE there == place.file # None /\ profile_state(place, Marker(i)) # Unreadable
             now == IF profile_state(place, Marker(i)) \in {Unreadable, Damaged} THEN None
                    ELSE profile_state(place, Marker(i))
  <2>1. undo = [existed |-> there, dir |-> place.dir, previous |-> now] BY UndoIs
  <2>2. there => place.file # None OBVIOUS
  <2> HIDE DEF there, now, undo
  <2> QED BY <2>1, <2>2
<1>3. undo.existed => separator_for(place.file) # 2
  <2>1. WellFormed(place) BY KindsOfPlace DEF Common
  <2>2. TextOf(place) \in Seq(Tokens) /\ (place.file # None => place.file = TextOf(place))
    BY <2>1, ProfileParts
  <2>3. separator_for(TextOf(place)) # 2
    <3>1. TextOf(place) = <<>> \/ TextOf(place)[Len(TextOf(place))] = NewLine
      BY DEF Tidy, Finished
    <3> QED BY <2>2, <3>1, Separators
  <2> QED BY <1>2, <2>2, <2>3
<1>4. op.origin # None => op.origin.sep # 2 BY <1>1 DEF EndedOrigins
<1>5. NoOrigin.sep = 0 BY DEF NoOrigin
<1> HIDE DEF op, undo
<1>6. OriginOf(op, undo) # None => OriginOf(op, undo).sep # 2
  <2>1. CASE op.does # "put" BY <1>4, <2>1 DEF OriginOf
  <2>2. CASE op.does = "put" /\ undo.previous # None BY <1>4, <1>5, <2>2 DEF OriginOf
  <2>3. CASE op.does = "put" /\ undo.previous = None
    <3>1. OriginOf(op, undo).sep = IF undo.existed THEN separator_for(place.file) ELSE 0
      BY <2>3 DEF OriginOf
    <3> QED BY <1>3, <3>1
  <2> QED BY <2>1, <2>2, <2>3
<1> QED BY <1>1, <1>6

LEMMA EndedStep ==
  ASSUME Common, EndedLines, [Next]_vars
  PROVE  EndedLines'
<1>0. kind' = kind /\ (IsProfile' <=> IsProfile)
  BY OthersIs, OthersStand DEF Next, EngineStep, Begin, Prepare, KeepPrevious, Mutate, Mark, Commit, Fail, Undo,
     FinishRollback, Crash, Recover, vars, IsProfile
<1> SUFFICES ASSUME IsProfile
             PROVE  Tidy(TextOf(place))' /\ \A i \in Installations : EndedOrigins(i)'
  BY <1>0 DEF EndedLines, EndedOrigins
<1>1. Tidy(TextOf(place)) /\ \A i \in Installations : EndedOrigins(i)
  BY DEF EndedLines, EndedOrigins
<1>2. ASSUME NEW i \in Installations, EngineStep(i)
      PROVE  Tidy(TextOf(place')) /\ \A j \in Installations : EndedOrigins(j)'
  <2>1. Tidy(TextOf(place'))
    <3>1. txn[i] # None /\ txn[i].at # "planned" => Ended(i)
      <4> SUFFICES ASSUME txn[i] # None, txn[i].at # "planned" PROVE Ended(i) OBVIOUS
      <4>1. txn[i].op.origin # None BY BlockOperation
      <4> QED BY <1>1, <4>1 DEF EndedOrigins, Ended
    <3> QED BY <1>1, <1>2, <3>1, ProfileStep
  <2>2. ASSUME NEW j \in Installations, j # i PROVE EndedOrigins(j)'
    <3>1. txn'[j] = txn[j] /\ row'[j] = row[j] BY <1>2, <2>2, OthersStand
    <3> QED BY <1>1, <3>1 DEF EndedOrigins
  <2>3. EndedOrigins(i)'
    <3>0. EndedOrigins(i) BY <1>1
    <3>1. CASE Begin(i)
      <4>1. PICK want \in Own(i) \cup {None}, repair \in BOOLEAN :
              txn'[i] = [op |-> PlanOf(i, want, repair), state |-> "running", at |-> "planned",
                         undo |-> NoUndo, code |-> None]
        BY <3>1, BeginIs
      <4> DEFINE origin == PlanOf(i, want, repair).origin
      <4>2. txn'[i].op.origin = origin BY <4>1
      <4>3. \/ origin \in {None, NoOrigin}
            \/ row[i] # None /\ origin = row[i].origin
        BY PlannedOrigin
      <4>4. row' = row /\ NoOrigin.sep = 0 BY <3>1 DEF Begin, NoOrigin
      <4> HIDE DEF origin
      <4> QED BY <3>0, <4>2, <4>3, <4>4 DEF EndedOrigins
    <3>2. CASE Prepare(i)
      <4>1. row' = row BY <3>2 DEF Prepare
      <4> QED BY <1>1, <3>0, <3>2, <4>1, EndedPrepare DEF EndedOrigins
    <3>3. CASE Mutate(i) \/ Undo(i)
      <4>1. row' = row /\ txn' = txn BY <3>3 DEF Mutate, Undo
      <4> QED BY <3>0, <4>1 DEF EndedOrigins
    <3>4. CASE Mark(i) \/ Fail(i) \/ Crash(i) \/ Recover(i)
      <4>1. row' = row /\ txn[i] # None /\ txn'[i].op = txn[i].op
        BY <3>4, RestingIs DEF Rests
      <4> QED BY <3>0, <4>1 DEF EndedOrigins
    <3>5. CASE FinishRollback(i)
      <4>1. row' = row /\ txn'[i] = None BY <3>5 DEF FinishRollback, Closed, Common, TypeOK
      <4> QED BY <3>0, <4>1 DEF EndedOrigins
    <3>6. CASE Commit(i)
      <4>1. txn'[i] = None /\ row'[i] = RowOf(txn[i])
        BY <3>6 DEF Commit, Closed, Common, TypeOK
      <4>2. txn[i] # None BY <3>6 DEF Commit, Common, ProcessOK
      <4>3. RowOf(txn[i]) # None =>
              RowOf(txn[i]).origin = txn[i].op.origin /\ txn[i].op.origin # None
        <5>1. ~(kind = "environment") BY DEF IsProfile
        <5>2. TransactionOK(i) BY DEF Common
        <5>3. RowOf(txn[i]) # None =>
                RowOf(txn[i]).origin = txn[i].op.origin /\ txn[i].op.does \in {"put", "keep"}
          BY <4>2, <5>1, RowIs
        <5>4. txn[i].op.does = "put" => txn[i].at # "planned"
          <6>1. txn[i].at = "applied" \/ ~Writes(txn[i].op) BY <3>6 DEF Commit
          <6> QED BY <6>1 DEF Writes
        <5> QED BY <4>2, <5>2, <5>3, <5>4 DEF TransactionOK, HasOrigin
      <4> QED BY <3>0, <4>1, <4>2, <4>3 DEF EndedOrigins
    <3>7. ~KeepPrevious(i) BY DEF KeepPrevious, ToBackUp, IsProfile
    <3> QED BY <1>2, <3>1, <3>2, <3>3, <3>4, <3>5, <3>6, <3>7 DEF EngineStep
  <2> QED BY <2>1, <2>2, <2>3
<1>3. CASE Others
  <2>1. txn' = txn /\ row' = row /\ Tidy(TextOf(place')) BY <1>1, <1>3, OthersIs
  <2> QED BY <1>1, <2>1 DEF EndedOrigins
<1>4. CASE UNCHANGED vars BY <1>1, <1>4 DEF vars, EndedOrigins
<1> QED BY <1>2, <1>3, <1>4 DEF Next

\* Where no profile was found ending inside a line.
LEMMA EndedInit ==
  ASSUME FoundEnded, Init
  PROVE  EndedLines
<1> SUFFICES ASSUME IsProfile PROVE Tidy(TextOf(place)) BY NothingElse DEF Init, EndedLines
<1>1. kind \in Kinds \cap {"profile", "shared"} /\ place \in Firsts[kind]
  BY DEF Init, IsProfile
<1>2. Finished(TextOf(place)) /\ place \in FoundProfiles
  BY <1>1, ResourcesAssumption DEF FoundEnded
<1>3. Separate(TextOf(place))
  <2>1. CASE place.file = None BY <2>1 DEF TextOf, Separate
  <2>2. CASE place.file # None BY <1>2, <2>2 DEF FoundProfiles, TextOf
  <2> QED BY <2>1, <2>2
<1> QED BY <1>2, <1>3 DEF Tidy

\* Rules that are not the product's, in a sequence of rules.
LEMMA StrangersCount ==
  /\ \A p \in Seq(Rules) : Strangers(p) \in Nat
  /\ Strangers(<<>>) = 0
  /\ \A c : c # Stranger => Strangers(<<c>>) = 0
<1>1. ASSUME NEW p \in Seq(Rules) PROVE Strangers(p) \in Nat
  <2>1. IsFiniteSet(1..Len(p)) BY FS_Interval
  <2>2. {k \in DOMAIN p : p[k] = Stranger} \subseteq 1..Len(p) OBVIOUS
  <2>3. IsFiniteSet({k \in DOMAIN p : p[k] = Stranger}) BY <2>1, <2>2, FS_Subset
  <2> QED BY <2>3, FS_CardinalityType DEF Strangers
<1>2. Strangers(<<>>) = 0
  <2>1. {k \in DOMAIN <<>> : <<>>[k] = Stranger} = {} OBVIOUS
  <2> QED BY <2>1, FS_EmptySet DEF Strangers
<1>3. ASSUME NEW c, c # Stranger PROVE Strangers(<<c>>) = 0
  <2>1. {k \in DOMAIN <<c>> : <<c>>[k] = Stranger} = {} BY <1>3
  <2> QED BY <2>1, FS_EmptySet DEF Strangers
<1> QED BY <1>1, <1>2, <1>3

\* The operation of a step begun writes what is an installation's own.
LEMMA WritesOwn ==
  ASSUME Common, NEW i \in Installations, txn[i] # None, txn[i].at # "planned"
  PROVE  txn[i].op.does \in {"put", "remove"} /\ txn[i].op.value \in Contents /\ txn[i].op.value # Stranger
<1>1. TransactionOK(i) BY DEF Common
<1>2. txn[i].op.does \in {"put", "remove"} /\ txn[i].op.value \in Contents
  BY <1>1, NothingElse DEF TransactionOK, Writes
<1> QED BY <1>2, ResourcesAssumption

LEMMA RulesKept ==
  ASSUME Common, Undoing, kind = "firewall", NEW i \in Installations, EngineStep(i)
  PROVE  \/ Strangers(place') >= Strangers(place)
         \/ Len(place) = 1 /\ \E j \in Installations : row[j] # None
<1>0. /\ ~IsProfile /\ place \in Seq(Rules) /\ StageOK(i) /\ TypeOK
      /\ Strangers(place) \in Nat /\ Strangers(<<>>) = 0
  <2>1. TypeOK BY DEF Common
  <2> QED BY <2>1, KindsOfPlace, StrangersCount DEF Undoing
<1>1. place' \in Seq(Rules)
  <2>1. Common' /\ kind' = kind
    <3>1. [Next]_vars BY DEF Next
    <3>2. kind' = kind
      BY DEF EngineStep, Begin, Prepare, KeepPrevious, Mutate, Mark, Commit, Fail, Undo,
             FinishRollback, Crash, Recover
    <3> QED BY <3>1, <3>2, CommonStep
  <2> QED BY <2>1, KindsOfPlace DEF Common, TypeOK, PlaceOK, Places, IsProfile
<1>2. Strangers(place') \in Nat BY <1>1, StrangersCount
<1>3. CASE place' = place BY <1>0, <1>3
<1>4. CASE Strangers(place) = 0 BY <1>2, <1>4
<1>5. CASE Mutate(i)
  <2>1. /\ txn[i] # None /\ txn[i].at = "applying" /\ place' = Mutated(i).place
    BY <1>5, MutateIs
  <2>2. txn[i].op.does \in {"put", "remove"} /\ txn[i].op.value # Stranger
    BY <2>1, WritesOwn
  <2>3. RuleStage(place, txn[i], mem[i].pc, history.before[i], row[i] # None)
    BY <1>0, <2>1 DEF StageOK
  <2>4. CASE txn[i].op.does = "put"
    <3>1. /\ place \in {Rules0(txn[i]), <<txn[i].op.value>>}
          /\ txn[i].undo.previous # None => row[i] # None
      BY <2>1, <2>3, <2>4 DEF RuleStage
    <3>2. CASE place = <<txn[i].op.value>> BY <1>4, <2>2, <3>2, StrangersCount
    <3>3. CASE place = Rules0(txn[i]) /\ txn[i].undo.previous = None
      BY <1>0, <1>4, <3>3 DEF Rules0
    <3>4. CASE place = Rules0(txn[i]) /\ txn[i].undo.previous # None
      <4>1. Len(place) = 1 BY <3>4 DEF Rules0
      <4> QED BY <3>1, <3>4, <4>1
    <3> QED BY <3>1, <3>2, <3>3, <3>4
  <2>5. CASE txn[i].op.does = "remove"
    <3>1. Mutated(i).place = IF place = <<txn[i].op.value>> THEN <<>> ELSE place
      BY <1>0, <2>5 DEF Mutated, Outcome
    <3>2. CASE place = <<txn[i].op.value>> BY <1>4, <2>2, <3>2, StrangersCount
    <3>3. CASE place # <<txn[i].op.value>> BY <1>3, <2>1, <3>1, <3>3
    <3> QED BY <3>2, <3>3
  <2> QED BY <2>2, <2>4, <2>5
<1>6. CASE Undo(i)
  <2>1. txn[i] # None /\ txn[i].at # "planned" /\ place' = Undone(i) BY <1>6, UndoStepIs
  <2>2. txn[i].op.value # Stranger BY <2>1, WritesOwn
  <2>3. Undone(i) = IF place = <<>> \/ (txn[i].op.does = "put" /\ place = <<txn[i].op.value>>)
                    THEN Rules0(txn[i]) ELSE place
    BY <1>0 DEF Undone, UndoneRule, Rules0
  <2>4. CASE place = <<>> \/ place = <<txn[i].op.value>>
    BY <1>0, <1>4, <2>2, <2>4, StrangersCount
  <2>5. CASE place # <<>> /\ place # <<txn[i].op.value>> BY <1>3, <2>1, <2>3, <2>5
  <2> QED BY <2>4, <2>5
<1>7. CASE ~Mutate(i) /\ ~Undo(i)
  <2>1. ~KeepPrevious(i) BY DEF KeepPrevious, ToBackUp
  <2>2. place' = place
    BY <1>7, <2>1 DEF EngineStep, Begin, Prepare, Mark, Commit, Fail, FinishRollback, Crash, Recover
  <2> QED BY <1>3, <2>2
<1> QED BY <1>5, <1>6, <1>7

LEMMA LinkKept ==
  ASSUME Common, Undoing, kind = "shortcut", NEW i \in Installations, EngineStep(i),
         place = Stranger, place' # Stranger
  PROVE  backup'[i] = Stranger
<1>0. /\ ~IsProfile /\ StageOK(i) /\ TypeOK /\ Stranger # None
  <2>1. TypeOK BY DEF Common
  <2> QED BY <2>1, KindsOfPlace, NothingElse DEF Undoing
<1>1. CASE KeepPrevious(i) BY <1>0, <1>1 DEF KeepPrevious, TypeOK
<1>2. CASE Mutate(i)
  <2>1. /\ txn[i] # None /\ txn[i].at = "applying" /\ place' = Mutated(i).place
        /\ txn[i].state = "running" /\ ~ToBackUp(i)
    BY <1>2, MutateIs
  <2>2. txn[i].op.does \in {"put", "remove"} /\ txn[i].op.value # Stranger
    BY <2>1, WritesOwn
  <2>3. LinkStage(place, txn[i], backup[i], mem[i].pc, history.before[i])
    BY <1>0, <2>1 DEF StageOK
  <2>4. txn[i].undo.existed /\ backup[i] = None BY <1>0, <2>1, <2>2, <2>3 DEF LinkStage
  <2>5. txn[i].op.does = "remove" /\ ~Removable(i) BY <1>0, <2>1, <2>2, <2>4 DEF ToBackUp
  <2>6. Mutated(i).place = place BY <1>0, <2>5 DEF Mutated, Outcome
  <2> QED BY <2>1, <2>6
<1>3. CASE Undo(i)
  <2>1. /\ txn[i] # None /\ txn[i].at # "planned" /\ place' = Undone(i) BY <1>3, UndoStepIs
  <2>2. txn[i].op.value # Stranger BY <2>1, WritesOwn
  <2>3. LinkStage(place, txn[i], backup[i], mem[i].pc, history.before[i])
    BY <1>0, <2>1 DEF StageOK
  <2>4. place = txn[i].undo.previous /\ txn[i].undo.existed
    BY <1>0, <2>1, <2>2, <2>3 DEF LinkStage
  <2>5. Undone(i) = place BY <1>0, <2>4 DEF Undone, UndoneLink
  <2> QED BY <2>1, <2>5
<1>4. CASE ~KeepPrevious(i) /\ ~Mutate(i) /\ ~Undo(i)
  <2>1. place' = place
    BY <1>4 DEF EngineStep, Begin, Prepare, Mark, Commit, Fail, FinishRollback, Crash, Recover
  <2> QED BY <2>1
<1> QED BY <1>1, <1>2, <1>3, <1>4

LEMMA VariableKept ==
  ASSUME Common, Undoing, kind = "environment", NEW i \in Installations, EngineStep(i),
         place = Stranger, place' # Stranger
  PROVE  \/ txn'[i] # None /\ txn'[i].undo.previous = Stranger
         \/ row[i] # None /\ row[i].origin = <<Stranger>>
<1>0. /\ ~IsProfile /\ StageOK(i) /\ TypeOK /\ Stranger # None
  <2>1. TypeOK BY DEF Common
  <2> QED BY <2>1, KindsOfPlace, NothingElse DEF Undoing
<1>1. CASE Mutate(i)
  <2>1. /\ txn' = txn /\ txn[i] # None /\ txn[i].at = "applying" /\ place' = Mutated(i).place
    BY <1>1, MutateIs
  <2>2. txn[i].op.does \in {"put", "remove"} /\ txn[i].op.value # Stranger
    BY <2>1, WritesOwn
  <2>3. VariableStage(place, txn[i], mem[i].pc, history.before[i]) BY <1>0, <2>1 DEF StageOK
  <2>4. CASE txn[i].op.does = "put"
    <3>1. txn[i].undo.previous = Stranger
      BY <2>1, <2>2, <2>3, <2>4 DEF VariableStage, Written
    <3> QED BY <2>1, <3>1
  <2>5. CASE txn[i].op.does = "remove"
    <3>1. Mutated(i).place = IF place = txn[i].op.value THEN txn[i].op.origin[1] ELSE place
      BY <1>0, <2>5 DEF Mutated, Outcome
    <3> QED BY <2>1, <2>2, <3>1
  <2> QED BY <2>2, <2>4, <2>5
<1>2. CASE Undo(i)
  <2>1. /\ txn[i] # None /\ txn[i].at # "planned" /\ place' = Undone(i) BY <1>2, UndoStepIs
  <2>2. txn[i].op.does \in {"put", "remove"} /\ txn[i].op.value # Stranger
    BY <2>1, WritesOwn
  <2>3. Undone(i) = IF place \in {None, Written(txn[i])} THEN txn[i].undo.previous ELSE place
    BY <1>0 DEF Undone, UndoneVariable, Written
  <2>4. Written(txn[i]) = Stranger BY <1>0, <2>1, <2>3
  <2>5. txn[i].op.does = "remove" /\ txn[i].op.origin[1] = Stranger
    BY <2>2, <2>4 DEF Written
  <2>6. row[i] # None /\ txn[i].op.origin = row[i].origin
    BY <2>1, <2>5 DEF Common, TransactionOK
  <2>7. OriginOK(kind, row[i].origin) /\ row[i].origin # None
    BY <2>6 DEF Common, RowOK, HasOrigin
  <2>8. \E v \in Values : row[i].origin = <<v>> BY <1>0, <2>7 DEF OriginOK, IsProfile
  <2> QED BY <2>5, <2>6, <2>8
<1>3. CASE ~Mutate(i) /\ ~Undo(i)
  <2>1. ~KeepPrevious(i) BY DEF KeepPrevious, ToBackUp
  <2>2. place' = place
    BY <1>3, <2>1 DEF EngineStep, Begin, Prepare, Mark, Commit, Fail, FinishRollback, Crash, Recover
  <2> QED BY <2>2
<1> QED BY <1>1, <1>2, <1>3

\* The lines of a profile's users stay, in order, whatever profile was found.
THEOREM LinesStay ==
  Spec => [][IsProfile /\ (\E i \in Installations : EngineStep(i)) => TextsOf(place') = TextsOf(place)]_vars
<1>1. Common => (IsProfile /\ (\E i \in Installations : EngineStep(i)) => TextsOf(place') = TextsOf(place))
  BY ProfileStep
<1> QED BY <1>1, ResourcesProtocol, PTL

\* What is not the product's outlasts every step of the engine (see
\* StrangersKept), where no profile was found ending inside a line.
THEOREM StrangersStay == ASSUME FoundEnded PROVE Spec => StrangersKept
<1> DEFINE Outlasting ==
      (\E i \in Installations : EngineStep(i)) =>
       CASE IsProfile ->
              /\ TextsOf(place') = TextsOf(place)
              /\ Separate(TextOf(place)) => Separate(TextOf(place'))
         [] kind = "firewall" ->
              \/ Strangers(place') >= Strangers(place)
              \/ Len(place) = 1 /\ \E i \in Installations : row[i] # None
         [] OTHER ->
              (place = Stranger /\ place' # Stranger) =>
                \E i \in Installations :
                  \/ backup'[i] = Stranger
                  \/ /\ kind = "environment"
                     /\ \/ txn'[i] # None /\ txn'[i].undo.previous = Stranger
                        \/ row[i] # None /\ row[i].origin = <<Stranger>>
<1>1. Init => Common /\ Undoing /\ EndedLines
  BY CommonInit, EndedInit DEF Init, Undoing, StageOK
<1>2. Common /\ Undoing /\ EndedLines /\ [Next]_vars => (Common /\ Undoing /\ EndedLines)'
  BY CommonStep, UndoingStep, EndedStep
<1>3. Common /\ Undoing /\ EndedLines /\ [Next]_vars => Outlasting
  <2> SUFFICES ASSUME Common, Undoing, EndedLines, [Next]_vars, NEW i \in Installations, EngineStep(i)
               PROVE  CASE IsProfile ->
                             /\ TextsOf(place') = TextsOf(place)
                             /\ Separate(TextOf(place)) => Separate(TextOf(place'))
                        [] kind = "firewall" ->
                             \/ Strangers(place') >= Strangers(place)
                             \/ Len(place) = 1 /\ \E j \in Installations : row[j] # None
                        [] OTHER ->
                             (place = Stranger /\ place' # Stranger) =>
                               \E j \in Installations :
                                 \/ backup'[j] = Stranger
                                 \/ /\ kind = "environment"
                                    /\ \/ txn'[j] # None /\ txn'[j].undo.previous = Stranger
                                       \/ row[j] # None /\ row[j].origin = <<Stranger>>
    OBVIOUS
  <2>1. IsProfile \/ kind \in {"shortcut", "firewall", "environment"}
    BY KindsOfPlace DEF Common
  <2>2. kind \in {"shortcut", "firewall", "environment"} => ~IsProfile BY DEF IsProfile
  <2>3. CASE IsProfile
    <3>1. TextsOf(place') = TextsOf(place) BY <2>3, ProfileStep
    <3>2. EndedLines' BY EndedStep
    <3>3. kind' = kind
      BY OthersStand DEF EngineStep, Begin, Prepare, KeepPrevious, Mutate, Mark, Commit, Fail, Undo,
         FinishRollback, Crash, Recover
    <3>4. Separate(TextOf(place')) BY <2>3, <3>2, <3>3 DEF EndedLines, IsProfile, Tidy
    <3>5. kind # "firewall" BY <2>3 DEF IsProfile
    <3> QED BY <2>3, <3>1, <3>4, <3>5
  <2>4. CASE kind = "firewall"
    <3>1. \/ Strangers(place') >= Strangers(place)
          \/ Len(place) = 1 /\ \E j \in Installations : row[j] # None
      BY <2>4, RulesKept
    <3> QED BY <2>2, <2>4, <3>1
  <2>5. CASE kind = "shortcut"
    <3>1. (place = Stranger /\ place' # Stranger) => backup'[i] = Stranger BY <2>5, LinkKept
    <3> QED BY <2>2, <2>5, <3>1
  <2>6. CASE kind = "environment"
    <3>1. (place = Stranger /\ place' # Stranger) =>
            \/ txn'[i] # None /\ txn'[i].undo.previous = Stranger
            \/ row[i] # None /\ row[i].origin = <<Stranger>>
      BY <2>6, VariableKept
    <3> QED BY <2>2, <2>6, <3>1
  <2> QED BY <2>1, <2>3, <2>4, <2>5, <2>6
<1>4. Spec => [](Common /\ Undoing /\ EndedLines) BY <1>1, <1>2, PTL DEF Spec
<1> HIDE DEF Outlasting
<1>5. Common /\ Undoing /\ EndedLines /\ [Next]_vars => [Outlasting]_vars BY <1>3
<1>6. Spec => [][Outlasting]_vars BY <1>4, <1>5, PTL DEF Spec
<1> QED BY <1>6 DEF StrangersKept, Outlasting

(***************************************************************************)
(* The place as it was found, while nobody but the installations touches    *)
(* it: how what is there, the rows and the open transactions lead back.     *)
(***************************************************************************)

\* The mutation is done: its result stands until the step is undone.
Made(t, pc) == pc = "mutated" \/ (t.at = "applied" /\ t.state = "running")

\* What the mutation makes of a place that holds one thing.
Target(t) == IF t.op.does = "put" THEN t.op.value ELSE None

\* A link x that was f: as found, or an installation's where there was none.
LinkTraced(x, f, rows) ==
  x = f \/ (f = None /\ \E j \in Installations : rows[j] # None /\ x \in Own(j))

LinkTrace(i, p, t, pc, rows, f) ==
  /\ t.at = "planned" =>
       /\ LinkTraced(p, f, rows)
       /\ t.op.does = "keep" => p = t.op.value
       /\ t.op.does = "none" => rows[i] = None \/ p \notin Own(i)
       /\ t.op.does = "remove" => p \in Own(i)
  /\ t.at # "planned" =>
       /\ LinkTraced(t.undo.previous, f, rows)
       /\ t.op.does = "remove" => t.undo.previous \in Own(i)
       /\ Made(t, pc) => p = Target(t)

\* A variable x that was f: as found, or its one owner's, whose row says so.
VariableTraced(x, f, rows) ==
  /\ (\A j \in Installations : rows[j] = None) => x = f
  /\ \A j \in Installations : rows[j] # None => x = rows[j].value /\ rows[j].origin = <<f>>

VariableTrace(i, p, t, pc, rows, f) ==
  /\ t.op.origin # None => t.op.origin = <<f>>
  /\ Writes(t.op) /\ t.op.origin = None => rows[i] = None
  /\ t.op.does = "none" => rows[i] = None
  /\ t.op.does = "keep" => t.at = "planned" /\ p = t.op.value
  /\ t.at = "planned" => VariableTraced(p, f, rows)
  /\ t.at # "planned" =>
       /\ VariableTraced(t.undo.previous, f, rows)
       /\ Made(t, pc) => p = Written(t)

\* The rules x that were f: as found, or one owner's where there were none.
RuleTraced(x, f, rows) ==
  /\ (\A j \in Installations : rows[j] = None) => x = f
  /\ \A j \in Installations : rows[j] # None => x = <<rows[j].value>> /\ f = <<>>

RuleTrace(i, p, t, pc, rows, f) ==
  /\ t.op.does = "none" => rows[i] = None
  /\ t.op.does # "none" => f = <<>> /\ \A j \in Installations \ {i} : rows[j] = None
  /\ t.op.does = "keep" => t.at = "planned" /\ p = <<t.op.value>>
  /\ t.at = "planned" => RuleTraced(p, f, rows)
  /\ t.at # "planned" =>
       /\ RuleTraced(Rules0(t), f, rows)
       /\ Made(t, pc) => p = IF t.op.does = "put" THEN <<t.op.value>> ELSE <<>>

Nobody == \A i \in Installations : txn[i] = None

LinksTraced(f) ==
  /\ Nobody => LinkTraced(place, f, row)
  /\ \A i \in Installations : txn[i] # None => LinkTrace(i, place, txn[i], mem[i].pc, row, f)

VariablesTraced(f) ==
  /\ Nobody => VariableTraced(place, f, row)
  /\ \A i \in Installations : txn[i] # None => VariableTrace(i, place, txn[i], mem[i].pc, row, f)

RulesTraced(f) ==
  /\ Nobody => RuleTraced(place, f, row)
  /\ \A i \in Installations : txn[i] # None => RuleTrace(i, place, txn[i], mem[i].pc, row, f)

\* The block of a product in a profile, now, and what the rows hold of it.
Now(i)      == find(TextOf(place), Marker(i))
Namesake(i) == {j \in Installations : Marker(j) = Marker(i)}
HeldBy(i)   == {row[j].value : j \in {k \in Namesake(i) : row[k] # None}}

Settled(i) == \A j \in Namesake(i) : txn[j] # None => txn[j].at = "planned"

BlockTrace(now, t, code, pc, held, mine, free) ==
  /\ t.op.does \in {"put", "keep"} /\ t.at = "planned" =>
       t.op.origin = IF mine = None THEN None ELSE mine.origin
  /\ t.op.does = "none" => mine = None \/ now # mine.value
  /\ t.op.does = "keep" => mine # None /\ now = t.op.value
  /\ t.at = "planned" =>
       /\ now \in held \cup {None}
       /\ t.op.does = "remove" => now = t.op.value
  /\ t.at # "planned" =>
       /\ t.undo.previous \in held \cup {None}
       /\ now \in {t.undo.previous, Target(t)}
       /\ t.op.does = "remove" => t.undo.previous = t.op.value
       /\ "skipped" \in {code, t.code} => ~free
       /\ Made(t, pc) /\ "skipped" \notin {code, t.code} => now = Target(t)
       /\ pc = "undone" => now = t.undo.previous

\* How a block came to be that is the first in a profile f.
Exact(f) == [file |-> f.file = None, dir |-> ~f.dir, sep |-> separator_for(TextOf(f))]

\* A profile p that was f, only an installation's block put into it.
PutInto(p, f, m, own) == p = f \/ \E c \in own : p = With(f, m, c)

BlockExact(own, p, now, t, mine, f, m) ==
  /\ PutInto(p, f, m, own)
  /\ mine # None => mine.origin = Exact(f)
  /\ mine # None /\ (t = None \/ t.at = "planned") => now = mine.value
  /\ t # None /\ t.at # "planned" =>
       /\ t.undo.previous \in own \cup {None}
       /\ mine # None => t.undo.previous = mine.value
       /\ t.op.origin = Exact(f)
       /\ t.undo.previous = None => t.undo.existed = (f.file # None) /\ t.undo.dir = f.dir

\* The profile as a whole, and one product's part of it.
ProfileTraced(f) ==
  /\ WellFormed(f) /\ BlocksOf(f) = {} /\ place.access = f.access
  /\ IsFiniteSet(history.ran) /\ (history.ran = {} => place = f)
  /\ TextsOf(place) = TextsOf(f)
  /\ \A b \in BlocksOf(place) : \E i \in Installations : b.marker = Marker(i)
  /\ f.access # "free" => place = f /\ \A i \in Installations : row[i] = None

BlockTraced(i, f) ==
  /\ Settled(i) => Now(i) \in HeldBy(i) \cup {None}
  /\ txn[i] # None =>
       BlockTrace(Now(i), txn[i], mem[i].code, mem[i].pc, HeldBy(i), row[i], f.access = "free")
  /\ i \notin history.ran => row[i] = None /\ Now(i) \notin Own(i)
  /\ f.access = "free" /\ history.ran \subseteq {i} =>
       BlockExact(Own(i), place, Now(i), txn[i], row[i], f, Marker(i))

BlocksTraced(f) == ProfileTraced(f) /\ \A i \in Installations : BlockTraced(i, f)

\* Of what is no profile: nothing is skipped, and while nobody else touched it
\* the place before an open transaction is known.
Plain ==
  ~IsProfile => \A i \in Installations :
    /\ mem[i].code = None /\ (txn[i] # None => txn[i].code = None)
    /\ history.found # None /\ txn[i] # None => history.before[i] # None

Traced ==
  /\ Plain
  /\ history.found # None =>
       \E f \in Firsts[kind] :
         /\ history.found = <<f>> /\ kind \in Kinds
         /\ kind = "shortcut" => LinksTraced(f)
         /\ kind = "environment" => VariablesTraced(f)
         /\ kind = "firewall" => RulesTraced(f)
         /\ IsProfile => BlocksTraced(f)

\* A transaction closed at its end.
LEMMA CommitIs ==
  ASSUME Common, NEW i \in Installations, Commit(i)
  PROVE  /\ kind' = kind /\ place' = place /\ txn'[i] = None /\ row'[i] = RowOf(txn[i])
         /\ txn[i] # None /\ txn[i] \in Transactions /\ mem[i].pc = "walk" /\ mem[i].code = None
         /\ txn[i].state = "running"
         /\ txn[i].at = "applied" \/ (txn[i].at = "planned" /\ ~Writes(txn[i].op))
         /\ history'.found = (IF backup[i] = Stranger THEN None ELSE history.found)
         /\ history'.ran = history.ran
         /\ \A j \in Installations \ {i} :
              /\ txn'[j] = txn[j] /\ mem'[j] = mem[j] /\ row'[j] = row[j]
              /\ history'.before[j] = history.before[j]
<1>1. /\ kind' = kind /\ place' = place /\ txn' = [txn EXCEPT ![i] = None]
      /\ mem' = [mem EXCEPT ![i] = Down] /\ mem[i].pc = "walk"
      /\ txn[i].at = "applied" \/ ~Writes(txn[i].op)
      /\ TypeOK /\ TransactionOK(i) /\ ProcessOK(i)
  BY DEF Commit, Closed, Common
<1>2. txn[i] # None /\ txn[i] \in Transactions /\ mem[i].code = None /\ txn[i].state = "running"
  BY <1>1 DEF ProcessOK, TypeOK
<1>3. txn[i].at = "applied" \/ (txn[i].at = "planned" /\ ~Writes(txn[i].op))
  BY <1>1, <1>2 DEF TransactionOK
<1>4. /\ txn'[i] = None /\ \A j \in Installations \ {i} : txn'[j] = txn[j]
      /\ \A j \in Installations \ {i} : mem'[j] = mem[j]
  BY <1>1 DEF TypeOK
<1> DEFINE r == RowOf(txn[i])
           g == IF backup[i] = Stranger THEN None ELSE history.found
<1>5. row' = [row EXCEPT ![i] = r] /\ history' = [history EXCEPT !.before[i] = None, !.found = g]
  BY DEF Commit
<1> HIDE DEF r, g
<1>6. row'[i] = r /\ \A j \in Installations \ {i} : row'[j] = row[j]
  BY <1>1, <1>5 DEF TypeOK
<1>7. /\ history'.found = g /\ history'.ran = history.ran
      /\ \A j \in Installations \ {i} : history'.before[j] = history.before[j]
  <2>1. history \in [found : Founds, events : Nat, ran : SUBSET Installations,
                     before : [Installations -> Founds]]
    BY <1>1 DEF TypeOK, Histories
  <2>2. /\ history'.found = g /\ history'.ran = history.ran
        /\ history'.before = [history.before EXCEPT ![i] = None]
    BY <1>5, <2>1
  <2> QED BY <2>1, <2>2
<1> QED BY <1>1, <1>2, <1>3, <1>4, <1>6, <1>7 DEF r, g

\* A transaction closed at its beginning.
LEMMA RollbackIs ==
  ASSUME Common, NEW i \in Installations, FinishRollback(i)
  PROVE  /\ kind' = kind /\ place' = place /\ row' = row /\ txn'[i] = None
         /\ txn[i] # None /\ txn[i] \in Transactions /\ txn[i].state = "rolling_back"
         /\ \/ mem[i].pc = "undone" /\ txn[i].at # "planned"
            \/ txn[i].at = "planned"
         /\ history'.found = history.found /\ history'.ran = history.ran
         /\ \A j \in Installations \ {i} :
              /\ txn'[j] = txn[j] /\ mem'[j] = mem[j]
              /\ history'.before[j] = history.before[j]
<1>1. /\ kind' = kind /\ place' = place /\ row' = row /\ txn' = [txn EXCEPT ![i] = None]
      /\ mem' = [mem EXCEPT ![i] = Down]
      /\ mem[i].pc = "undone" \/ (mem[i].pc = "reverse" /\ txn[i].at = "planned")
      /\ history' = [history EXCEPT !.before[i] = None]
      /\ TypeOK /\ ProcessOK(i)
  BY DEF FinishRollback, Closed, Common
<1>2. /\ txn[i] # None /\ txn[i] \in Transactions /\ txn[i].state = "rolling_back"
      /\ mem[i].pc = "undone" => txn[i].at # "planned"
  BY <1>1 DEF ProcessOK, TypeOK
<1>3. /\ txn'[i] = None /\ \A j \in Installations \ {i} : txn'[j] = txn[j]
      /\ \A j \in Installations \ {i} : mem'[j] = mem[j]
  BY <1>1 DEF TypeOK
<1>4. history \in [found : Founds, events : Nat, ran : SUBSET Installations,
                   before : [Installations -> Founds]]
  BY <1>1 DEF TypeOK, Histories
<1>5. /\ history'.found = history.found /\ history'.ran = history.ran
      /\ history'.before = [history.before EXCEPT ![i] = None]
  BY <1>1, <1>4
<1> QED BY <1>1, <1>2, <1>3, <1>4, <1>5

\* A link put aside.
LEMMA KeepPreviousIs ==
  ASSUME Common, NEW i \in Installations, KeepPrevious(i)
  PROVE  /\ kind = "shortcut" /\ kind' = kind /\ row' = row /\ txn' = txn /\ mem' = mem
         /\ txn[i] # None /\ txn[i].at = "applying" /\ mem[i].pc = "walk"
         /\ Touch(i, None) /\ history'.before[i] = history.before[i]
<1>1. /\ kind = "shortcut" /\ kind' = kind /\ row' = row /\ txn' = txn /\ mem' = mem
      /\ txn[i].at = "applying" /\ mem[i].pc = "walk" /\ Touch(i, None) /\ TypeOK /\ ProcessOK(i)
  BY DEF KeepPrevious, Walking, ToBackUp, Common
<1>2. txn[i] # None BY <1>1 DEF ProcessOK
<1>3. /\ place' = place => history' = history
      /\ place' # place => history'.before[i] = history.before[i]
  BY <1>1, Touched
<1> QED BY <1>1, <1>2, <1>3

\* What is mutated when a step of rest is over was so before.
LEMMA RestingMade ==
  ASSUME Common, NEW i \in Installations, Mark(i) \/ Fail(i) \/ Crash(i) \/ Recover(i)
  PROVE  Made(txn'[i], mem'[i].pc) => Made(txn[i], mem[i].pc)
<1>1. TypeOK /\ ProcessOK(i) BY DEF Common
<1>2. txn[i] # None BY <1>1 DEF Mark, Fail, Crash, Recover, ProcessOK
<1>3. /\ txn[i] \in Transactions /\ txn \in [Installations -> Transactions \cup {None}]
      /\ mem \in [Installations -> [pc : {"down", "walk", "mutated", "reverse", "undone"}, code : {None, "skipped"}]]
  BY <1>1, <1>2 DEF TypeOK, Memories
<1>4. CASE Mark(i) BY <1>4 DEF Mark, Made
<1>5. CASE Fail(i)
  <2>1. txn' = [txn EXCEPT ![i].state = "rolling_back"] /\ mem' = [mem EXCEPT ![i] = [Down EXCEPT !.pc = "reverse"]]
    BY <1>5 DEF Fail
  <2>2. txn'[i].state = "rolling_back" /\ mem'[i].pc = "reverse"
    BY <1>3, <2>1 DEF Transactions, Down
  <2> QED BY <2>2 DEF Made
<1>6. CASE Crash(i)
  <2>1. txn' = txn /\ mem'[i].pc = "down" BY <1>3, <1>6 DEF Crash, Down
  <2> QED BY <2>1 DEF Made
<1>7. CASE Recover(i)
  <2>1. PICK forward \in BOOLEAN :
          /\ mem' = [mem EXCEPT ![i].pc = IF forward THEN "walk" ELSE "reverse"]
          /\ txn' = IF forward THEN txn ELSE [txn EXCEPT ![i].state = "rolling_back"]
    BY <1>7 DEF Recover
  <2>2. mem'[i].pc \in {"walk", "reverse"} BY <1>3, <2>1
  <2>3. CASE forward BY <2>1, <2>2, <2>3 DEF Made
  <2>4. CASE ~forward
    <3>1. txn'[i].state = "rolling_back" BY <1>3, <2>1, <2>4 DEF Transactions
    <3> QED BY <2>2, <3>1 DEF Made
  <2> QED BY <2>3, <2>4
<1> QED BY <1>4, <1>5, <1>6, <1>7

\* Where the place was found stays known, or is given up.
LEMMA FoundBefore ==
  ASSUME Common, NEW i \in Installations, EngineStep(i), history'.found # None
  PROVE  /\ kind' = kind /\ history'.found = history.found
         /\ place' = place => history'.ran = history.ran
         /\ place' # place => history'.ran = history.ran \cup {i}
         /\ Commit(i) => backup[i] # Stranger
<1>1. TypeOK /\ history \in [found : Founds, events : Nat, ran : SUBSET Installations,
                   before : [Installations -> Founds]]
  BY DEF Common, TypeOK, Histories
<1>2. CASE Begin(i)
  <2>1. history' = [history EXCEPT !.before[i] = <<place>>, !.events = @ + 1] /\ place' = place /\ kind' = kind
    BY <1>2 DEF Begin
  <2>2. history'.found = history.found /\ history'.ran = history.ran BY <1>1, <2>1
  <2>3. ~Commit(i) BY <1>2 DEF Begin, Commit, MayStart, Busy
  <2> QED BY <2>1, <2>2, <2>3
<1>3. CASE Prepare(i) \/ Mark(i) \/ Fail(i) \/ Crash(i) \/ Recover(i)
  <2>1. kind' = kind /\ place' = place /\ history' = history
    BY <1>3, PrepareMoves, RestingIs DEF Rests
  <2>2. ~Commit(i) \/ history'.found = (IF backup[i] = Stranger THEN None ELSE history.found)
    BY CommitIs
  <2> QED BY <2>1, <2>2
<1>4. CASE KeepPrevious(i) \/ Mutate(i) \/ Undo(i)
  <2>1. kind' = kind /\ \E q : Touch(i, q) BY <1>4, KeepPreviousIs, MutateIs, UndoStepIs
  <2>2. /\ history'.found = history.found
        /\ place' # place => (history.found # None => history'.ran = history.ran \cup {i})
        /\ place' = place => history' = history
    BY <1>1, <2>1, Touched
  <2>3. ~Commit(i) \/ history'.found = (IF backup[i] = Stranger THEN None ELSE history.found)
    BY CommitIs
  <2> QED BY <2>1, <2>2, <2>3
<1>5. CASE Commit(i) BY <1>5, CommitIs
<1>6. CASE FinishRollback(i)
  <2>1. ~Commit(i) \/ history'.found = (IF backup[i] = Stranger THEN None ELSE history.found)
    BY CommitIs
  <2> QED BY <1>6, <2>1, RollbackIs
<1> QED BY <1>2, <1>3, <1>4, <1>5, <1>6 DEF EngineStep

\* Of a place that is no profile one transaction is open, and another begins
\* when none is.
LEMMA OneAtATime ==
  ASSUME Common, ~IsProfile, NEW i \in Installations, EngineStep(i)
  PROVE  /\ \A j \in Installations \ {i} : txn'[j] = None /\ txn[j] = None
         /\ Begin(i) => Nobody
         /\ txn'[i] # None => ~Nobody'
         /\ txn'[i] = None => Nobody'
<1>1. kind # "profile" /\ \A j \in Installations : ProcessOK(j) BY DEF IsProfile, Common
<1>2. ASSUME NEW j \in Installations \ {i}
      PROVE  txn'[j] = None /\ txn[j] = None
  <2>1. txn'[j] = txn[j] BY OthersStand
  <2>2. txn[j] = None
    <3>1. SUFFICES ASSUME txn[j] # None PROVE FALSE OBVIOUS
    <3>2. txn[i] = None /\ mem[i].pc = "down" BY <1>1, <3>1 DEF ProcessOK
    <3>3. Begin(i)
      BY <3>2 DEF EngineStep, Prepare, KeepPrevious, Mutate, Mark, Commit, Fail, Undo, FinishRollback,
                  Crash, Recover, Walking
    <3> QED BY <1>1, <3>1, <3>3 DEF Begin, MayStart, Busy
  <2> QED BY <2>1, <2>2
<1>3. Begin(i) => txn[i] = None BY DEF Begin, MayStart, Busy
<1> QED BY <1>2, <1>3 DEF Nobody

\* Steps of an engine keep what is plain so.
LEMMA PlainStep ==
  ASSUME Common, Plain, NEW i \in Installations, EngineStep(i)
  PROVE  Plain'
<1> SUFFICES ASSUME kind' = kind, ~IsProfile
             PROVE  \A j \in Installations :
                      /\ mem'[j].code = None /\ (txn'[j] # None => txn'[j].code = None)
                      /\ history'.found # None /\ txn'[j] # None => history'.before[j] # None
  <2>1. kind' = kind
    BY DEF EngineStep, Begin, Prepare, KeepPrevious, Mutate, Mark, Commit, Fail, Undo, FinishRollback, Crash, Recover
  <2> QED BY <2>1 DEF Plain, IsProfile
<1>1. /\ TypeOK /\ kind # "profile"
      /\ \A j \in Installations : /\ mem[j].code = None /\ (txn[j] # None => txn[j].code = None)
                                  /\ history.found # None /\ txn[j] # None => history.before[j] # None
                                  /\ ProcessOK(j)
  BY DEF Plain, Common, IsProfile
\* Nobody else has a transaction.
<1>2. ASSUME NEW j \in Installations \ {i}
      PROVE  /\ txn'[j] = txn[j] /\ mem'[j] = mem[j]
             /\ txn'[j] = None
  BY OthersStand, OneAtATime
\* The installation itself.
<1>3. /\ mem'[i].code = None /\ (txn'[i] # None => txn'[i].code = None)
      /\ history'.found # None /\ txn'[i] # None => history'.before[i] # None
  <2>1. CASE Begin(i)
    <3>1. history'.before[i] = <<place>> /\ <<place>> # None BY <2>1, BeginIs
    <3>2. PICK want \in Own(i) \cup {None}, repair \in BOOLEAN :
            txn'[i] = [op |-> PlanOf(i, want, repair), state |-> "running", at |-> "planned",
                       undo |-> NoUndo, code |-> None]
      BY <2>1, BeginIs
    <3>3. txn'[i].code = None BY <3>2
    <3>4. mem'[i].code = None BY <1>1, <2>1 DEF Begin, Down, TypeOK
    <3> QED BY <3>1, <3>3, <3>4
  <2>2. history'.found # None => history'.found = history.found BY FoundBefore
  <2>3. CASE Prepare(i)
    <3>1. history' = history /\ mem' = mem /\ txn'[i].code = None /\ txn[i] \in Transactions
      BY <2>3, PrepareMoves
    <3>2. txn[i] # None BY <3>1, NothingElse
    <3> QED BY <1>1, <2>2, <3>1, <3>2
  <2>4. CASE KeepPrevious(i)
    <3>1. txn' = txn /\ mem' = mem /\ history'.before[i] = history.before[i]
      BY <2>4, KeepPreviousIs
    <3> QED BY <1>1, <2>2, <3>1
  <2>5. CASE Mutate(i)
    <3>1. /\ txn' = txn /\ mem'[i].code = Mutated(i).code /\ txn[i] # None /\ txn[i].at = "applying"
          /\ history'.before[i] = history.before[i]
      BY <2>5, MutateIs
    <3>2. Mutated(i).code = None BY <3>1, MutatedIsPlace
    <3> QED BY <1>1, <2>2, <3>1, <3>2
  <2>6. CASE Mark(i) \/ Fail(i) \/ Crash(i) \/ Recover(i)
    <3>1. Rests(i) BY <2>6, RestingIs
    <3> QED BY <1>1, <2>2, <3>1 DEF Rests
  <2>7. CASE Undo(i)
    <3>1. txn' = txn /\ mem'[i].code = None /\ history'.before[i] = history.before[i]
      BY <2>7, UndoStepIs
    <3> QED BY <1>1, <2>2, <3>1
  <2>8. CASE Commit(i) \/ FinishRollback(i)
    <3>1. txn'[i] = None BY <2>8, CommitIs, RollbackIs
    <3>2. mem'[i].code = None BY <1>1, <2>8 DEF Commit, FinishRollback, Closed, Down, TypeOK
    <3> QED BY <3>1, <3>2
  <2> QED BY <2>1, <2>3, <2>4, <2>5, <2>6, <2>7, <2>8 DEF EngineStep
<1> QED
  <2> SUFFICES ASSUME NEW j \in Installations
               PROVE  /\ mem'[j].code = None /\ (txn'[j] # None => txn'[j].code = None)
                      /\ history'.found # None /\ txn'[j] # None => history'.before[j] # None
    OBVIOUS
  <2> QED BY <1>1, <1>2, <1>3

LEMMA OwnContents ==
  ASSUME NEW i \in Installations, NEW c \in Own(i)
  PROVE  /\ c \in Contents /\ c \notin {None, Stranger, Edited, Damaged, Unreadable}
         /\ \A j \in Installations : c \in Own(j) => j = i
<1>1. c \in Contents BY NothingElse
<1>2. c \notin {None, Stranger, Edited, Damaged, Unreadable} BY <1>1, ResourcesAssumption
<1> QED BY <1>1, <1>2 DEF Own, Content

\* A transaction is open from its beginning to its end.
LEMMA OpenOrNot ==
  ASSUME Common, NEW i \in Installations, EngineStep(i)
  PROVE  /\ txn[i] # None \/ Begin(i)
         /\ Begin(i) \/ Prepare(i) \/ KeepPrevious(i) \/ Mutate(i) \/ Undo(i)
              \/ Mark(i) \/ Fail(i) \/ Crash(i) \/ Recover(i) => txn'[i] # None
         /\ Commit(i) \/ FinishRollback(i) => txn'[i] = None
<1>1. TypeOK /\ ProcessOK(i) BY DEF Common
<1>2. txn[i] # None \/ Begin(i)
  BY <1>1 DEF EngineStep, Prepare, KeepPrevious, Mutate, Mark, Commit, Fail, Undo, FinishRollback,
              Crash, Recover, Walking, ProcessOK
<1>3. Commit(i) \/ FinishRollback(i) => txn'[i] = None BY CommitIs, RollbackIs
<1>4. ASSUME Begin(i) PROVE txn'[i] # None
  <2> DEFINE d == [Down EXCEPT !.pc = "walk"]
  <2>1. mem' = [mem EXCEPT ![i] = d] BY <1>4 DEF Begin
  <2>2. d.pc = "walk" BY DEF Down
  <2> HIDE DEF d
  <2>3. mem'[i].pc = "walk" BY <1>1, <2>1, <2>2 DEF TypeOK
  <2>4. Common' BY <1>4, CommonBegin
  <2> QED BY <2>3, <2>4 DEF Common, ProcessOK
<1>5. ASSUME Prepare(i) PROVE txn'[i] # None
  <2>1. Common' /\ mem' = mem /\ mem[i].pc = "walk" BY <1>5, CommonPrepare, PrepareMoves
  <2> QED BY <2>1 DEF Common, ProcessOK
<1>6. ASSUME KeepPrevious(i) \/ Mutate(i) \/ Undo(i) PROVE txn'[i] # None
  <2>1. txn' = txn /\ txn[i] # None BY <1>6, KeepPreviousIs, MutateIs, UndoStepIs
  <2> QED BY <2>1
<1>7. ASSUME Mark(i) \/ Fail(i) \/ Crash(i) \/ Recover(i) PROVE txn'[i] # None
  BY <1>7, RestingIs DEF Rests
<1> QED BY <1>2, <1>3, <1>4, <1>5, <1>6, <1>7

(***************************************************************************)
(* A link: whatever is in its place leads back to the one found.            *)
(***************************************************************************)

LEMMA LinkPlanned ==
  ASSUME kind = "shortcut", NEW i \in Installations, NEW want \in Own(i) \cup {None}, NEW repair,
         NEW t, t.op = PlanOf(i, want, repair), t.at = "planned", NEW pc, NEW f,
         LinkTraced(place, f, row)
  PROVE  LinkTrace(i, place, t, pc, row, f)
<1>1. t.op = PlanShortcut(i, want) BY DEF PlanOf, IsProfile
<1>2. want # None <=> want \in Own(i) BY OwnContents
<1> QED BY <1>1, <1>2 DEF LinkTrace, PlanShortcut, Removable, Operation, NoOperation

LEMMA LinkCommitted ==
  ASSUME Common, Undoing, Plain, kind = "shortcut", NEW f \in {None, Stranger},
         NEW i \in Installations, Commit(i), backup[i] # Stranger,
         LinkTrace(i, place, txn[i], mem[i].pc, row, f)
  PROVE  LinkTraced(place, f, row')
<1> DEFINE t == txn[i]
<1>1. /\ t # None /\ mem[i].pc = "walk" /\ t.state = "running" /\ row'[i] = RowOf(t)
      /\ t.at = "applied" \/ (t.at = "planned" /\ ~Writes(t.op))
      /\ \A j \in Installations \ {i} : row'[j] = row[j]
  BY CommitIs
<1>2. TransactionOK(i) /\ t.code = None BY <1>1 DEF Common, Plain, IsProfile
<1>3. LinkStage(place, t, backup[i], mem[i].pc, history.before[i])
  BY <1>1 DEF Undoing, StageOK
<1>4. t.op.does \in {"none", "keep", "put", "remove"}
  BY <1>1 DEF Common, TypeOK, Transactions, Operations
<1>5. t.op.does # "none" => t.op.value \in Own(i) BY <1>1, <1>2 DEF TransactionOK
<1>6. t.op.does \in {"put", "keep"} => row'[i] # None
  <2>1. None \notin Rows /\ None # "skipped" /\ RowOf(t) \in Rows \cup {None}
    BY <1>1, RowIs, NothingElse
  <2>2. SUFFICES ASSUME t.op.does \in {"put", "keep"} PROVE RowOf(t) # None BY <1>1
  <2>3. RowOf(t) = [value |-> t.op.value, origin |-> t.op.origin]
    BY <1>2, <2>1, <2>2 DEF RowOf
  <2>4. t.op.value \in Contents /\ t.op.origin \in Origins
    BY <1>1, <1>5, <2>2, OwnContents DEF Common, TypeOK, Transactions, Operations
  <2> QED BY <2>1, <2>3, <2>4 DEF Rows
<1> HIDE DEF t
<1>7. CASE t.at = "applied"
  <2>1. /\ place = Target(t) /\ LinkTraced(t.undo.previous, f, row)
        /\ t.op.does = "remove" => t.undo.previous \in Own(i)
    BY <1>1, <1>7 DEF LinkTrace, Made, t
  <2>2. t.op.does \in {"put", "remove"} BY <1>1, <1>2, <1>7 DEF TransactionOK, Writes, t
  <2>3. t.undo.previous # Stranger
    <3>1. SUFFICES ASSUME t.undo.previous = Stranger PROVE FALSE OBVIOUS
    <3>2. place = Stranger BY <1>3, <1>7, <3>1 DEF LinkStage
    <3> QED BY <1>5, <2>1, <2>2, <3>2, OwnContents, NothingElse DEF Target
  <2>4. f = None
    <3>1. t.undo.previous = f \/ f = None BY <2>1 DEF LinkTraced
    <3> QED BY <2>3, <3>1
  <2>5. CASE t.op.does = "put" BY <1>5, <1>6, <2>1, <2>4, <2>5 DEF Target, LinkTraced
  <2>6. CASE t.op.does = "remove" BY <2>1, <2>4, <2>6 DEF Target, LinkTraced
  <2> QED BY <2>2, <2>5, <2>6
<1>8. CASE t.at = "planned" /\ ~Writes(t.op)
  <2>1. /\ LinkTraced(place, f, row) /\ t.op.does \in {"none", "keep"}
        /\ t.op.does = "none" => row[i] = None \/ place \notin Own(i)
    BY <1>4, <1>8 DEF LinkTrace, Writes, t
  <2>2. SUFFICES ASSUME place # f PROVE LinkTraced(place, f, row') BY DEF LinkTraced
  <2>3. PICK j \in Installations : f = None /\ row[j] # None /\ place \in Own(j)
    BY <2>1, <2>2 DEF LinkTraced
  <2>4. row'[j] # None BY <1>1, <1>6, <2>1, <2>3
  <2> QED BY <2>3, <2>4 DEF LinkTraced
<1> QED BY <1>1, <1>7, <1>8 DEF t

LEMMA LinkMoves ==
  ASSUME Common, Undoing, kind = "shortcut", NEW f, NEW i \in Installations,
         LinkTrace(i, place, txn[i], mem[i].pc, row, f),
         \/ Prepare(i) \/ KeepPrevious(i) \/ Mutate(i) \/ Undo(i)
         \/ Mark(i) \/ Fail(i) \/ Crash(i) \/ Recover(i)
  PROVE  LinkTrace(i, place', txn'[i], mem'[i].pc, row', f)
<1>1. CASE Prepare(i)
  <2>1. /\ place' = place /\ row' = row /\ mem' = mem /\ mem[i].pc = "walk"
        /\ txn[i].at = "planned" /\ txn'[i].at = "applying" /\ txn'[i].undo = UndoOf(i)
        /\ txn'[i].op.does = txn[i].op.does
    BY <1>1, PrepareMoves
  <2>2. txn'[i].undo.previous = place BY <2>1, UndoIs
  <2> QED BY <2>1, <2>2 DEF LinkTrace, Made
<1>2. CASE KeepPrevious(i)
  <2>1. /\ row' = row /\ txn' = txn /\ mem' = mem /\ txn[i].at = "applying" /\ mem[i].pc = "walk"
    BY <1>2, KeepPreviousIs
  <2> QED BY <2>1 DEF LinkTrace, Made
<1>3. CASE Mutate(i)
  <2>1. /\ row' = row /\ txn' = txn /\ place' = Mutated(i).place /\ txn[i].at = "applying"
        /\ Writes(txn[i].op) /\ txn[i] # None
    BY <1>3, MutateIs
  <2>2. place' = IF txn[i].op.does = "put" THEN txn[i].op.value ELSE IF Removable(i) THEN None ELSE place
    BY <2>1 DEF Mutated, IsProfile, Outcome
  <2>3. place' = Target(txn[i])
    <3>1. CASE txn[i].op.does = "remove"
      <4>1. /\ txn[i].undo.previous \in Own(i) /\ TransactionOK(i)
            /\ LinkStage(place, txn[i], backup[i], mem[i].pc, history.before[i])
        BY <2>1, <3>1 DEF LinkTrace, Common, Undoing, StageOK
      <4>2. txn[i].op.value \in Own(i) /\ place \in {None, txn[i].op.value, txn[i].undo.previous}
        BY <2>1, <3>1, <4>1 DEF LinkStage, TransactionOK
      <4> QED BY <2>2, <3>1, <4>1, <4>2, OwnContents DEF Removable, Target
    <3>2. CASE txn[i].op.does = "put" BY <2>2, <3>2 DEF Target
    <3> QED BY <2>1, <3>1, <3>2 DEF Writes
  <2> QED BY <2>1, <2>3 DEF LinkTrace
<1>4. CASE Undo(i)
  <2>1. /\ row' = row /\ txn' = txn /\ mem'[i].pc = "undone" /\ txn[i].state = "rolling_back"
        /\ txn[i].at \in {"applying", "applied"}
    BY <1>4, UndoStepIs
  <2> QED BY <2>1 DEF LinkTrace, Made
<1>5. CASE Mark(i) \/ Fail(i) \/ Crash(i) \/ Recover(i)
  <2>1. Rests(i) /\ (Made(txn'[i], mem'[i].pc) => Made(txn[i], mem[i].pc))
    BY <1>5, RestingIs, RestingMade
  <2> HIDE DEF Made
  <2> QED BY <2>1 DEF LinkTrace, Rests, Target
<1> QED BY <1>1, <1>2, <1>3, <1>4, <1>5

LEMMA LinksStep ==
  ASSUME Common, Undoing, Plain, kind = "shortcut", NEW f \in {None, Stranger}, LinksTraced(f),
         NEW i \in Installations, EngineStep(i), history'.found # None
  PROVE  LinksTraced(f)'
<1>1. /\ \A j \in Installations \ {i} : txn'[j] = None /\ txn[j] = None
      /\ Begin(i) => Nobody
      /\ txn'[i] # None => ~Nobody'
  BY OneAtATime DEF IsProfile
<1>2. /\ txn[i] # None \/ Begin(i)
      /\ Begin(i) \/ Prepare(i) \/ KeepPrevious(i) \/ Mutate(i) \/ Undo(i)
           \/ Mark(i) \/ Fail(i) \/ Crash(i) \/ Recover(i) => txn'[i] # None
  BY OpenOrNot
<1> SUFFICES /\ txn'[i] = None => LinkTraced(place', f, row')
             /\ txn'[i] # None => LinkTrace(i, place', txn'[i], mem'[i].pc, row', f)
  BY <1>1 DEF LinksTraced, Nobody
<1>3. CASE Begin(i)
  <2>1. PICK want \in Own(i) \cup {None}, repair \in BOOLEAN :
          txn'[i] = [op |-> PlanOf(i, want, repair), state |-> "running", at |-> "planned",
                     undo |-> NoUndo, code |-> None]
    BY <1>3, BeginIs
  <2>2. place' = place /\ row' = row /\ LinkTraced(place, f, row)
    BY <1>1, <1>3, BeginIs DEF LinksTraced
  <2>3. txn'[i].op = PlanOf(i, want, repair) /\ txn'[i].at = "planned" BY <2>1
  <2>4. LinkTrace(i, place, txn'[i], mem'[i].pc, row, f) BY <2>2, <2>3, LinkPlanned
  <2>5. txn'[i] # None BY <1>2, <1>3
  <2> QED BY <2>2, <2>4, <2>5
<1>5. CASE /\ txn[i] # None
           /\ \/ Prepare(i) \/ KeepPrevious(i) \/ Mutate(i) \/ Undo(i)
              \/ Mark(i) \/ Fail(i) \/ Crash(i) \/ Recover(i)
  <2>1. LinkTrace(i, place', txn'[i], mem'[i].pc, row', f)
    BY <1>5, LinkMoves DEF LinksTraced
  <2>2. txn'[i] # None BY <1>2, <1>5
  <2> QED BY <2>1, <2>2
<1>6. CASE Commit(i)
  <2>1. txn'[i] = None /\ place' = place /\ txn[i] # None /\ backup[i] # Stranger
    BY <1>6, CommitIs, FoundBefore
  <2>2. LinkTraced(place, f, row') BY <1>6, <2>1, LinkCommitted DEF LinksTraced
  <2> QED BY <2>1, <2>2
<1>7. CASE FinishRollback(i)
  <2>1. /\ txn'[i] = None /\ place' = place /\ row' = row /\ txn[i] # None
        /\ \/ mem[i].pc = "undone" /\ txn[i].at # "planned"
           \/ txn[i].at = "planned"
    BY <1>7, RollbackIs
  <2>2. LinkTrace(i, place, txn[i], mem[i].pc, row, f) BY <2>1 DEF LinksTraced
  <2>3. LinkStage(place, txn[i], backup[i], mem[i].pc, history.before[i])
    BY <2>1 DEF Undoing, StageOK
  <2> QED BY <2>1, <2>2, <2>3 DEF LinkTrace, LinkStage
<1> QED BY <1>2, <1>3, <1>5, <1>6, <1>7 DEF EngineStep

(***************************************************************************)
(* A variable: its one owner's row says what was found.                     *)
(***************************************************************************)

LEMMA Known ==
  ASSUME NEW f \in {None, Stranger}
  PROVE  <<f>> # None
<1>1. f \in Values BY DEF Values
<1>2. <<f>> \in Seq(Values) BY <1>1
<1> QED BY <1>2, NothingElse

LEMMA VariablePlanned ==
  ASSUME kind = "environment", NEW i \in Installations, NEW want \in Own(i) \cup {None}, NEW repair,
         \A j \in Installations \ {i} : row[j] = None,
         NEW t, t.op = PlanOf(i, want, repair), t.at = "planned", NEW pc, NEW f \in {None, Stranger},
         VariableTraced(place, f, row)
  PROVE  VariableTrace(i, place, t, pc, row, f)
<1>1. t.op = PlanVariable(i, want, repair) BY DEF PlanOf, IsProfile
<1>2. want # None <=> want \in Own(i) BY OwnContents
<1>3. <<f>> # None BY Known
<1>4. row[i] = None => place = f BY DEF VariableTraced
<1>5. row[i] # None => place = row[i].value /\ row[i].origin = <<f>> BY DEF VariableTraced
<1> DEFINE op == t.op
<1>6. /\ op.origin # None => op.origin = <<f>>
      /\ Writes(op) /\ op.origin = None => row[i] = None
      /\ op.does = "none" => row[i] = None
      /\ op.does = "keep" => place = op.value
  <2>1. CASE want = None /\ row[i] # None
    <3>1. op = Operation("remove", row[i].value, row[i].origin)
      BY <1>1, <1>5, <2>1 DEF PlanVariable
    <3>2. op.does = "remove" /\ op.origin = <<f>> BY <1>5, <2>1, <3>1, OperationIs
    <3> QED BY <1>3, <3>2
  <2>2. CASE want = None /\ row[i] = None
    <3>1. op = Operation("none", None, None) BY <1>1, <2>2 DEF PlanVariable, NoOperation
    <3>2. op.does = "none" /\ op.origin = None BY <3>1, OperationIs
    <3> QED BY <2>2, <3>2 DEF Writes
  <2>3. CASE want # None /\ row[i] # None /\ place = want
    <3>1. op = Operation("keep", want, row[i].origin) BY <1>1, <2>3 DEF PlanVariable
    <3>2. op.does = "keep" /\ op.origin = <<f>> /\ op.value = want
      BY <1>5, <2>3, <3>1, OperationIs
    <3> QED BY <2>3, <3>2 DEF Writes
  <2>4. CASE want # None /\ row[i] # None /\ place # want
    <3>1. op = Operation("put", want, row[i].origin) BY <1>1, <1>5, <2>4 DEF PlanVariable
    <3>2. op.does = "put" /\ op.origin = <<f>> BY <1>5, <2>4, <3>1, OperationIs
    <3> QED BY <1>3, <3>2
  <2>5. CASE want # None /\ row[i] = None /\ place = want
    <3>1. op = Operation("keep", want, <<want>>) BY <1>1, <2>5 DEF PlanVariable
    <3>2. op.does = "keep" /\ op.origin = <<f>> /\ op.value = want
      BY <1>4, <2>5, <3>1, OperationIs
    <3> QED BY <2>5, <3>2 DEF Writes
  <2>6. CASE want # None /\ row[i] = None /\ place # want
    <3>1. op = Operation("put", want, None) BY <1>1, <2>6 DEF PlanVariable
    <3>2. op.does = "put" /\ op.origin = None BY <3>1, OperationIs
    <3> QED BY <2>6, <3>2
  <2> QED BY <2>1, <2>2, <2>3, <2>4, <2>5, <2>6
<1> QED BY <1>6 DEF VariableTrace

LEMMA VariableMoves ==
  ASSUME Common, Undoing, kind = "environment", NEW f, NEW i \in Installations,
         VariableTrace(i, place, txn[i], mem[i].pc, row, f),
         \/ Prepare(i) \/ KeepPrevious(i) \/ Mutate(i) \/ Undo(i)
         \/ Mark(i) \/ Fail(i) \/ Crash(i) \/ Recover(i)
  PROVE  VariableTrace(i, place', txn'[i], mem'[i].pc, row', f)
<1>1. CASE Prepare(i)
  <2>1. /\ place' = place /\ row' = row /\ mem' = mem /\ mem[i].pc = "walk" /\ Writes(txn[i].op)
        /\ txn[i].at = "planned" /\ txn'[i].at = "applying" /\ txn'[i].undo = UndoOf(i)
        /\ txn'[i].op.does = txn[i].op.does /\ txn'[i].op.value = txn[i].op.value
        /\ txn'[i].op.origin = OriginOf(txn[i].op, UndoOf(i))
    BY <1>1, PrepareMoves
  <2>2. txn'[i].undo.previous = place /\ txn'[i].op.origin = txn[i].op.origin
    BY <2>1, UndoIs DEF OriginOf, IsProfile
  <2> QED BY <2>1, <2>2 DEF VariableTrace, Made, Writes
<1>2. CASE KeepPrevious(i) BY <1>2, KeepPreviousIs
<1>3. CASE Mutate(i)
  <2>1. /\ row' = row /\ txn' = txn /\ place' = Mutated(i).place /\ txn[i].at = "applying"
        /\ Writes(txn[i].op) /\ txn[i] # None
    BY <1>3, MutateIs
  <2>2. place' = IF txn[i].op.does = "put" THEN txn[i].op.value
                 ELSE IF place = txn[i].op.value THEN txn[i].op.origin[1] ELSE place
    BY <2>1 DEF Mutated, IsProfile, Outcome
  <2>3. VariableStage(place, txn[i], mem[i].pc, history.before[i])
    BY <2>1 DEF Undoing, StageOK
  <2>4. place' = Written(txn[i]) BY <2>1, <2>2, <2>3 DEF VariableStage, Written, Writes
  <2> QED BY <2>1, <2>4 DEF VariableTrace, Writes
<1>4. CASE Undo(i)
  <2>1. /\ row' = row /\ txn' = txn /\ mem'[i].pc = "undone" /\ txn[i].state = "rolling_back"
        /\ txn[i].at \in {"applying", "applied"}
    BY <1>4, UndoStepIs
  <2> QED BY <2>1 DEF VariableTrace, Made
<1>5. CASE Mark(i) \/ Fail(i) \/ Crash(i) \/ Recover(i)
  <2>1. Rests(i) /\ (Made(txn'[i], mem'[i].pc) => Made(txn[i], mem[i].pc))
    BY <1>5, RestingIs, RestingMade
  <2> HIDE DEF Made
  <2> QED BY <2>1 DEF VariableTrace, Rests, Written
<1> QED BY <1>1, <1>2, <1>3, <1>4, <1>5

LEMMA VariableCommitted ==
  ASSUME Common, Plain, kind = "environment", NEW f \in {None, Stranger},
         NEW i \in Installations, Commit(i),
         VariableTrace(i, place, txn[i], mem[i].pc, row, f)
  PROVE  VariableTraced(place, f, row')
<1> DEFINE t == txn[i]
           r == RowOf(t)
<1>1. /\ t # None /\ mem[i].pc = "walk" /\ t.state = "running" /\ row'[i] = r
      /\ t.at = "applied" \/ (t.at = "planned" /\ ~Writes(t.op))
      /\ \A j \in Installations \ {i} : row'[j] = row[j]
  BY CommitIs
<1>2. TransactionOK(i) /\ RowOK(i) /\ ProcessOK(i) /\ t.code = None
  BY <1>1 DEF Common, Plain, IsProfile
<1>3. \A j \in Installations \ {i} : row[j] = None BY <1>1, <1>2 DEF ProcessOK
<1>4. /\ t.op.does \in {"none", "keep", "put", "remove"}
      /\ <<f>> # None
  BY <1>1, Known DEF Common, TypeOK, Transactions, Operations
<1>5. SUFFICES IF r = None THEN place = f ELSE place = r.value /\ r.origin = <<f>>
  BY <1>1, <1>3 DEF VariableTraced
<1>6. /\ t.op.does \in {"put", "keep"} =>
           r = [value |-> t.op.value,
                origin |-> IF t.op.origin = None THEN <<t.undo.previous>> ELSE t.op.origin]
      /\ t.op.does \notin {"put", "keep"} => r = None
      /\ t.op.does \in {"put", "keep"} => r # None
  <2>1. None # "skipped" /\ None \notin Rows /\ r \in Rows \cup {None}
    BY <1>1, RowIs, NothingElse
  <2>2. /\ t.op.does \in {"put", "keep"} =>
             r = [value |-> t.op.value,
                  origin |-> IF t.op.origin = None THEN <<t.undo.previous>> ELSE t.op.origin]
        /\ t.op.does \notin {"put", "keep"} => r = None
    BY <1>2, <2>1 DEF RowOf
  <2>3. ASSUME t.op.does \in {"put", "keep"} PROVE r # None
    <3> DEFINE origin == IF t.op.origin = None THEN <<t.undo.previous>> ELSE t.op.origin
    <3>1. t.op.value \in Contents /\ origin \in Origins
      <4>1. t.op.value \in Contents BY <1>2, <1>1, <2>3, OwnContents DEF TransactionOK
      <4>2. t.undo.previous \in Values /\ t.op.origin \in Origins
        BY <1>1, <1>2 DEF TransactionOK, PreviousOK, Common, TypeOK, Transactions, Operations
      <4> QED BY <4>1, <4>2 DEF Origins
    <3> HIDE DEF origin
    <3>2. [value |-> t.op.value, origin |-> origin] \in Rows BY <3>1 DEF Rows
    <3> QED BY <2>1, <2>2, <2>3, <3>2 DEF origin
  <2> QED BY <2>2, <2>3
<1> HIDE DEF r
<1>7. CASE t.op.does = "put"
  <2>1. t.at = "applied" /\ place = t.op.value /\ VariableTraced(t.undo.previous, f, row)
    BY <1>1, <1>7 DEF VariableTrace, Made, Written, Writes
  <2>2. t.op.origin = None => t.undo.previous = f
    <3>1. SUFFICES ASSUME t.op.origin = None PROVE t.undo.previous = f OBVIOUS
    <3>2. row[i] = None BY <1>7, <3>1 DEF VariableTrace, Writes
    <3> QED BY <1>3, <2>1, <3>2 DEF VariableTraced
  <2>3. t.op.origin # None => t.op.origin = <<f>> BY DEF VariableTrace
  <2>4. r.value = t.op.value /\ r.origin = <<f>> BY <1>6, <1>7, <2>2, <2>3
  <2> QED BY <1>6, <1>7, <2>1, <2>4
<1>8. CASE t.op.does = "keep"
  <2>1. place = t.op.value BY <1>8 DEF VariableTrace
  <2>2. t.op.origin # None BY <1>1, <1>2, <1>8 DEF TransactionOK, HasOrigin
  <2>3. t.op.origin = <<f>> BY <2>2 DEF VariableTrace
  <2> QED BY <1>6, <1>8, <2>1, <2>2, <2>3
<1>9. CASE t.op.does = "remove"
  <2>1. t.at = "applied" /\ place = t.op.origin[1]
    BY <1>1, <1>9 DEF VariableTrace, Made, Written, Writes
  <2>2. t.op.origin # None BY <1>1, <1>2, <1>9 DEF TransactionOK, RowOK, HasOrigin
  <2>3. t.op.origin = <<f>> BY <2>2 DEF VariableTrace
  <2> QED BY <1>6, <1>9, <2>1, <2>3
<1>10. CASE t.op.does = "none"
  <2>1. row[i] = None /\ t.at = "planned"
    BY <1>1, <1>10, <1>2 DEF VariableTrace, TransactionOK, Writes
  <2>2. place = f BY <1>3, <2>1 DEF VariableTrace, VariableTraced
  <2> QED BY <1>6, <1>10, <2>2
<1> QED BY <1>4, <1>7, <1>8, <1>9, <1>10

LEMMA VariablesStep ==
  ASSUME Common, Undoing, Plain, kind = "environment", NEW f \in {None, Stranger}, VariablesTraced(f),
         NEW i \in Installations, EngineStep(i), history.found # None
  PROVE  VariablesTraced(f)'
<1>1. /\ \A j \in Installations \ {i} : txn'[j] = None /\ txn[j] = None
      /\ Begin(i) => Nobody
      /\ txn'[i] # None => ~Nobody'
  BY OneAtATime DEF IsProfile
<1>2. /\ txn[i] # None \/ Begin(i)
      /\ Begin(i) \/ Prepare(i) \/ KeepPrevious(i) \/ Mutate(i) \/ Undo(i)
           \/ Mark(i) \/ Fail(i) \/ Crash(i) \/ Recover(i) => txn'[i] # None
  BY OpenOrNot
<1> SUFFICES /\ txn'[i] = None => VariableTraced(place', f, row')
             /\ txn'[i] # None => VariableTrace(i, place', txn'[i], mem'[i].pc, row', f)
  BY <1>1 DEF VariablesTraced, Nobody
<1>3. CASE Begin(i)
  <2>1. PICK want \in Own(i) \cup {None}, repair \in BOOLEAN :
          txn'[i] = [op |-> PlanOf(i, want, repair), state |-> "running", at |-> "planned",
                     undo |-> NoUndo, code |-> None]
    BY <1>3, BeginIs
  <2>2. place' = place /\ row' = row /\ VariableTraced(place, f, row)
    BY <1>1, <1>3, BeginIs DEF VariablesTraced
  <2>3. txn'[i].op = PlanOf(i, want, repair) /\ txn'[i].at = "planned" BY <2>1
  <2>4. \A j \in Installations \ {i} : row[j] = None BY <1>3 DEF Begin, MayStart
  <2>5. VariableTrace(i, place, txn'[i], mem'[i].pc, row, f)
    BY <2>2, <2>3, <2>4, VariablePlanned
  <2> QED BY <1>2, <1>3, <2>2, <2>5
<1>4. CASE /\ txn[i] # None
           /\ \/ Prepare(i) \/ KeepPrevious(i) \/ Mutate(i) \/ Undo(i)
              \/ Mark(i) \/ Fail(i) \/ Crash(i) \/ Recover(i)
  <2>1. VariableTrace(i, place', txn'[i], mem'[i].pc, row', f)
    BY <1>4, VariableMoves DEF VariablesTraced
  <2> QED BY <1>2, <1>4, <2>1
<1>5. CASE Commit(i)
  <2>1. txn'[i] = None /\ place' = place /\ txn[i] # None BY <1>5, CommitIs
  <2>2. VariableTraced(place, f, row') BY <1>5, <2>1, VariableCommitted DEF VariablesTraced
  <2> QED BY <2>1, <2>2
<1>6. CASE FinishRollback(i)
  <2>1. /\ txn'[i] = None /\ place' = place /\ row' = row /\ txn[i] # None /\ txn[i] \in Transactions
        /\ \/ mem[i].pc = "undone" /\ txn[i].at # "planned"
           \/ txn[i].at = "planned"
    BY <1>6, RollbackIs
  <2>2. VariableTrace(i, place, txn[i], mem[i].pc, row, f) BY <2>1 DEF VariablesTraced
  <2>3. VariableStage(place, txn[i], mem[i].pc, history.before[i]) /\ history.before[i] # None
    BY <2>1 DEF Undoing, StageOK, Plain, IsProfile
  <2>4. txn[i].at \in {"planned", "applying", "applied"} BY <2>1 DEF Transactions
  <2> QED BY <2>1, <2>2, <2>3, <2>4 DEF VariableTrace, VariableStage
<1> QED BY <1>2, <1>3, <1>4, <1>5, <1>6 DEF EngineStep

(***************************************************************************)
(* A firewall rule: one owner's, where none was found.                      *)
(***************************************************************************)

\* Of two installations one owns the rule.
LEMMA RuleOwner ==
  ASSUME Common, NEW f \in Seq({Stranger}), RuleTraced(place, f, row), NEW i \in Installations, row[i] # None
  PROVE  /\ place = <<row[i].value>> /\ row[i].value \in Own(i) /\ f = <<>>
         /\ \A j \in Installations \ {i} : row[j] = None
<1>1. place = <<row[i].value>> /\ row[i].value \in Own(i) /\ f = <<>>
  BY DEF RuleTraced, Common, RowOK
<1>2. ASSUME NEW j \in Installations \ {i}, row[j] # None PROVE FALSE
  <2>1. place = <<row[j].value>> /\ row[j].value \in Own(j)
    BY <1>2 DEF RuleTraced, Common, RowOK
  <2>2. row[i].value = row[j].value BY <1>1, <2>1
  <2> QED BY <1>1, <1>2, <2>1, <2>2, OwnContents
<1> QED BY <1>1, <1>2

LEMMA RulePlanned ==
  ASSUME Common, kind = "firewall", NEW i \in Installations, NEW want \in Own(i) \cup {None},
         NEW repair \in BOOLEAN, NEW t, t.op = PlanOf(i, want, repair), t.at = "planned", NEW pc,
         NEW f \in Seq({Stranger}), RuleTraced(place, f, row)
  PROVE  RuleTrace(i, place, t, pc, row, f)
<1>1. t.op = PlanRule(i, want, repair) BY DEF PlanOf, IsProfile
<1>2. want # None <=> want \in Own(i) BY OwnContents
<1>3. place \in Seq(Rules) BY KindsOfPlace DEF Common
<1>4. (\A j \in Installations : row[j] = None) => place = f BY DEF RuleTraced
<1> DEFINE op == t.op
<1>5. SUFFICES /\ op.does = "none" => row[i] = None
               /\ op.does # "none" => f = <<>> /\ \A j \in Installations \ {i} : row[j] = None
               /\ op.does = "keep" => place = <<op.value>>
  BY DEF RuleTrace
<1>6. CASE row[i] # None
  <2>1. /\ place = <<row[i].value>> /\ f = <<>> /\ \A j \in Installations \ {i} : row[j] = None
    BY <1>6, RuleOwner
  <2>2. Len(place) = 1 /\ place # <<>> /\ Head(place) = row[i].value BY <2>1
  <2>3. op.does # "none" /\ (op.does = "keep" => place = <<op.value>>)
    <3>1. CASE want = None
      <4>1. op = Operation("remove", row[i].value, None)
        BY <1>1, <1>6, <2>1, <3>1 DEF PlanRule
      <4> QED BY <4>1, OperationIs
    <3>2. CASE want # None /\ want = row[i].value
      <4>1. op = Operation("keep", want, None) BY <1>1, <2>2, <3>2 DEF PlanRule
      <4>2. op.does = "keep" /\ op.value = want BY <4>1, OperationIs
      <4> QED BY <2>1, <3>2, <4>2
    <3>3. CASE want # None /\ want # row[i].value
      <4>1. op = Operation("put", want, None) BY <1>1, <1>6, <2>2, <3>3 DEF PlanRule
      <4> QED BY <4>1, OperationIs
    <3> QED BY <3>1, <3>2, <3>3
  <2> QED BY <2>1, <2>3
<1>7. CASE row[i] = None
  <2>1. CASE want = None
    <3>1. op = Operation("none", None, None) BY <1>1, <1>7, <2>1 DEF PlanRule, NoOperation
    <3>2. op.does = "none" BY <3>1, OperationIs
    <3> QED BY <1>7, <3>2
  <2>2. CASE want # None /\ place = <<>>
    <3>1. op = Operation("put", want, None) BY <1>1, <2>2 DEF PlanRule
    <3>2. op.does = "put" BY <3>1, OperationIs
    <3>3. \A j \in Installations : row[j] = None BY <2>2 DEF RuleTraced
    <3> QED BY <1>4, <2>2, <3>2, <3>3
  <2>3. CASE want # None /\ place # <<>> /\ ~(Len(place) = 1 /\ Head(place) = want)
    <3>1. op = Operation("none", None, None)
      <4>1. CASE Len(place) = 1
        <5>1. Head(place) # want BY <2>3, <4>1
        <5> QED BY <1>1, <1>7, <2>3, <4>1, <5>1 DEF PlanRule, NoOperation
      <4>2. CASE Len(place) # 1 BY <1>1, <1>7, <2>3, <4>2 DEF PlanRule, NoOperation
      <4> QED BY <4>1, <4>2
    <3>2. op.does = "none" BY <3>1, OperationIs
    <3> QED BY <1>7, <3>2
  <2>4. ~(want # None /\ place # <<>> /\ Len(place) = 1 /\ Head(place) = want)
    <3>1. SUFFICES ASSUME want # None, place # <<>>, Len(place) = 1, Head(place) = want PROVE FALSE
      OBVIOUS
    <3>2. want \in Own(i) /\ want # Stranger BY <1>2, <3>1, OwnContents
    <3>3. CASE \A j \in Installations : row[j] = None
      <4>1. place = f BY <1>4, <3>3
      <4>2. Head(place) = Stranger BY <3>1, <4>1
      <4> QED BY <3>1, <3>2, <4>2
    <3>4. CASE \E j \in Installations : row[j] # None
      <4>1. PICK j \in Installations : row[j] # None BY <3>4
      <4>2. place = <<row[j].value>> /\ row[j].value \in Own(j) BY <4>1, RuleOwner
      <4>3. want \in Own(j) BY <3>1, <4>2
      <4> QED BY <1>7, <3>2, <4>1, <4>3, OwnContents
    <3> QED BY <3>3, <3>4
  <2> QED BY <2>1, <2>2, <2>3, <2>4
<1> QED BY <1>6, <1>7

LEMMA RuleMoves ==
  ASSUME Common, Undoing, kind = "firewall", NEW f, NEW i \in Installations, history.before[i] # None,
         RuleTrace(i, place, txn[i], mem[i].pc, row, f),
         \/ Prepare(i) \/ KeepPrevious(i) \/ Mutate(i) \/ Undo(i)
         \/ Mark(i) \/ Fail(i) \/ Crash(i) \/ Recover(i)
  PROVE  RuleTrace(i, place', txn'[i], mem'[i].pc, row', f)
<1>1. CASE Prepare(i)
  <2>1. /\ place' = place /\ row' = row /\ mem' = mem /\ mem[i].pc = "walk" /\ Writes(txn[i].op)
        /\ txn[i].at = "planned" /\ txn'[i].at = "applying" /\ history' = history
        /\ txn'[i].op.does = txn[i].op.does /\ txn'[i].op.value = txn[i].op.value
        /\ txn[i] \in Transactions
    BY <1>1, PrepareMoves
  <2>2. txn[i] # None /\ StageOK(i) BY <2>1, NothingElse DEF Undoing
  <2>3. RuleStage(place, txn[i], mem[i].pc, history.before[i], row[i] # None)
    BY <2>2 DEF StageOK
  <2>4. RuleStage(place', txn'[i], mem'[i].pc, history'.before[i], row'[i] # None)
    BY <1>1, <2>2, RuleStep
  <2>5. Rules0(txn'[i]) = place
    <3>1. history.before[i] = <<place>> BY <2>1, <2>3 DEF RuleStage
    <3>2. history.before[i] = <<Rules0(txn'[i])>> BY <2>1, <2>4 DEF RuleStage
    <3> QED BY <3>1, <3>2
  <2> HIDE DEF Rules0
  <2> QED BY <2>1, <2>5 DEF RuleTrace, Made, Writes
<1>2. CASE KeepPrevious(i) BY <1>2, KeepPreviousIs
<1>3. CASE Mutate(i)
  <2>1. /\ row' = row /\ txn' = txn /\ place' = Mutated(i).place /\ txn[i].at = "applying"
        /\ Writes(txn[i].op) /\ txn[i] # None
    BY <1>3, MutateIs
  <2>2. place' = IF txn[i].op.does = "put"
                 THEN IF place = <<>> THEN <<txn[i].op.value>> ELSE [place EXCEPT ![1] = txn[i].op.value]
                 ELSE IF place = <<txn[i].op.value>> THEN <<>> ELSE place
    BY <2>1 DEF Mutated, IsProfile, Outcome
  <2>3. RuleStage(place, txn[i], mem[i].pc, history.before[i], row[i] # None)
    BY <2>1 DEF Undoing, StageOK
  <2>4. CASE txn[i].op.does = "put"
    <3>1. place = <<>> \/ \E x : place = <<x>> BY <2>1, <2>3, <2>4 DEF RuleStage, Rules0
    <3>2. place' = <<txn[i].op.value>> BY <2>2, <2>4, <3>1
    <3> QED BY <2>1, <2>4, <3>2 DEF RuleTrace, Writes
  <2>5. CASE txn[i].op.does = "remove"
    <3>1. txn[i].op.value # None BY <2>1, <2>5, OwnContents DEF Common, TransactionOK
    <3>2. place \in {<<txn[i].op.value>>, <<>>}
      BY <2>1, <2>3, <2>5, <3>1 DEF RuleStage, Rules0
    <3>3. place' = <<>> BY <2>2, <2>5, <3>2
    <3> QED BY <2>1, <2>5, <3>3 DEF RuleTrace, Writes
  <2> QED BY <2>1, <2>4, <2>5 DEF Writes
<1>4. CASE Undo(i)
  <2>1. /\ row' = row /\ txn' = txn /\ mem'[i].pc = "undone" /\ txn[i].state = "rolling_back"
        /\ txn[i].at \in {"applying", "applied"}
    BY <1>4, UndoStepIs
  <2> QED BY <2>1 DEF RuleTrace, Made
<1>5. CASE Mark(i) \/ Fail(i) \/ Crash(i) \/ Recover(i)
  <2>1. Rests(i) /\ (Made(txn'[i], mem'[i].pc) => Made(txn[i], mem[i].pc))
    BY <1>5, RestingIs, RestingMade
  <2> HIDE DEF Made
  <2> QED BY <2>1 DEF RuleTrace, Rests, Rules0
<1> QED BY <1>1, <1>2, <1>3, <1>4, <1>5

LEMMA RuleCommitted ==
  ASSUME Common, Plain, kind = "firewall", NEW f \in Seq({Stranger}),
         NEW i \in Installations, Commit(i),
         RuleTrace(i, place, txn[i], mem[i].pc, row, f)
  PROVE  RuleTraced(place, f, row')
<1> DEFINE t == txn[i]
           r == RowOf(t)
<1>1. /\ t # None /\ mem[i].pc = "walk" /\ t.state = "running" /\ row'[i] = r
      /\ t.at = "applied" \/ (t.at = "planned" /\ ~Writes(t.op))
      /\ \A j \in Installations \ {i} : row'[j] = row[j]
  BY CommitIs
<1>2. TransactionOK(i) /\ t.code = None BY <1>1 DEF Common, Plain, IsProfile
<1>3. t.op.does \in {"none", "keep", "put", "remove"}
  BY <1>1 DEF Common, TypeOK, Transactions, Operations
<1>4. /\ t.op.does \notin {"put", "keep"} => r = None
      /\ t.op.does \in {"put", "keep"} => r.value = t.op.value /\ r # None
  <2>1. None # "skipped" /\ None \notin Rows /\ r \in Rows \cup {None}
    BY <1>1, RowIs, NothingElse
  <2>2. /\ t.op.does \in {"put", "keep"} => r = [value |-> t.op.value, origin |-> t.op.origin]
        /\ t.op.does \notin {"put", "keep"} => r = None
    BY <1>2, <2>1 DEF RowOf
  <2>3. ASSUME t.op.does \in {"put", "keep"} PROVE r # None
    <3>1. t.op.value \in Contents /\ t.op.origin \in Origins
      BY <1>1, <1>2, <2>3, OwnContents DEF TransactionOK, Common, TypeOK, Transactions, Operations
    <3>2. [value |-> t.op.value, origin |-> t.op.origin] \in Rows BY <3>1 DEF Rows
    <3> QED BY <2>1, <2>2, <2>3, <3>2
  <2> HIDE DEF r
  <2> QED BY <2>2, <2>3
<1> HIDE DEF r
<1>5. CASE t.op.does = "none"
  <2>1. t.at = "planned" /\ row[i] = None
    BY <1>1, <1>2, <1>5 DEF RuleTrace, TransactionOK, Writes
  <2>2. RuleTraced(place, f, row) BY <2>1 DEF RuleTrace
  <2>3. \A j \in Installations : row'[j] = row[j] BY <1>1, <1>4, <1>5, <2>1
  <2> QED BY <2>2, <2>3 DEF RuleTraced
<1>6. CASE t.op.does # "none"
  <2>1. f = <<>> /\ \A j \in Installations \ {i} : row'[j] = None
    BY <1>1, <1>6 DEF RuleTrace
  <2>2. place = IF t.op.does \in {"put", "keep"} THEN <<t.op.value>> ELSE <<>>
    <3>1. CASE t.op.does = "keep" BY <3>1 DEF RuleTrace
    <3>2. CASE t.op.does \in {"put", "remove"} BY <1>1, <3>2 DEF RuleTrace, Made, Writes
    <3> QED BY <1>3, <1>6, <3>1, <3>2
  <2> QED BY <1>1, <1>3, <1>4, <1>6, <2>1, <2>2 DEF RuleTraced
<1> QED BY <1>5, <1>6

LEMMA RulesStep ==
  ASSUME Common, Undoing, Plain, kind = "firewall", NEW f \in Seq({Stranger}), RulesTraced(f),
         NEW i \in Installations, EngineStep(i), history.found # None
  PROVE  RulesTraced(f)'
<1>1. /\ \A j \in Installations \ {i} : txn'[j] = None /\ txn[j] = None
      /\ Begin(i) => Nobody
      /\ txn'[i] # None => ~Nobody'
  BY OneAtATime DEF IsProfile
<1>2. /\ txn[i] # None \/ Begin(i)
      /\ Begin(i) \/ Prepare(i) \/ KeepPrevious(i) \/ Mutate(i) \/ Undo(i)
           \/ Mark(i) \/ Fail(i) \/ Crash(i) \/ Recover(i) => txn'[i] # None
  BY OpenOrNot
<1> SUFFICES /\ txn'[i] = None => RuleTraced(place', f, row')
             /\ txn'[i] # None => RuleTrace(i, place', txn'[i], mem'[i].pc, row', f)
  BY <1>1 DEF RulesTraced, Nobody
<1>3. CASE Begin(i)
  <2>1. PICK want \in Own(i) \cup {None}, repair \in BOOLEAN :
          txn'[i] = [op |-> PlanOf(i, want, repair), state |-> "running", at |-> "planned",
                     undo |-> NoUndo, code |-> None]
    BY <1>3, BeginIs
  <2>2. place' = place /\ row' = row /\ RuleTraced(place, f, row)
    BY <1>1, <1>3, BeginIs DEF RulesTraced
  <2>3. txn'[i].op = PlanOf(i, want, repair) /\ txn'[i].at = "planned" BY <2>1
  <2>4. RuleTrace(i, place, txn'[i], mem'[i].pc, row, f) BY <2>2, <2>3, RulePlanned
  <2> QED BY <1>2, <1>3, <2>2, <2>4
<1>4. CASE /\ txn[i] # None
           /\ \/ Prepare(i) \/ KeepPrevious(i) \/ Mutate(i) \/ Undo(i)
              \/ Mark(i) \/ Fail(i) \/ Crash(i) \/ Recover(i)
  <2>1. history.before[i] # None BY <1>4 DEF Plain, IsProfile
  <2>2. RuleTrace(i, place', txn'[i], mem'[i].pc, row', f)
    BY <1>4, <2>1, RuleMoves DEF RulesTraced
  <2> QED BY <1>2, <1>4, <2>2
<1>5. CASE Commit(i)
  <2>1. txn'[i] = None /\ place' = place /\ txn[i] # None BY <1>5, CommitIs
  <2>2. RuleTraced(place, f, row') BY <1>5, <2>1, RuleCommitted DEF RulesTraced
  <2> QED BY <2>1, <2>2
<1>6. CASE FinishRollback(i)
  <2>1. /\ txn'[i] = None /\ place' = place /\ row' = row /\ txn[i] # None /\ txn[i] \in Transactions
        /\ \/ mem[i].pc = "undone" /\ txn[i].at # "planned"
           \/ txn[i].at = "planned"
    BY <1>6, RollbackIs
  <2>2. RuleTrace(i, place, txn[i], mem[i].pc, row, f) BY <2>1 DEF RulesTraced
  <2>3. RuleStage(place, txn[i], mem[i].pc, history.before[i], row[i] # None) /\ history.before[i] # None
    BY <2>1 DEF Undoing, StageOK, Plain, IsProfile
  <2>4. txn[i].at \in {"planned", "applying", "applied"} BY <2>1 DEF Transactions
  <2> QED BY <2>1, <2>2, <2>3, <2>4 DEF RuleTrace, RuleStage
<1> QED BY <1>2, <1>3, <1>4, <1>5, <1>6 DEF EngineStep

(***************************************************************************)
(* A profile: the blocks put into it lead back to the one found.            *)
(***************************************************************************)

\* A profile p becomes q, at most by the block of one marker, which is then x.
Moved(p, q, m, x) ==
  /\ WellFormed(q) /\ q.access = p.access /\ find(TextOf(q), m) = x
  /\ \A n : n # m => find(TextOf(q), n) = find(TextOf(p), n)
  /\ \A b \in BlocksOf(q) : b.marker = m \/ b \in BlocksOf(p)
  /\ q # p => p.access = "free"

LEMMA MovedNot ==
  ASSUME NEW p, WellFormed(p), NEW m
  PROVE  Moved(p, p, m, find(TextOf(p), m))
BY DEF Moved

\* Blocks of another marker are found as before.
LEMMA FindsApart ==
  ASSUME NEW text \in Seq(Tokens), Single(text), NEW next \in Seq(Tokens), Single(next),
         NEW m, NEW n, n # m,
         \A b \in BlocksIn(next) : b.marker = m \/ b \in BlocksIn(text),
         Apart(text, m) \subseteq BlocksIn(next)
  PROVE  find(next, n) = find(text, n)
<1>1. CASE \E b \in BlocksIn(text) : b.marker = n
  <2>1. PICK b \in BlocksIn(text) : b.marker = n BY <1>1
  <2>2. b \in BlocksIn(next) BY <2>1 DEF Apart
  <2>3. find(text, n) = b.text /\ find(next, n) = b.text BY <2>1, <2>2, Finds
  <2> QED BY <2>3
<1>2. CASE ~\E b \in BlocksIn(text) : b.marker = n
  <2>1. \A b \in BlocksIn(next) : b.marker # n BY <1>2
  <2>2. find(text, n) = None /\ find(next, n) = None BY <1>2, <2>1, Finds
  <2> QED BY <2>2
<1> QED BY <1>1, <1>2

LEMMA WithMoves ==
  ASSUME NEW p, WellFormed(p), p.access = "free", NEW m \in Installations \cup {"product"},
         NEW c \in Contents \cup {Edited}
  PROVE  Moved(p, With(p, m, c), m, c)
<1> DEFINE q == With(p, m, c)
<1>1. /\ WellFormed(q) /\ q.access = p.access /\ find(TextOf(q), m) = c
      /\ BlocksOf(q) = Apart(TextOf(p), m) \cup {Block(m, c)}
  BY WithBlock
<1> HIDE DEF q
<1>2. \A b \in BlocksOf(q) : b.marker = m \/ b \in BlocksOf(p)
  BY <1>1 DEF Apart, BlocksOf, Block
<1>3. ASSUME NEW n, n # m PROVE find(TextOf(q), n) = find(TextOf(p), n)
  <2>1. /\ TextOf(p) \in Seq(Tokens) /\ Single(TextOf(p))
        /\ TextOf(q) \in Seq(Tokens) /\ Single(TextOf(q))
    BY <1>1, ProfileParts
  <2>2. Apart(TextOf(p), m) \subseteq BlocksIn(TextOf(q)) BY <1>1 DEF BlocksOf
  <2>3. \A b \in BlocksIn(TextOf(q)) : b.marker = m \/ b \in BlocksIn(TextOf(p))
    BY <1>2 DEF BlocksOf
  <2> QED BY <1>3, <2>1, <2>2, <2>3, FindsApart
<1> QED BY <1>1, <1>2, <1>3 DEF Moved, q

LEMMA WithoutMoves ==
  ASSUME NEW p, WellFormed(p), p.access = "free", NEW m, find(TextOf(p), m) # None,
         NEW sep \in 0..2, NEW deleteFile \in BOOLEAN, NEW deleteDir \in BOOLEAN
  PROVE  Moved(p, Without(p, m, sep, deleteFile, deleteDir), m, None)
<1> DEFINE q == Without(p, m, sep, deleteFile, deleteDir)
<1>1. /\ WellFormed(q) /\ q.access = "free" /\ find(TextOf(q), m) = None
      /\ BlocksOf(q) = Apart(TextOf(p), m)
  BY WithoutBlock
<1> HIDE DEF q
<1>2. \A b \in BlocksOf(q) : b.marker = m \/ b \in BlocksOf(p) BY <1>1 DEF Apart, BlocksOf
<1>3. ASSUME NEW n, n # m PROVE find(TextOf(q), n) = find(TextOf(p), n)
  <2>1. /\ TextOf(p) \in Seq(Tokens) /\ Single(TextOf(p))
        /\ TextOf(q) \in Seq(Tokens) /\ Single(TextOf(q))
    BY <1>1, ProfileParts
  <2>2. Apart(TextOf(p), m) \subseteq BlocksIn(TextOf(q)) BY <1>1 DEF BlocksOf
  <2>3. \A b \in BlocksIn(TextOf(q)) : b.marker = m \/ b \in BlocksIn(TextOf(p))
    BY <1>2 DEF BlocksOf
  <2> QED BY <1>3, <2>1, <2>2, <2>3, FindsApart
<1> QED BY <1>1, <1>2, <1>3 DEF Moved, q

LEMMA AddingMoves ==
  ASSUME NEW p, WellFormed(p), NEW m \in Installations \cup {"product"}, NEW c \in Contents \cup {Edited},
         find(TextOf(p), m) # Damaged
  PROVE  LET o == AddBlock(p, m, c)
         IN  \/ /\ o.code = "skipped" /\ o.place = p /\ p.access # "free"
             \/ /\ o.code = None /\ Moved(p, o.place, m, c)
                /\ o.place \in {p, With(p, m, c)}
<1> DEFINE now == find(TextOf(p), m)
<1>1. CASE AddBlock(p, m, c) = Outcome(p, "skipped") /\ (p.access # "free" \/ now = Damaged)
  BY <1>1 DEF Outcome
<1>2. CASE AddBlock(p, m, c) = Outcome(p, None) /\ now = c BY <1>2, MovedNot DEF Outcome
<1>3. CASE AddBlock(p, m, c) = Outcome(With(p, m, c), None) /\ p.access = "free" /\ now \notin {c, Damaged}
  <2>1. Moved(p, With(p, m, c), m, c) BY <1>3, WithMoves
  <2> QED BY <1>3, <2>1 DEF Outcome
<1> QED BY <1>1, <1>2, <1>3, Adding

LEMMA RemovingMoves ==
  ASSUME NEW p, WellFormed(p), NEW m \in Installations \cup {"product"}, find(TextOf(p), m) # Damaged,
         NEW sep \in 0..2, NEW deleteFile \in BOOLEAN, NEW deleteDir \in BOOLEAN
  PROVE  LET o == RemoveBlock(p, m, sep, deleteFile, deleteDir)
         IN  \/ /\ o.code = "skipped" /\ o.place = p /\ p.access # "free"
             \/ /\ o.code = None /\ Moved(p, o.place, m, None)
                /\ o.place = p => find(TextOf(p), m) = None
<1> DEFINE now == find(TextOf(p), m)
           q   == Without(p, m, sep, deleteFile, deleteDir)
           o   == RemoveBlock(p, m, sep, deleteFile, deleteDir)
<1>1. CASE o = Outcome(p, None) /\ now = None BY <1>1, MovedNot DEF Outcome
<1>2. CASE o = Outcome(p, "skipped") /\ (p.access # "free" \/ now = Damaged)
  BY <1>2 DEF Outcome
<1>3. CASE o = Outcome(q, None) /\ p.access = "free" /\ p.file # None /\ now \notin {None, Damaged}
  <2>1. Moved(p, q, m, None) BY <1>3, WithoutMoves
  <2>2. q # p BY <1>3, <2>1 DEF Moved
  <2> HIDE DEF q
  <2> QED BY <1>3, <2>1, <2>2 DEF Outcome
<1> QED BY <1>1, <1>2, <1>3, Removing

\* The mutation of a block, attempted once or again.
LEMMA BlockMutated ==
  ASSUME NEW p, WellFormed(p), NEW m \in Installations \cup {"product"}, NEW t, NEW pc,
         NEW held \in SUBSET Contents, NEW mine,
         BlockTrace(find(TextOf(p), m), t, None, pc, held, mine, p.access = "free"),
         t.at = "applying", t.state = "running", t.code = None,
         Writes(t.op), t.op.value \in Contents, t.op.origin \in Creations,
         NEW o,
         t.op.does = "put" => o = AddBlock(p, m, t.op.value),
         t.op.does = "remove" => o = RemoveBlock(p, m, t.op.origin.sep, t.op.origin.file, t.op.origin.dir)
  PROVE  /\ BlockTrace(find(TextOf(o.place), m), t, o.code, "mutated", held, mine, p.access = "free")
         /\ \E x \in {find(TextOf(p), m), Target(t)} : Moved(p, o.place, m, x)
<1> DEFINE now == find(TextOf(p), m)
<1>1. /\ t.op.does \in {"put", "remove"} /\ None # "skipped"
      /\ Target(t) = IF t.op.does = "put" THEN t.op.value ELSE None
  BY NothingElse DEF Writes, Target
<1>2. now \in {t.undo.previous, Target(t)} /\ t.undo.previous \in held \cup {None}
  BY DEF BlockTrace
<1>3. now # Damaged BY <1>1, <1>2, ResourcesAssumption, NothingElse
<1>4. \/ o.code = "skipped" /\ o.place = p /\ p.access # "free"
      \/ o.code = None /\ Moved(p, o.place, m, Target(t))
  <2>1. CASE t.op.does = "put" BY <1>1, <1>3, <2>1, AddingMoves
  <2>2. CASE t.op.does = "remove"
    <3>1. t.op.origin.sep \in 0..2 /\ t.op.origin.file \in BOOLEAN /\ t.op.origin.dir \in BOOLEAN
      BY DEF Creations
    <3> QED BY <1>1, <1>3, <2>2, <3>1, RemovingMoves
  <2> QED BY <1>1, <2>1, <2>2
<1>5. CASE o.code = "skipped" /\ o.place = p /\ p.access # "free"
  <2>1. Moved(p, o.place, m, now) BY <1>5, MovedNot
  <2>2. BlockTrace(now, t, o.code, "mutated", held, mine, p.access = "free")
    <3> HIDE DEF now
    <3> QED BY <1>1, <1>5 DEF BlockTrace, Writes, now
  <2> QED BY <1>5, <2>1, <2>2
<1>6. CASE o.code = None /\ Moved(p, o.place, m, Target(t))
  <2>1. find(TextOf(o.place), m) = Target(t) BY <1>6 DEF Moved
  <2>2. BlockTrace(Target(t), t, o.code, "mutated", held, mine, p.access = "free")
    BY <1>1, <1>6 DEF BlockTrace
  <2> QED BY <1>6, <2>1, <2>2
<1> QED BY <1>4, <1>5, <1>6

\* The way back of a block.
LEMMA BlockUndone ==
  ASSUME NEW p, WellFormed(p), NEW m \in Installations \cup {"product"}, NEW t, NEW pc,
         NEW held \in SUBSET Contents, NEW mine,
         BlockTrace(find(TextOf(p), m), t, None, pc, held, mine, p.access = "free"),
         p.access # "free" => held = {} /\ find(TextOf(p), m) = None,
         t.at # "planned", t.state = "rolling_back",
         Writes(t.op), t.op.value \in Contents, t.op.origin \in Creations,
         NEW deleteFile \in BOOLEAN, NEW deleteDir \in BOOLEAN,
         NEW q,
         q = IF t.code = "skipped" THEN p
             ELSE IF t.undo.previous # None THEN AddBlock(p, m, t.undo.previous).place
             ELSE IF t.op.does = "put"
                  THEN RemoveBlock(p, m, t.op.origin.sep, deleteFile, deleteDir).place
             ELSE p
  PROVE  /\ BlockTrace(find(TextOf(q), m), t, None, "undone", held, mine, p.access = "free")
         /\ Moved(p, q, m, t.undo.previous)
<1> DEFINE now == find(TextOf(p), m)
           previous == t.undo.previous
<1>1. /\ t.op.does \in {"put", "remove"} /\ None # "skipped"
      /\ now \in {previous, Target(t)} /\ previous \in held \cup {None}
      /\ t.op.does = "remove" => previous = t.op.value
      /\ t.code = "skipped" => p.access # "free"
  BY NothingElse DEF Writes, BlockTrace
<1>2. now # Damaged BY <1>1, ResourcesAssumption, NothingElse DEF Target
<1>3. Moved(p, q, m, previous)
  <2>1. CASE p.access # "free"
    <3>1. previous = None /\ now = None BY <1>1, <2>1
    <3>2. q = p
      <4>1. CASE t.code # "skipped" /\ t.op.does = "put"
        <5>1. t.op.origin.sep \in 0..2 BY DEF Creations
        <5>2. RemoveBlock(p, m, t.op.origin.sep, deleteFile, deleteDir).place = p
          BY <1>2, <2>1, <5>1, RemovingMoves DEF Moved
        <5> QED BY <3>1, <4>1, <5>2
      <4>2. CASE ~(t.code # "skipped" /\ t.op.does = "put") BY <3>1, <4>2
      <4> QED BY <4>1, <4>2
    <3> QED BY <3>1, <3>2, MovedNot
  <2>2. CASE p.access = "free" /\ previous # None
    <3>1. previous \in Contents BY <1>1, <2>2
    <3>2. q = AddBlock(p, m, previous).place BY <1>1, <2>2
    <3> QED BY <1>2, <2>2, <3>1, <3>2, AddingMoves
  <2>3. CASE p.access = "free" /\ previous = None
    <3>1. t.op.does = "put" BY <1>1, <2>3, NothingElse
    <3>2. q = RemoveBlock(p, m, t.op.origin.sep, deleteFile, deleteDir).place
      BY <1>1, <2>3, <3>1
    <3>3. t.op.origin.sep \in 0..2 BY DEF Creations
    <3> QED BY <1>2, <2>3, <3>2, <3>3, RemovingMoves
  <2> QED BY <2>1, <2>2, <2>3
<1>4. find(TextOf(q), m) = previous BY <1>3 DEF Moved
<1>5. BlockTrace(previous, t, None, "undone", held, mine, p.access = "free")
  BY <1>1 DEF BlockTrace, Made, Writes
<1> QED BY <1>3, <1>4, <1>5

\* A block put into the profile found, and put again or taken out.
LEMMA PutIntoPut ==
  ASSUME NEW f, WellFormed(f), f.access = "free", NEW m \in Installations \cup {"product"},
         NEW own \in SUBSET Contents, NEW p, WellFormed(p), PutInto(p, f, m, own), NEW c \in own
  PROVE  PutInto(With(p, m, c), f, m, own)
<1>1. CASE p = f BY <1>1 DEF PutInto
<1>2. CASE p # f
  <2>1. PICK d \in own : p = With(f, m, d) BY <1>2 DEF PutInto
  <2> DEFINE q == With(f, m, d)
  <2>2. /\ TextOf(q) = with_block(TextOf(f), m, d) /\ q.access = f.access
        /\ TextOf(f) \in Seq(Tokens) /\ Single(TextOf(f)) /\ d \in Contents /\ c \in Contents
    <3>1. d \in Contents \cup {Edited} BY <2>1
    <3>2. TextOf(q) = with_block(TextOf(f), m, d) /\ q.access = f.access BY <3>1, WithBlock
    <3> QED BY <3>2, ProfileParts
  <2> HIDE DEF q
  <2>3. with_block(TextOf(p), m, c) = with_block(TextOf(f), m, c)
    BY <2>1, <2>2, PutTwice DEF q
  <2>4. With(p, m, c) = With(f, m, c)
    <3>1. With(p, m, c) = [dir |-> TRUE, file |-> with_block(TextOf(p), m, c), access |-> p.access]
      BY WithIs
    <3>2. With(f, m, c) = [dir |-> TRUE, file |-> with_block(TextOf(f), m, c), access |-> f.access]
      BY WithIs
    <3>3. p.access = f.access BY <2>1, <2>2 DEF q
    <3> QED BY <2>3, <3>1, <3>2, <3>3
  <2> QED BY <2>4 DEF PutInto
<1> QED BY <1>1, <1>2

LEMMA PutIntoFinds ==
  ASSUME NEW f, WellFormed(f), f.access = "free", BlocksOf(f) = {},
         NEW m \in Installations \cup {"product"},
         NEW own \in SUBSET Contents, NEW p, PutInto(p, f, m, own)
  PROVE  /\ find(TextOf(f), m) = None
         /\ find(TextOf(p), m) \in own \cup {None}
         /\ find(TextOf(p), m) = None => p = f
         /\ p # f => \E d \in own : p = With(f, m, d)
<1>1. find(TextOf(f), m) = None BY ProfileParts, Finds DEF BlocksOf
<1>2. p # f => \E d \in own : p = With(f, m, d) BY DEF PutInto
<1>3. ASSUME NEW d \in own, p = With(f, m, d) PROVE find(TextOf(p), m) = d /\ d # None
  BY <1>3, WithBlock, NothingElse
<1> QED BY <1>1, <1>2, <1>3

LEMMA PutIntoTaken ==
  ASSUME NEW f, WellFormed(f), f.access = "free", BlocksOf(f) = {},
         NEW m \in Installations \cup {"product"},
         NEW own \in SUBSET Contents, NEW p, PutInto(p, f, m, own)
  PROVE  RemoveBlock(p, m, Exact(f).sep, Exact(f).file, Exact(f).dir).place = f
<1>1. find(TextOf(f), m) = None /\ (p # f => \E d \in own : p = With(f, m, d))
  BY PutIntoFinds
<1>2. Exact(f).sep = separator_for(TextOf(f)) /\ Exact(f).file = (f.file = None) /\ Exact(f).dir = ~f.dir
  BY DEF Exact
<1>3. CASE p = f BY <1>1, <1>3, Removing DEF Outcome
<1>4. CASE p # f
  <2>1. PICK d \in own : p = With(f, m, d) BY <1>1, <1>4
  <2> QED BY <1>1, <1>2, <2>1, TakenBack
<1> QED BY <1>3, <1>4

\* The first step of a block records how it came to be.
LEMMA ExactPrepared ==
  ASSUME NEW f, WellFormed(f), f.access = "free", BlocksOf(f) = {},
         NEW m \in Installations \cup {"product"}, NEW own \in SUBSET Contents,
         NEW p, NEW t, NEW u, NEW mine,
         BlockExact(own, p, find(TextOf(p), m), t, mine, f, m), t.at = "planned",
         find(TextOf(p), m) # None => mine # None,
         mine # None => mine.value \in own,
         t.op.does = "put" => t.op.origin = IF mine = None THEN None ELSE mine.origin,
         t.op.does = "remove" => mine # None /\ t.op.origin = mine.origin,
         Writes(t.op),
         u.at = "applying", u.undo.previous = find(TextOf(p), m),
         u.undo.existed = (p.file # None), u.undo.dir = p.dir,
         t.op.does = "remove" => u.op.origin = t.op.origin,
         t.op.does = "put" =>
           LET known == IF t.op.origin = None THEN NoOrigin ELSE t.op.origin
           IN  u.op.origin = IF u.undo.previous # None THEN known
                             ELSE [file |-> known.file \/ ~u.undo.existed, dir |-> known.dir \/ ~u.undo.dir,
                                   sep |-> IF u.undo.existed THEN separator_for(p.file) ELSE 0]
  PROVE  BlockExact(own, p, find(TextOf(p), m), u, mine, f, m)
<1> DEFINE now == find(TextOf(p), m)
<1>1. /\ PutInto(p, f, m, own) /\ (mine # None => mine.origin = Exact(f) /\ now = mine.value)
  BY DEF BlockExact
<1>2. /\ find(TextOf(f), m) = None /\ now \in own \cup {None} /\ (now = None => p = f)
  BY <1>1, PutIntoFinds
<1>3. Exact(f) # None
  <2>1. separator_for(TextOf(f)) \in 0..2 BY ProfileParts, Separators
  <2>2. Exact(f) \in Creations BY <2>1, ProfileParts DEF Exact, Creations
  <2> QED BY <2>2, NothingElse
<1>4. u.op.origin = Exact(f)
  <2>1. CASE mine # None
    <3>1. now # None BY <1>1, <2>1, NothingElse
    <3>2. CASE t.op.does = "put" BY <1>1, <1>3, <2>1, <3>1, <3>2
    <3>3. CASE t.op.does = "remove" BY <1>1, <2>1, <3>3
    <3> QED BY <3>2, <3>3 DEF Writes
  <2>2. CASE mine = None
    <3>1. now = None /\ p = f /\ t.op.does = "put" /\ t.op.origin = None
      BY <1>2, <2>2 DEF Writes
    <3>2. u.op.origin = [file |-> FALSE \/ ~(f.file # None), dir |-> FALSE \/ ~f.dir,
                         sep |-> IF f.file # None THEN separator_for(f.file) ELSE 0]
      BY <3>1 DEF NoOrigin
    <3>3. (IF f.file # None THEN separator_for(f.file) ELSE 0) = separator_for(TextOf(f))
      BY DEF TextOf, separator_for
    <3>4. f.dir \in BOOLEAN BY ProfileParts
    <3> QED BY <3>2, <3>3, <3>4 DEF Exact
  <2> QED BY <2>1, <2>2
<1> HIDE DEF now
<1> QED BY <1>1, <1>2, <1>4 DEF BlockExact, now

LEMMA ExactMutated ==
  ASSUME NEW f, WellFormed(f), f.access = "free", BlocksOf(f) = {},
         NEW m \in Installations \cup {"product"}, NEW own \in SUBSET Contents,
         NEW p, WellFormed(p), NEW t, NEW mine,
         BlockExact(own, p, find(TextOf(p), m), t, mine, f, m), t # None, t.at = "applying",
         find(TextOf(p), m) # Damaged, Writes(t.op), t.op.value \in own, NEW o,
         t.op.does = "put" => o = AddBlock(p, m, t.op.value),
         t.op.does = "remove" => o = RemoveBlock(p, m, t.op.origin.sep, t.op.origin.file, t.op.origin.dir)
  PROVE  BlockExact(own, o.place, find(TextOf(o.place), m), t, mine, f, m)
<1>1. PutInto(p, f, m, own) /\ t.op.origin = Exact(f) BY DEF BlockExact
<1>2. PutInto(o.place, f, m, own)
  <2>1. CASE t.op.does = "put"
    <3>1. o.place \in {p, With(p, m, t.op.value)} BY <2>1, AddingMoves
    <3> QED BY <1>1, <3>1, PutIntoPut
  <2>2. CASE t.op.does = "remove"
    <3>1. o.place = f BY <1>1, <2>2, PutIntoTaken
    <3> QED BY <3>1 DEF PutInto
  <2> QED BY <2>1, <2>2 DEF Writes
<1> QED BY <1>2 DEF BlockExact

LEMMA ExactUndone ==
  ASSUME NEW f, WellFormed(f), f.access = "free", BlocksOf(f) = {},
         NEW m \in Installations \cup {"product"}, NEW own \in SUBSET Contents,
         NEW p, WellFormed(p), NEW t, NEW mine,
         BlockExact(own, p, find(TextOf(p), m), t, mine, f, m), t # None, t.at # "planned",
         find(TextOf(p), m) # Damaged, NEW q,
         q = IF t.code = "skipped" THEN p
             ELSE IF t.undo.previous # None THEN AddBlock(p, m, t.undo.previous).place
             ELSE IF t.op.does = "put"
                  THEN RemoveBlock(p, m, t.op.origin.sep, ~t.undo.existed, ~t.undo.dir).place
             ELSE p
  PROVE  BlockExact(own, q, find(TextOf(q), m), t, mine, f, m)
<1>1. /\ PutInto(p, f, m, own) /\ t.op.origin = Exact(f) /\ t.undo.previous \in own \cup {None}
      /\ t.undo.previous = None => t.undo.existed = (f.file # None) /\ t.undo.dir = f.dir
  BY DEF BlockExact
<1>2. PutInto(q, f, m, own)
  <2>1. CASE t.code # "skipped" /\ t.undo.previous # None
    <3>1. t.undo.previous \in own /\ q \in {p, With(p, m, t.undo.previous)}
      BY <1>1, <2>1, AddingMoves
    <3> QED BY <1>1, <3>1, PutIntoPut
  <2>2. CASE t.code # "skipped" /\ t.undo.previous = None /\ t.op.does = "put"
    <3>1. (~t.undo.existed) = Exact(f).file /\ (~t.undo.dir) = Exact(f).dir
      BY <1>1, <2>2 DEF Exact
    <3>2. q = RemoveBlock(p, m, Exact(f).sep, Exact(f).file, Exact(f).dir).place
      BY <1>1, <2>2, <3>1
    <3>3. q = f BY <1>1, <3>2, PutIntoTaken
    <3> QED BY <3>3 DEF PutInto
  <2>3. CASE t.code = "skipped" \/ (t.undo.previous = None /\ t.op.does # "put")
    BY <1>1, <2>3
  <2> QED BY <2>1, <2>2, <2>3
<1> QED BY <1>2 DEF BlockExact

(***************************************************************************)
(* The products around one place.                                           *)
(***************************************************************************)

LEMMA MarkersAre ==
  /\ kind = "profile" => \A i \in Installations : Marker(i) = i /\ Namesake(i) = {i}
  /\ kind = "shared" => \A i \in Installations : Marker(i) = "product" /\ Namesake(i) = Installations
  /\ \A i \in Installations : i \in Namesake(i)
BY DEF Marker, Namesake

LEMMA HeldIs ==
  ASSUME Common, NEW i \in Installations
  PROVE  /\ HeldBy(i) \subseteq Contents
         /\ \A j \in Namesake(i) : row[j] # None => row[j].value \in HeldBy(i)
         /\ \A x \in HeldBy(i) : \E j \in Namesake(i) : row[j] # None /\ x = row[j].value
         /\ \A k \in Installations : \A x \in HeldBy(i) :
              x \in Own(k) => k \in Namesake(i) /\ row[k] # None /\ x = row[k].value
<1>1. /\ \A x \in HeldBy(i) : \E j \in Namesake(i) : row[j] # None /\ x = row[j].value
      /\ \A j \in Namesake(i) : row[j] # None => row[j].value \in HeldBy(i)
  BY DEF HeldBy
<1>2. \A j \in Namesake(i) : j \in Installations /\ (row[j] # None => row[j].value \in Own(j))
  BY DEF Common, RowOK, Namesake
<1>3. HeldBy(i) \subseteq Contents BY <1>1, <1>2, OwnContents
<1>4. ASSUME NEW k \in Installations, NEW x \in HeldBy(i), x \in Own(k)
      PROVE  k \in Namesake(i) /\ row[k] # None /\ x = row[k].value
  <2>1. PICK j \in Namesake(i) : row[j] # None /\ x = row[j].value BY <1>1, <1>4
  <2>2. j = k BY <1>2, <1>4, <2>1, OwnContents
  <2> QED BY <2>1, <2>2
<1> QED BY <1>1, <1>3, <1>4

\* A step of an engine, seen from the other installations: its own block is
\* settled as its rows say, and only its own block moved.
LEMMA ElsewhereTraced ==
  ASSUME Common, IsProfile, NEW f, BlocksTraced(f), NEW i \in Installations, EngineStep(i),
         history'.found # None,
         (Settled(i) => Now(i) \in HeldBy(i) \cup {None})',
         \A n : n # Marker(i) => find(TextOf(place'), n) = find(TextOf(place), n),
         find(TextOf(place'), Marker(i)) \in {Now(i), None} \cup Own(i) \cup HeldBy(i),
         NEW k \in Installations \ {i}
  PROVE  BlockTraced(k, f)'
<1>1. /\ kind' = kind /\ history'.found = history.found
      /\ place' = place => history'.ran = history.ran
      /\ place' # place => history'.ran = history.ran \cup {i}
  BY FoundBefore
<1>2. /\ txn'[k] = txn[k] /\ mem'[k] = mem[k] /\ row'[k] = row[k]
      /\ \A j \in Installations \ {i} : txn'[j] = txn[j] /\ row'[j] = row[j]
  BY OthersStand
<1>3. /\ \A j \in Installations : Marker(j)' = Marker(j) /\ Namesake(j)' = Namesake(j)
      /\ kind \in {"profile", "shared"}
  BY <1>1 DEF Marker, Namesake, IsProfile
<1>4. BlockTraced(k, f) /\ BlockTraced(i, f) BY DEF BlocksTraced
<1>5. Marker(k) # Marker(i) => kind = "profile" /\ Namesake(k) = {k} BY <1>3, MarkersAre
<1>6. Marker(k) # Marker(i) => Now(k)' = Now(k) /\ HeldBy(k)' = HeldBy(k) /\ (Settled(k)' <=> Settled(k))
  <2>1. SUFFICES ASSUME Marker(k) # Marker(i)
                 PROVE  Now(k)' = Now(k) /\ HeldBy(k)' = HeldBy(k) /\ (Settled(k)' <=> Settled(k))
    OBVIOUS
  <2>2. Now(k)' = Now(k) BY <1>3, <2>1 DEF Now
  <2>3. HeldBy(k)' = HeldBy(k) BY <1>2, <1>3, <1>5, <2>1 DEF HeldBy
  <2>4. Settled(k)' <=> Settled(k) BY <1>2, <1>3, <1>5, <2>1 DEF Settled
  <2> QED BY <2>2, <2>3, <2>4
<1>7. Settled(k)' => Now(k)' \in HeldBy(k)' \cup {None}
  <2>1. CASE Marker(k) = Marker(i)
    <3>1. Namesake(k) = Namesake(i) BY <2>1 DEF Namesake
    <3>2. Now(k)' = Now(i)' /\ HeldBy(k)' = HeldBy(i)' /\ (Settled(k)' <=> Settled(i)')
      BY <1>3, <2>1, <3>1 DEF Now, HeldBy, Settled
    <3> QED BY <3>2
  <2>2. CASE Marker(k) # Marker(i) BY <1>4, <1>6, <2>2 DEF BlockTraced
  <2> QED BY <2>1, <2>2
<1>8. txn'[k] # None =>
        BlockTrace(Now(k)', txn'[k], mem'[k].code, mem'[k].pc, HeldBy(k)', row'[k], f.access = "free")
  <2>1. SUFFICES ASSUME txn[k] # None
                 PROVE  BlockTrace(Now(k)', txn[k], mem[k].code, mem[k].pc, HeldBy(k)', row[k], f.access = "free")
    BY <1>2
  <2>2. kind = "profile"
    <3>1. SUFFICES ASSUME kind # "profile" PROVE FALSE OBVIOUS
    <3>2. ProcessOK(k) BY DEF Common
    <3>3. txn[i] = None BY <2>1, <3>1, <3>2 DEF ProcessOK
    <3>4. Begin(i) BY <3>3, OpenOrNot
    <3> QED BY <2>1, <3>1, <3>4 DEF Begin, MayStart, Busy
  <2>3. Marker(k) # Marker(i) BY <2>2, MarkersAre
  <2> QED BY <1>4, <1>6, <2>1, <2>3 DEF BlockTraced
<1>9. k \notin history'.ran => row'[k] = None /\ Now(k)' \notin Own(k)
  <2>1. SUFFICES ASSUME k \notin history'.ran PROVE row[k] = None /\ Now(k)' \notin Own(k)
    BY <1>2
  <2>2. k \notin history.ran BY <1>1, <2>1
  <2>3. row[k] = None /\ Now(k) \notin Own(k) BY <1>4, <2>2 DEF BlockTraced
  <2>4. CASE Marker(k) = Marker(i)
    <3>1. Now(k)' = find(TextOf(place'), Marker(i)) /\ Now(k) = Now(i) BY <1>3, <2>4 DEF Now
    <3>2. Now(k)' \notin Own(k) \/ Now(k)' \in Own(i) \cup HeldBy(i)
      BY <2>3, <3>1, OwnContents
    <3>3. Now(k)' \in Own(i) => Now(k)' \notin Own(k) BY OwnContents
    <3>4. Now(k)' \in HeldBy(i) => Now(k)' \notin Own(k) BY <2>3, HeldIs
    <3> QED BY <2>3, <3>2, <3>3, <3>4
  <2>5. CASE Marker(k) # Marker(i) BY <1>6, <2>3, <2>5
  <2> QED BY <2>4, <2>5
<1>10. f.access = "free" /\ history'.ran \subseteq {k} =>
         BlockExact(Own(k), place', Now(k)', txn'[k], row'[k], f, Marker(k))
  <2>1. SUFFICES ASSUME f.access = "free", history'.ran \subseteq {k}
                 PROVE  BlockExact(Own(k), place', Now(k)', txn'[k], row'[k], f, Marker(k))
    OBVIOUS
  <2>2. place' = place BY <1>1, <2>1
  <2>3. history.ran \subseteq {k} BY <1>1, <2>1, <2>2
  <2>4. Now(k)' = Now(k) BY <1>3, <2>2 DEF Now
  <2>5. BlockExact(Own(k), place, Now(k), txn[k], row[k], f, Marker(k))
    BY <1>4, <2>1, <2>3 DEF BlockTraced
  <2> QED BY <1>2, <2>2, <2>4, <2>5
<1>11. Own(k)' = Own(k) BY DEF Own, Content
<1> HIDE DEF Own
<1> QED BY <1>3, <1>7, <1>8, <1>9, <1>10, <1>11 DEF BlockTraced

\* The profile as a whole, after a step on one block.
LEMMA WholeTraced ==
  ASSUME Common, IsProfile, NEW f, BlocksTraced(f), NEW i \in Installations, EngineStep(i),
         history'.found # None, NEW x, Moved(place, place', Marker(i), x),
         f.access # "free" => row'[i] = None
  PROVE  ProfileTraced(f)'
<1>1. /\ kind' = kind
      /\ place' = place => history'.ran = history.ran
      /\ place' # place => history'.ran = history.ran \cup {i}
  BY FoundBefore
<1>2. ProfileTraced(f) BY DEF BlocksTraced
<1>3. place'.access = f.access /\ TextsOf(place') = TextsOf(f)
  BY <1>2, ProfileStep DEF ProfileTraced, Moved
<1>4. IsFiniteSet(history'.ran) /\ (history'.ran = {} => place' = f)
  <2>1. IsFiniteSet(history.ran \cup {i}) BY <1>2, FS_AddElement DEF ProfileTraced
  <2> QED BY <1>1, <1>2, <2>1 DEF ProfileTraced
<1>5. \A b \in BlocksOf(place') : \E j \in Installations : b.marker = Marker(j)'
  <2>1. \A j \in Installations : Marker(j)' = Marker(j) BY <1>1 DEF Marker
  <2>2. \A b \in BlocksOf(place') : b.marker = Marker(i) \/ b \in BlocksOf(place)
    BY DEF Moved
  <2> QED BY <1>2, <2>1, <2>2 DEF ProfileTraced
<1>6. f.access # "free" => place' = f /\ \A j \in Installations : row'[j] = None
  <2>1. SUFFICES ASSUME f.access # "free" PROVE place' = f /\ \A j \in Installations : row'[j] = None
    OBVIOUS
  <2>2. place = f /\ \A j \in Installations : row[j] = None BY <1>2, <2>1 DEF ProfileTraced
  <2>3. place' = place BY <2>1, <2>2 DEF Moved
  <2>4. \A j \in Installations \ {i} : row'[j] = row[j] BY OthersStand
  <2> QED BY <2>1, <2>2, <2>3, <2>4
<1> QED BY <1>2, <1>3, <1>4, <1>5, <1>6 DEF ProfileTraced, TextsOf, BlocksOf

LEMMA ProfileFacts ==
  ASSUME Common, IsProfile, NEW f, BlocksTraced(f), NEW i \in Installations
  PROVE  /\ WellFormed(place) /\ WellFormed(f) /\ BlocksOf(f) = {}
         /\ Marker(i) \in Installations \cup {"product"}
         /\ place.access = f.access /\ Now(i) = find(TextOf(place), Marker(i))
         /\ HeldBy(i) \in SUBSET Contents /\ Own(i) \in SUBSET Contents
         /\ row[i] # None => row[i].value \in Own(i) /\ row[i].value \in HeldBy(i) /\ f.access = "free"
         /\ Now(i) \in Own(i) /\ Now(i) \in HeldBy(i) => row[i] # None /\ Now(i) = row[i].value
         /\ f.access # "free" => place = f /\ row[i] = None /\ Now(i) = None /\ HeldBy(i) = {}
<1>1. ProfileTraced(f) /\ WellFormed(place) /\ RowOK(i)
  BY DEF BlocksTraced, Common, TypeOK, PlaceOK
<1>2. Marker(i) \in Installations \cup {"product"} BY Markers
<1>3. HeldBy(i) \in SUBSET Contents /\ Own(i) \in SUBSET Contents BY HeldIs, NothingElse
<1>4. row[i] # None => row[i].value \in Own(i) /\ row[i].value \in HeldBy(i)
  BY <1>1, HeldIs, MarkersAre DEF RowOK
<1>5. Now(i) \in Own(i) /\ Now(i) \in HeldBy(i) => row[i] # None /\ Now(i) = row[i].value
  BY HeldIs
<1>6. f.access # "free" => place = f /\ row[i] = None /\ Now(i) = None /\ HeldBy(i) = {}
  <2>1. SUFFICES ASSUME f.access # "free" PROVE place = f /\ row[i] = None /\ Now(i) = None /\ HeldBy(i) = {}
    OBVIOUS
  <2>2. place = f /\ \A j \in Installations : row[j] = None BY <1>1, <2>1 DEF ProfileTraced
  <2>3. HeldBy(i) = {} BY <2>2 DEF HeldBy, Namesake
  <2>4. Now(i) = None BY <1>1, <2>2, ProfileParts, Finds DEF Now, ProfileTraced, BlocksOf
  <2> QED BY <2>2, <2>3, <2>4
<1> QED BY <1>1, <1>2, <1>3, <1>4, <1>5, <1>6 DEF ProfileTraced, Now

LEMMA BlockTracePlanned ==
  ASSUME Common, IsProfile, NEW f, BlocksTraced(f), NEW i \in Installations, Settled(i),
         NEW want \in Own(i) \cup {None}, NEW repair,
         NEW t, t.op = PlanOf(i, want, repair), t.at = "planned", NEW code, NEW pc
  PROVE  BlockTrace(Now(i), t, code, pc, HeldBy(i), row[i], f.access = "free")
<1> DEFINE now == Now(i)
           r   == row[i]
           op  == t.op
           seen == profile_state(place, Marker(i))
<1>1. op = PlanBlock(i, want) BY DEF PlanOf, IsProfile
<1>2. now \in HeldBy(i) \cup {None} BY DEF BlocksTraced, BlockTraced
<1>3. /\ r # None => f.access = "free"
      /\ now \in Own(i) => r # None
      /\ place.access = f.access
      /\ HeldBy(i) \subseteq Contents
  BY <1>2, OwnContents, ProfileFacts
<1>4. (want # None <=> want \in Own(i)) /\ want \notin {Unreadable, Damaged}
  BY OwnContents, NothingElse
<1>5. now \notin {Unreadable, Damaged} BY <1>2, <1>3, ResourcesAssumption, NothingElse
<1>6. /\ r # None => seen = now
      /\ seen \in {now, Unreadable}
  BY <1>3 DEF profile_state, Locked, Now
<1>7. SUFFICES
        /\ op.does \in {"put", "keep"} => op.origin = IF r = None THEN None ELSE r.origin
        /\ op.does = "none" => r = None \/ now # r.value
        /\ op.does = "keep" => r # None /\ now = op.value
        /\ op.does = "remove" => now = op.value
  BY <1>2 DEF BlockTrace
<1> HIDE DEF now, op
<1>8. CASE want = None /\ r # None /\ now = r.value
  <2>1. op = Operation("remove", r.value, r.origin) BY <1>1, <1>6, <1>8 DEF PlanBlock
  <2>2. op.does = "remove" /\ op.value = r.value BY <2>1, OperationIs
  <2> QED BY <1>8, <2>2
<1>9. CASE want = None /\ ~(r # None /\ now = r.value)
  <2>1. op = Operation("none", None, None)
    <3>1. ~(r # None /\ seen = r.value) BY <1>6, <1>9
    <3> HIDE DEF seen
    <3> QED BY <1>1, <1>9, <3>1 DEF PlanBlock, NoOperation, seen
  <2>2. op.does = "none" BY <2>1, OperationIs
  <2> QED BY <1>9, <2>2
<1>10. CASE want # None /\ r # None /\ now = want
  <2>1. op = Operation("keep", want, r.origin)
    <3>1. seen = want /\ want # None BY <1>6, <1>10
    <3> HIDE DEF seen
    <3> QED BY <1>1, <1>4, <1>10, <3>1 DEF PlanBlock, seen
  <2>2. op.does = "keep" /\ op.origin = r.origin /\ op.value = want BY <2>1, OperationIs
  <2> QED BY <1>10, <2>2
<1>11. CASE want # None /\ r # None /\ now # want
  <2>1. op = Operation("put", want, r.origin) BY <1>1, <1>5, <1>6, <1>11 DEF PlanBlock
  <2>2. op.does = "put" /\ op.origin = r.origin BY <2>1, OperationIs
  <2> QED BY <1>11, <2>2
<1>12. CASE want # None /\ r = None
  <2>1. seen # want BY <1>3, <1>4, <1>6, <1>12 DEF now
  <2> HIDE DEF seen
  <2>2. CASE seen \in {Unreadable, Damaged}
    <3>1. op = Operation("none", None, None)
      BY <1>1, <1>12, <2>1, <2>2 DEF PlanBlock, NoOperation, seen
    <3>2. op.does = "none" BY <3>1, OperationIs
    <3> QED BY <1>12, <3>2
  <2>3. CASE seen \notin {Unreadable, Damaged}
    <3>1. op = Operation("put", want, None) BY <1>1, <1>12, <2>1, <2>3 DEF PlanBlock, seen
    <3>2. op.does = "put" /\ op.origin = None BY <3>1, OperationIs
    <3> QED BY <1>12, <3>2
  <2> QED BY <2>2, <2>3
<1> QED BY <1>8, <1>9, <1>10, <1>11, <1>12

\* What is to be shown of a step: the part of the installation that takes it.
LEMMA StepTraced ==
  ASSUME Common, IsProfile, NEW f, BlocksTraced(f), NEW i \in Installations, EngineStep(i),
         history'.found # None, NEW x, Moved(place, place', Marker(i), x),
         x \in {Now(i), None} \cup Own(i) \cup HeldBy(i),
         f.access # "free" => row'[i] = None,
         Settled(i)' => x \in HeldBy(i)' \cup {None},
         txn'[i] # None =>
           BlockTrace(x, txn'[i], mem'[i].code, mem'[i].pc, HeldBy(i)', row'[i], f.access = "free"),
         i \notin history'.ran => row'[i] = None /\ x \notin Own(i),
         f.access = "free" /\ history'.ran \subseteq {i} =>
           BlockExact(Own(i), place', x, txn'[i], row'[i], f, Marker(i))
  PROVE  BlocksTraced(f)'
<1>1. kind' = kind BY FoundBefore
<1>2. Marker(i)' = Marker(i) BY <1>1 DEF Marker
<1>3. Now(i)' = x /\ find(TextOf(place'), Marker(i)) = x BY <1>2 DEF Now, Moved
<1>4. Own(i)' = Own(i) BY DEF Own, Content
<1>5. BlockTraced(i, f)'
  <2> HIDE DEF Own
  <2> QED BY <1>2, <1>3, <1>4 DEF BlockTraced
<1>6. ProfileTraced(f)' BY WholeTraced
<1>7. ASSUME NEW k \in Installations \ {i} PROVE BlockTraced(k, f)'
  <2>1. (Settled(i) => Now(i) \in HeldBy(i) \cup {None})' BY <1>3
  <2>2. \A n : n # Marker(i) => find(TextOf(place'), n) = find(TextOf(place), n)
    BY DEF Moved
  <2> QED BY <1>3, <1>7, <2>1, <2>2, ElsewhereTraced
<1> QED BY <1>5, <1>6, <1>7 DEF BlocksTraced

(***************************************************************************)
(* The steps on a block.                                                    *)
(***************************************************************************)

\* A step that leaves the place and the rows alone.
LEMMA StandTraced ==
  ASSUME Common, IsProfile, NEW f, BlocksTraced(f), NEW i \in Installations, EngineStep(i),
         history'.found # None, place' = place, row' = row,
         Settled(i)' => Now(i) \in HeldBy(i) \cup {None},
         txn'[i] # None =>
           BlockTrace(Now(i), txn'[i], mem'[i].code, mem'[i].pc, HeldBy(i), row[i], f.access = "free"),
         f.access = "free" /\ history.ran \subseteq {i} =>
           BlockExact(Own(i), place, Now(i), txn'[i], row[i], f, Marker(i))
  PROVE  BlocksTraced(f)'
<1>1. kind' = kind /\ history'.ran = history.ran BY FoundBefore
<1>2. HeldBy(i)' = HeldBy(i) BY <1>1 DEF HeldBy, Namesake, Marker
<1>3. Moved(place, place', Marker(i), Now(i)) BY ProfileFacts, MovedNot
<1>4. /\ f.access # "free" => row'[i] = None
      /\ i \notin history'.ran => row'[i] = None /\ Now(i) \notin Own(i)
  BY <1>1, ProfileFacts DEF BlocksTraced, BlockTraced
<1>5. f.access = "free" /\ history'.ran \subseteq {i} =>
        BlockExact(Own(i), place', Now(i), txn'[i], row'[i], f, Marker(i))
  BY <1>1
<1>6. txn'[i] # None =>
        BlockTrace(Now(i), txn'[i], mem'[i].code, mem'[i].pc, HeldBy(i)', row'[i], f.access = "free")
  BY <1>2
<1>7. Settled(i)' => Now(i) \in HeldBy(i)' \cup {None} BY <1>2
<1>8. Now(i) \in {Now(i), None} \cup Own(i) \cup HeldBy(i) OBVIOUS
<1> QED BY <1>3, <1>4, <1>5, <1>6, <1>7, <1>8, StepTraced

\* A step that moves the block of an open transaction.
LEMMA MoveTraced ==
  ASSUME Common, IsProfile, NEW f, BlocksTraced(f), NEW i \in Installations, EngineStep(i),
         history'.found # None, row' = row, txn' = txn, txn[i] # None, txn[i].at # "planned",
         NEW x, Moved(place, place', Marker(i), x),
         x \in {Now(i), None} \cup Own(i) \cup HeldBy(i),
         BlockTrace(x, txn[i], mem'[i].code, mem'[i].pc, HeldBy(i), row[i], f.access = "free"),
         f.access = "free" /\ history.ran \subseteq {i} =>
           BlockExact(Own(i), place', x, txn[i], row[i], f, Marker(i))
  PROVE  BlocksTraced(f)'
<1>1. /\ kind' = kind
      /\ place' = place => history'.ran = history.ran
      /\ place' # place => history'.ran = history.ran \cup {i}
  BY FoundBefore
<1>2. HeldBy(i)' = HeldBy(i) /\ Namesake(i)' = Namesake(i) /\ i \in Namesake(i)
  BY <1>1 DEF HeldBy, Namesake, Marker
<1>3. ~Settled(i)' BY <1>2 DEF Settled
<1>4. f.access # "free" => row'[i] = None BY ProfileFacts
<1>5. i \notin history'.ran => row'[i] = None /\ x \notin Own(i)
  <2>1. SUFFICES ASSUME i \notin history'.ran PROVE row[i] = None /\ x \notin Own(i) OBVIOUS
  <2>2. place' = place /\ i \notin history.ran BY <1>1, <2>1
  <2>3. row[i] = None /\ Now(i) \notin Own(i) BY <2>2 DEF BlocksTraced, BlockTraced
  <2>4. x = Now(i) BY <2>2 DEF Moved, Now
  <2> QED BY <2>3, <2>4
<1>6. f.access = "free" /\ history'.ran \subseteq {i} =>
        BlockExact(Own(i), place', x, txn'[i], row'[i], f, Marker(i))
  <2>1. history'.ran \subseteq {i} => history.ran \subseteq {i} BY <1>1
  <2> QED BY <2>1
<1>7. BlockTrace(x, txn'[i], mem'[i].code, mem'[i].pc, HeldBy(i)', row'[i], f.access = "free")
  BY <1>2
<1> QED BY <1>3, <1>4, <1>5, <1>6, <1>7, StepTraced

LEMMA TraceBegins ==
  ASSUME Common, IsProfile, NEW f, BlocksTraced(f), NEW i \in Installations, EngineStep(i),
         history'.found # None, Begin(i)
  PROVE  BlocksTraced(f)'
<1>1. PICK want \in Own(i) \cup {None}, repair \in BOOLEAN :
        txn'[i] = [op |-> PlanOf(i, want, repair), state |-> "running", at |-> "planned",
                   undo |-> NoUndo, code |-> None]
  BY BeginIs
<1>2. place' = place /\ row' = row BY BeginIs
<1>3. txn[i] = None /\ \A j \in Namesake(i) : txn[j] = None
  <2>1. txn[i] = None /\ (kind # "profile" => \A j \in Installations : txn[j] = None)
    BY DEF Begin, MayStart, Busy
  <2>2. kind = "profile" => Namesake(i) = {i} BY MarkersAre
  <2> QED BY <2>1, <2>2 DEF Namesake
<1>4. Settled(i) BY <1>3 DEF Settled
<1>5. txn'[i].op = PlanOf(i, want, repair) /\ txn'[i].at = "planned" BY <1>1
<1>6. BlockTrace(Now(i), txn'[i], mem'[i].code, mem'[i].pc, HeldBy(i), row[i], f.access = "free")
  BY <1>4, <1>5, BlockTracePlanned
<1>7. Now(i) \in HeldBy(i) \cup {None} BY <1>4 DEF BlocksTraced, BlockTraced
<1>8. f.access = "free" /\ history.ran \subseteq {i} =>
        BlockExact(Own(i), place, Now(i), txn'[i], row[i], f, Marker(i))
  <2>1. SUFFICES ASSUME f.access = "free", history.ran \subseteq {i}
                 PROVE  BlockExact(Own(i), place, Now(i), txn'[i], row[i], f, Marker(i))
    OBVIOUS
  <2>2. BlockExact(Own(i), place, Now(i), txn[i], row[i], f, Marker(i))
    BY <2>1 DEF BlocksTraced, BlockTraced
  <2> QED BY <1>3, <1>5, <2>2 DEF BlockExact
<1> QED BY <1>2, <1>6, <1>7, <1>8, StandTraced

LEMMA TracePrepares ==
  ASSUME Common, IsProfile, NEW f, BlocksTraced(f), NEW i \in Installations, EngineStep(i),
         history'.found # None, Prepare(i)
  PROVE  BlocksTraced(f)'
<1> DEFINE t == txn[i]
           u == txn'[i]
           now == Now(i)
           seen == profile_state(place, Marker(i))
<1>1. /\ place' = place /\ row' = row /\ mem' = mem /\ mem[i].pc = "walk" /\ mem[i].code = None
      /\ t.at = "planned" /\ Writes(t.op) /\ t.code = None
      /\ u.op.does = t.op.does /\ u.op.value = t.op.value /\ u.op.origin = OriginOf(t.op, UndoOf(i))
      /\ u.at = "applying" /\ u.undo = UndoOf(i) /\ u.code = None
  BY PrepareMoves
<1>2. t # None /\ u # None BY OpenOrNot, PrepareMoves, NothingElse
<1>3. /\ BlockTrace(now, t, None, "walk", HeldBy(i), row[i], f.access = "free")
      /\ f.access = "free" /\ history.ran \subseteq {i} =>
           BlockExact(Own(i), place, now, t, row[i], f, Marker(i))
  BY <1>1, <1>2 DEF BlocksTraced, BlockTraced
<1>4. /\ place.access = f.access /\ now = find(TextOf(place), Marker(i)) /\ HeldBy(i) \subseteq Contents
      /\ f.access # "free" => now = None
      /\ WellFormed(f) /\ BlocksOf(f) = {} /\ Own(i) \in SUBSET Contents
      /\ Marker(i) \in Installations \cup {"product"}
      /\ row[i] # None => row[i].value \in Own(i)
      /\ now \in Own(i) /\ now \in HeldBy(i) => row[i] # None
  BY ProfileFacts
<1>5. now \in HeldBy(i) \cup {None} /\ (t.op.does = "remove" => now = t.op.value)
  BY <1>1, <1>3 DEF BlockTrace
<1>6. now \notin {Unreadable, Damaged} BY <1>4, <1>5, ResourcesAssumption, NothingElse
<1>7. u.undo = [existed |-> place.file # None /\ seen # Unreadable, dir |-> place.dir,
                previous |-> IF seen \in {Unreadable, Damaged} THEN None ELSE seen]
  BY <1>1, UndoIs
<1>8. seen \in {now, Unreadable} /\ (f.access = "free" => seen = now)
  BY <1>4 DEF profile_state, Locked
<1>9. /\ u.undo.previous = now /\ u.undo.dir = place.dir
      /\ f.access = "free" => u.undo.existed = (place.file # None)
  <2> HIDE DEF seen, now
  <2> QED BY <1>4, <1>6, <1>7, <1>8
<1>10. BlockTrace(now, u, None, "walk", HeldBy(i), row[i], f.access = "free")
  <2> HIDE DEF t, u, now
  <2> QED BY <1>1, <1>5, <1>9, NothingElse DEF BlockTrace, Made, Writes
<1>11. f.access = "free" /\ history.ran \subseteq {i} =>
         BlockExact(Own(i), place, now, u, row[i], f, Marker(i))
  <2>1. SUFFICES ASSUME f.access = "free", history.ran \subseteq {i}
                 PROVE  BlockExact(Own(i), place, now, u, row[i], f, Marker(i))
    OBVIOUS
  <2>2. BlockExact(Own(i), place, now, t, row[i], f, Marker(i)) BY <1>3, <2>1
  <2>3. now # None => row[i] # None
    <3>1. now \in Own(i) \cup {None} BY <1>4, <2>1, <2>2, PutIntoFinds DEF BlockExact
    <3> QED BY <1>4, <1>5, <3>1
  <2>4. TransactionOK(i) BY DEF Common
  <2>5. t.op.does = "remove" => row[i] # None /\ t.op.origin = row[i].origin
    BY <1>2, <2>4 DEF TransactionOK
  <2>6. t.op.does = "put" => t.op.origin = IF row[i] = None THEN None ELSE row[i].origin
    BY <1>1, <1>3 DEF BlockTrace
  <2>7. t.op.does = "remove" => u.op.origin = t.op.origin BY <1>1 DEF OriginOf
  <2>8. t.op.does = "put" =>
          LET known == IF t.op.origin = None THEN NoOrigin ELSE t.op.origin
          IN  u.op.origin = IF u.undo.previous # None THEN known
                            ELSE [file |-> known.file \/ ~u.undo.existed, dir |-> known.dir \/ ~u.undo.dir,
                                  sep |-> IF u.undo.existed THEN separator_for(place.file) ELSE 0]
    BY <1>1 DEF OriginOf
  <2> HIDE DEF t, u
  <2>9. u.undo.existed = (place.file # None) BY <1>9, <2>1
  <2>10. u.undo.previous = find(TextOf(place), Marker(i)) /\ now = find(TextOf(place), Marker(i))
    BY <1>4, <1>9
  <2> HIDE DEF now
  <2> QED BY <1>1, <1>4, <1>9, <2>1, <2>2, <2>3, <2>5, <2>6, <2>7, <2>8, <2>9, <2>10, ExactPrepared
<1>12. ~Settled(i)'
  <2>1. i \in Namesake(i)' BY DEF Namesake
  <2> QED BY <1>1, <1>2, <2>1 DEF Settled
<1> QED BY <1>1, <1>10, <1>11, <1>12, StandTraced

\* A mutation that stands was done with the code its step is left with.
LEMMA RestingCodes ==
  ASSUME Common, NEW i \in Installations, Mark(i) \/ Fail(i) \/ Crash(i) \/ Recover(i),
         Made(txn'[i], mem'[i].pc), "skipped" \notin {mem'[i].code, txn'[i].code}
  PROVE  "skipped" \notin {mem[i].code, txn[i].code}
<1>1. TypeOK /\ ProcessOK(i) /\ TransactionOK(i) /\ None # "skipped"
  BY NothingElse DEF Common
<1>2. /\ txn[i] # None /\ txn'[i].op = txn[i].op
      /\ txn[i].state = "rolling_back" => txn'[i].state = "rolling_back"
  BY RestingIs DEF Rests
<1>3. /\ txn[i] \in Transactions /\ txn \in [Installations -> Transactions \cup {None}]
      /\ mem \in [Installations -> [pc : {"down", "walk", "mutated", "reverse", "undone"}, code : {None, "skipped"}]]
  BY <1>1, <1>2 DEF TypeOK, Memories
<1>4. CASE Mark(i)
  <2>1. /\ txn' = [txn EXCEPT ![i].at = "applied", ![i].code = mem[i].code]
        /\ txn[i].at = "applying"
    BY <1>1, <1>4 DEF Mark, ProcessOK
  <2>2. txn'[i].code = mem[i].code BY <1>3, <2>1 DEF Transactions
  <2>3. txn[i].code = None BY <1>1, <1>2, <2>1 DEF TransactionOK
  <2> QED BY <1>1, <2>2, <2>3
<1>5. CASE Fail(i)
  <2>1. txn' = [txn EXCEPT ![i].state = "rolling_back"] /\ mem' = [mem EXCEPT ![i] = [Down EXCEPT !.pc = "reverse"]]
    BY <1>5 DEF Fail
  <2>2. txn'[i].state = "rolling_back" /\ mem'[i].pc = "reverse"
    BY <1>3, <2>1 DEF Transactions, Down
  <2> QED BY <2>2 DEF Made
<1>6. CASE Crash(i)
  <2>1. txn' = txn /\ mem'[i].pc = "down" BY <1>3, <1>6 DEF Crash, Down
  <2>2. txn[i].at = "applied" /\ txn[i].code # "skipped" BY <2>1 DEF Made
  <2>3. mem[i].code = None BY <1>1, <2>2 DEF ProcessOK
  <2> QED BY <1>1, <2>2, <2>3
<1>7. CASE Recover(i)
  <2>1. mem[i].code = None BY <1>1, <1>7 DEF Recover, ProcessOK
  <2>2. txn' = txn \/ txn' = [txn EXCEPT ![i].state = "rolling_back"] BY <1>7 DEF Recover
  <2>3. txn'[i].code = txn[i].code BY <1>3, <2>2 DEF Transactions
  <2> QED BY <1>1, <2>1, <2>3
<1> QED BY <1>4, <1>5, <1>6, <1>7

LEMMA TraceRests ==
  ASSUME Common, IsProfile, NEW f, BlocksTraced(f), NEW i \in Installations, EngineStep(i),
         history'.found # None, Mark(i) \/ Fail(i) \/ Crash(i) \/ Recover(i)
  PROVE  BlocksTraced(f)'
<1> DEFINE t == txn[i]
           u == txn'[i]
           now == Now(i)
<1>1. /\ kind' = kind /\ place' = place /\ row' = row
      /\ t # None /\ u # None /\ u.op = t.op /\ u.undo = t.undo
      /\ \/ u.at = t.at
         \/ t.at = "applying" /\ u.at = "applied"
      /\ mem'[i].pc # "undone"
      /\ {mem'[i].code, u.code} \subseteq {mem[i].code, t.code, None}
      /\ \A j \in Installations \ {i} : txn'[j] = txn[j]
  BY RestingIs DEF Rests
<1>2. /\ Made(u, mem'[i].pc) => Made(t, mem[i].pc)
      /\ Made(u, mem'[i].pc) /\ "skipped" \notin {mem'[i].code, u.code} => "skipped" \notin {mem[i].code, t.code}
  BY RestingMade, RestingCodes
<1>3. /\ Settled(i) => now \in HeldBy(i) \cup {None}
      /\ BlockTrace(now, t, mem[i].code, mem[i].pc, HeldBy(i), row[i], f.access = "free")
      /\ f.access = "free" /\ history.ran \subseteq {i} =>
           BlockExact(Own(i), place, now, t, row[i], f, Marker(i))
  BY <1>1 DEF BlocksTraced, BlockTraced
<1>4. Settled(i)' => Settled(i)
  <2>1. Namesake(i)' = Namesake(i) BY <1>1 DEF Namesake, Marker
  <2>2. SUFFICES ASSUME NEW j \in Namesake(i), txn[j] # None, txn'[j] # None => txn'[j].at = "planned"
                 PROVE  txn[j].at = "planned"
    BY <2>1 DEF Settled
  <2>3. j \in Installations BY DEF Namesake
  <2> QED BY <1>1, <2>2, <2>3
<1>5. BlockTrace(now, u, mem'[i].code, mem'[i].pc, HeldBy(i), row[i], f.access = "free")
  <2>1. Target(u) = Target(t) BY <1>1 DEF Target
  <2>2. "skipped" \in {mem'[i].code, u.code} => "skipped" \in {mem[i].code, t.code}
    BY <1>1, NothingElse
  <2> HIDE DEF t, u, now, Target, Made
  <2> QED BY <1>1, <1>2, <1>3, <2>1, <2>2 DEF BlockTrace
<1>6. f.access = "free" /\ history.ran \subseteq {i} =>
        BlockExact(Own(i), place, now, u, row[i], f, Marker(i))
  <2> HIDE DEF t, u, now
  <2> QED BY <1>1, <1>3 DEF BlockExact
<1> QED BY <1>1, <1>3, <1>4, <1>5, <1>6, StandTraced

\* What is known of a block before its step is mutated or undone.
LEMMA TraceKnown ==
  ASSUME Common, IsProfile, NEW f, BlocksTraced(f), NEW i \in Installations,
         txn[i] # None, txn[i].at # "planned", mem[i].code = None
  PROVE  /\ BlockTrace(Now(i), txn[i], None, mem[i].pc, HeldBy(i), row[i], f.access = "free")
         /\ f.access = "free" /\ history.ran \subseteq {i} =>
              BlockExact(Own(i), place, Now(i), txn[i], row[i], f, Marker(i))
         /\ Writes(txn[i].op) /\ txn[i].op.value \in Own(i) /\ txn[i].op.value \in Contents
         /\ txn[i].op.origin \in Creations /\ txn[i].op.origin # None
         /\ Now(i) # Damaged /\ Target(txn[i]) \in {None} \cup Own(i)
         /\ txn[i].undo.previous \in {None} \cup HeldBy(i)
<1>1. /\ BlockTrace(Now(i), txn[i], None, mem[i].pc, HeldBy(i), row[i], f.access = "free")
      /\ f.access = "free" /\ history.ran \subseteq {i} =>
           BlockExact(Own(i), place, Now(i), txn[i], row[i], f, Marker(i))
  BY DEF BlocksTraced, BlockTraced
<1>2. TransactionOK(i) BY DEF Common
<1>3. /\ Writes(txn[i].op) /\ txn[i].op.value \in Own(i) /\ txn[i].op.origin # None
      /\ OriginOK(kind, txn[i].op.origin)
  BY <1>2 DEF TransactionOK, Writes
<1>4. txn[i].op.origin \in Creations BY <1>3 DEF OriginOK, IsProfile
<1>5. Target(txn[i]) \in {None} \cup Own(i) /\ txn[i].op.value \in Contents
  BY <1>3, NothingElse DEF Target
<1>6. txn[i].undo.previous \in {None} \cup HeldBy(i) /\ Now(i) \in {txn[i].undo.previous, Target(txn[i])}
  BY <1>1 DEF BlockTrace
<1>7. Now(i) \in Contents \cup {None} BY <1>5, <1>6, ProfileFacts
<1> QED BY <1>1, <1>3, <1>4, <1>5, <1>6, <1>7, ResourcesAssumption, NothingElse

LEMMA TraceMutates ==
  ASSUME Common, IsProfile, NEW f, BlocksTraced(f), NEW i \in Installations, EngineStep(i),
         history'.found # None, Mutate(i)
  PROVE  BlocksTraced(f)'
<1> DEFINE t == txn[i]
           o == Mutated(i)
           m == Marker(i)
           free == f.access = "free"
<1>1. /\ row' = row /\ txn' = txn /\ mem[i].pc = "walk" /\ t # None /\ t.at = "applying"
      /\ t.state = "running" /\ t.code = None /\ Writes(t.op) /\ place' = o.place
      /\ mem'[i].pc = "mutated" /\ mem'[i].code = o.code
  BY MutateIs
<1>2. mem[i].code = None BY <1>1 DEF Common, ProcessOK
<1>3. /\ BlockTrace(Now(i), t, None, mem[i].pc, HeldBy(i), row[i], free)
      /\ free /\ history.ran \subseteq {i} => BlockExact(Own(i), place, Now(i), t, row[i], f, m)
      /\ t.op.value \in Own(i) /\ t.op.value \in Contents /\ t.op.origin \in Creations /\ t.op.origin # None
      /\ Now(i) # Damaged /\ Target(t) \in {None} \cup Own(i)
  BY <1>1, <1>2, TraceKnown
<1>4. /\ WellFormed(place) /\ WellFormed(f) /\ BlocksOf(f) = {} /\ m \in Installations \cup {"product"}
      /\ (place.access = "free") = free /\ Now(i) = find(TextOf(place), m)
      /\ HeldBy(i) \in SUBSET Contents /\ Own(i) \in SUBSET Contents
  BY ProfileFacts
<1>5. /\ t.op.does = "put" => o = AddBlock(place, m, t.op.value)
      /\ t.op.does = "remove" => o = RemoveBlock(place, m, t.op.origin.sep, t.op.origin.file, t.op.origin.dir)
  BY <1>3 DEF Mutated, IsProfile
<1> HIDE DEF t, o, m
<1>6. /\ BlockTrace(find(TextOf(o.place), m), t, o.code, "mutated", HeldBy(i), row[i], free)
      /\ \E x \in {find(TextOf(place), m), Target(t)} : Moved(place, o.place, m, x)
  <2> HIDE DEF free
  <2>1. BlockTrace(find(TextOf(place), m), t, None, mem[i].pc, HeldBy(i), row[i], place.access = "free")
    BY <1>3, <1>4
  <2>2. /\ BlockTrace(find(TextOf(o.place), m), t, o.code, "mutated", HeldBy(i), row[i], place.access = "free")
        /\ \E x \in {find(TextOf(place), m), Target(t)} : Moved(place, o.place, m, x)
    BY <1>1, <1>3, <1>4, <1>5, <2>1, BlockMutated
  <2> QED BY <1>4, <2>2
<1>7. PICK x \in {find(TextOf(place), m), Target(t)} : Moved(place, o.place, m, x) BY <1>6
<1>8. find(TextOf(o.place), m) = x /\ x \in {Now(i), None} \cup Own(i) \cup HeldBy(i)
  BY <1>3, <1>4, <1>7 DEF Moved
<1>9. free /\ history.ran \subseteq {i} => BlockExact(Own(i), o.place, x, t, row[i], f, m)
  <2>1. SUFFICES ASSUME free, history.ran \subseteq {i} PROVE BlockExact(Own(i), o.place, x, t, row[i], f, m)
    OBVIOUS
  <2>2. BlockExact(Own(i), place, find(TextOf(place), m), t, row[i], f, m) /\ find(TextOf(place), m) # Damaged
    BY <1>3, <1>4, <2>1
  <2>3. BlockExact(Own(i), o.place, find(TextOf(o.place), m), t, row[i], f, m)
    BY <1>1, <1>3, <1>4, <1>5, <2>1, <2>2, ExactMutated
  <2> QED BY <1>8, <2>3
<1> QED
  <2>1. txn[i] # None /\ txn[i].at # "planned" /\ Moved(place, place', Marker(i), x)
    BY <1>1, <1>7 DEF t, m
  <2>2. BlockTrace(x, txn[i], mem'[i].code, mem'[i].pc, HeldBy(i), row[i], f.access = "free")
    BY <1>1, <1>6, <1>8 DEF t
  <2>3. f.access = "free" /\ history.ran \subseteq {i} =>
          BlockExact(Own(i), place', x, txn[i], row[i], f, Marker(i))
    BY <1>1, <1>9 DEF t, m
  <2> HIDE DEF free
  <2> QED BY <1>1, <1>8, <2>1, <2>2, <2>3, MoveTraced

LEMMA TraceUndoes ==
  ASSUME Common, IsProfile, NEW f, BlocksTraced(f), NEW i \in Installations, EngineStep(i),
         history'.found # None, Undo(i)
  PROVE  BlocksTraced(f)'
<1> DEFINE t == txn[i]
           q == Undone(i)
           m == Marker(i)
           free == f.access = "free"
           noFile == ~t.undo.existed
           noDir == ~t.undo.dir
<1>1. /\ row' = row /\ txn' = txn /\ t # None /\ t.at # "planned"
      /\ t.state = "rolling_back" /\ mem[i].code = None /\ Writes(t.op) /\ place' = q
      /\ mem'[i].pc = "undone" /\ mem'[i].code = None
  BY UndoStepIs
<1>2. /\ BlockTrace(Now(i), t, None, mem[i].pc, HeldBy(i), row[i], free)
      /\ free /\ history.ran \subseteq {i} => BlockExact(Own(i), place, Now(i), t, row[i], f, m)
      /\ t.op.value \in Contents /\ t.op.origin \in Creations
      /\ Now(i) # Damaged /\ t.undo.previous \in {None} \cup HeldBy(i)
  BY <1>1, TraceKnown
<1>3. /\ WellFormed(place) /\ WellFormed(f) /\ BlocksOf(f) = {} /\ m \in Installations \cup {"product"}
      /\ (place.access = "free") = free /\ Now(i) = find(TextOf(place), m)
      /\ HeldBy(i) \in SUBSET Contents /\ Own(i) \in SUBSET Contents
      /\ ~free => HeldBy(i) = {} /\ Now(i) = None
  BY ProfileFacts
<1>4. q = IF t.code = "skipped" THEN place
          ELSE IF t.undo.previous # None THEN AddBlock(place, m, t.undo.previous).place
          ELSE IF t.op.does = "put"
               THEN RemoveBlock(place, m, t.op.origin.sep, noFile, noDir).place
          ELSE place
  BY DEF Undone, UndoneBlock, IsProfile
<1>5. noFile \in BOOLEAN /\ noDir \in BOOLEAN OBVIOUS
<1>6. (noFile = ~t.undo.existed) /\ (noDir = ~t.undo.dir) OBVIOUS
<1> HIDE DEF t, q, m, noFile, noDir
<1>7. /\ BlockTrace(find(TextOf(q), m), t, None, "undone", HeldBy(i), row[i], free)
      /\ Moved(place, q, m, t.undo.previous)
  <2> HIDE DEF free
  <2>1. /\ BlockTrace(find(TextOf(place), m), t, None, mem[i].pc, HeldBy(i), row[i], place.access = "free")
        /\ place.access # "free" => HeldBy(i) = {} /\ find(TextOf(place), m) = None
    BY <1>2, <1>3
  <2>2. /\ BlockTrace(find(TextOf(q), m), t, None, "undone", HeldBy(i), row[i], place.access = "free")
        /\ Moved(place, q, m, t.undo.previous)
    BY <1>1, <1>2, <1>3, <1>4, <1>5, <2>1, BlockUndone
  <2> QED BY <1>3, <2>2
<1>8. /\ find(TextOf(q), m) = t.undo.previous
      /\ t.undo.previous \in {Now(i), None} \cup Own(i) \cup HeldBy(i)
  BY <1>2, <1>7 DEF Moved
<1>9. free /\ history.ran \subseteq {i} => BlockExact(Own(i), q, t.undo.previous, t, row[i], f, m)
  <2>1. SUFFICES ASSUME free, history.ran \subseteq {i}
                 PROVE  BlockExact(Own(i), q, t.undo.previous, t, row[i], f, m)
    OBVIOUS
  <2>2. BlockExact(Own(i), place, find(TextOf(place), m), t, row[i], f, m) /\ find(TextOf(place), m) # Damaged
    BY <1>2, <1>3, <2>1
  <2>3. q = IF t.code = "skipped" THEN place
            ELSE IF t.undo.previous # None THEN AddBlock(place, m, t.undo.previous).place
            ELSE IF t.op.does = "put"
                 THEN RemoveBlock(place, m, t.op.origin.sep, ~t.undo.existed, ~t.undo.dir).place
            ELSE place
    BY <1>4 DEF noFile, noDir
  <2>4. BlockExact(Own(i), q, find(TextOf(q), m), t, row[i], f, m)
    BY <1>1, <1>3, <2>1, <2>2, <2>3, ExactUndone
  <2> QED BY <1>8, <2>4
<1> QED
  <2>1. txn[i] # None /\ txn[i].at # "planned" /\ Moved(place, place', Marker(i), t.undo.previous)
    BY <1>1, <1>7 DEF t, m
  <2>2. BlockTrace(t.undo.previous, txn[i], mem'[i].code, mem'[i].pc, HeldBy(i), row[i], f.access = "free")
    BY <1>1, <1>7, <1>8 DEF t
  <2>3. f.access = "free" /\ history.ran \subseteq {i} =>
          BlockExact(Own(i), place', t.undo.previous, txn[i], row[i], f, Marker(i))
    BY <1>1, <1>9 DEF t, m
  <2> HIDE DEF free
  <2> QED BY <1>1, <1>8, <2>1, <2>2, <2>3, MoveTraced

\* The row a commit writes for a block says what is in the profile.
LEMMA RowPut ==
  ASSUME Common, IsProfile, NEW f, BlocksTraced(f), NEW i \in Installations, Commit(i)
  PROVE  /\ row'[i] # None =>
              /\ f.access = "free" /\ Now(i) = row'[i].value /\ Now(i) \in Own(i)
              /\ row'[i].origin = txn[i].op.origin
              /\ txn[i].at = "planned" => row[i] # None /\ row'[i].origin = row[i].origin
         /\ row'[i] = None => Now(i) = None \/ (Now(i) \in HeldBy(i) /\ (row[i] = None \/ Now(i) # row[i].value))
<1> DEFINE t == txn[i]
           now == Now(i)
           r == RowOf(t)
<1>1. /\ t # None /\ t \in Transactions /\ mem[i].pc = "walk" /\ mem[i].code = None
      /\ t.state = "running" /\ row'[i] = r
      /\ t.at = "applied" \/ (t.at = "planned" /\ ~Writes(t.op))
  BY CommitIs
<1>2. /\ TransactionOK(i) /\ None # "skipped" /\ kind # "environment"
      /\ BlockTrace(now, t, None, "walk", HeldBy(i), row[i], f.access = "free")
  BY <1>1, NothingElse DEF Common, BlocksTraced, BlockTraced, IsProfile
<1>3. /\ t.op.does \in {"none", "keep", "put", "remove"}
      /\ t.op.does # "none" => t.op.value \in Own(i) /\ t.op.value # None
      /\ t.at = "applied" => Writes(t.op)
  BY <1>1, <1>2, NothingElse DEF TransactionOK, Transactions, Operations
<1>4. /\ f.access # "free" => now = None /\ row[i] = None BY ProfileFacts
<1>5. r # None => /\ t.op.does \in {"put", "keep"} /\ t.code # "skipped"
                  /\ r.value = t.op.value /\ r.origin = t.op.origin
  BY <1>1, <1>2, RowIs
<1>6. t.op.does \in {"put", "keep"} /\ t.code # "skipped" => r # None
  <2>1. SUFFICES ASSUME t.op.does \in {"put", "keep"}, t.code # "skipped" PROVE r # None
    OBVIOUS
  <2>2. r = [value |-> t.op.value, origin |-> t.op.origin] BY <1>2, <2>1 DEF RowOf
  <2>3. t.op.value \in Contents /\ t.op.origin \in Origins
    BY <1>1, <1>3, <2>1, NothingElse DEF Transactions, Operations
  <2>4. r \in Rows BY <2>2, <2>3 DEF Rows
  <2> QED BY <2>4, NothingElse
<1> HIDE DEF r, now, t
\* What was written stands, unless the profile refused it.
<1>7. CASE t.at = "applied"
  <2>1. /\ t.op.does \in {"put", "remove"}
        /\ t.code = "skipped" => f.access # "free"
        /\ t.code # "skipped" => now = Target(t)
    BY <1>1, <1>2, <1>3, <1>7 DEF BlockTrace, Made, Writes
  <2>2. CASE t.code = "skipped" BY <1>1, <1>4, <1>5, <2>1, <2>2 DEF now
  <2>3. CASE t.code # "skipped" /\ t.op.does = "put"
    <3>1. now = t.op.value /\ r # None /\ now # None /\ now \in Own(i)
      BY <1>3, <1>6, <2>1, <2>3 DEF Target
    <3>2. f.access = "free" BY <1>4, <3>1
    <3> QED BY <1>1, <1>5, <1>7, <3>1, <3>2 DEF now, t
  <2>4. CASE t.code # "skipped" /\ t.op.does = "remove"
    <3>1. now = None /\ r = None BY <1>5, <2>1, <2>4 DEF Target
    <3> QED BY <1>1, <3>1 DEF now
  <2> QED BY <2>1, <2>2, <2>3, <2>4
\* What was kept is there, and what was left alone is another's.
<1>8. CASE t.at = "planned" /\ ~Writes(t.op)
  <2>1. /\ t.op.does \in {"none", "keep"} /\ now \in HeldBy(i) \cup {None}
        /\ t.op.does = "none" => row[i] = None \/ now # row[i].value
        /\ t.op.does = "keep" => /\ row[i] # None /\ now = t.op.value
                                 /\ t.op.origin = row[i].origin
    BY <1>2, <1>3, <1>8 DEF BlockTrace, Writes
  <2>2. CASE t.op.does = "none"
    <3>1. r = None BY <1>5, <2>2
    <3> QED BY <1>1, <2>1, <2>2, <3>1 DEF now
  <2>3. CASE t.op.does = "keep"
    <3>1. t.code # "skipped" BY <1>1, <1>2, <1>8 DEF TransactionOK, t
    <3>2. r # None /\ now \in Own(i) BY <1>3, <1>6, <2>1, <2>3, <3>1
    <3>3. f.access = "free" BY <1>4, <2>1, <2>3
    <3> QED BY <1>1, <1>5, <2>1, <2>3, <3>2, <3>3 DEF now, t
  <2> QED BY <2>1, <2>2, <2>3
<1> QED BY <1>1, <1>7, <1>8

LEMMA TraceCommits ==
  ASSUME Common, IsProfile, NEW f, BlocksTraced(f), NEW i \in Installations, EngineStep(i),
         history'.found # None, Commit(i)
  PROVE  BlocksTraced(f)'
<1> DEFINE now == Now(i)
           r == row'[i]
<1>1. /\ kind' = kind /\ place' = place /\ txn'[i] = None /\ history'.ran = history.ran
      /\ txn[i] # None
      /\ txn[i].at = "applied" \/ txn[i].at = "planned"
      /\ \A j \in Installations \ {i} : row'[j] = row[j]
  BY CommitIs
<1>2. /\ r # None => /\ f.access = "free" /\ now = r.value /\ now \in Own(i)
                     /\ r.origin = txn[i].op.origin
                     /\ txn[i].at = "planned" => row[i] # None /\ r.origin = row[i].origin
      /\ r = None => now = None \/ (now \in HeldBy(i) /\ (row[i] = None \/ now # row[i].value))
  BY RowPut
<1>3. Namesake(i)' = Namesake(i) /\ i \in Namesake(i) /\ Namesake(i) \subseteq Installations
  BY <1>1 DEF Namesake, Marker
<1>4. now \in HeldBy(i)' \cup {None}
  <2>1. \A j \in Namesake(i) : row'[j] # None => row'[j].value \in HeldBy(i)'
    BY <1>3 DEF HeldBy
  <2>2. CASE r # None BY <1>2, <1>3, <2>1, <2>2
  <2>3. CASE r = None /\ now # None
    <3>1. PICK j \in Namesake(i) : row[j] # None /\ now = row[j].value BY <1>2, <2>3, HeldIs
    <3>2. j # i BY <1>2, <2>3, <3>1
    <3>3. row'[j] = row[j] BY <1>1, <1>3, <3>1, <3>2
    <3> QED BY <2>1, <3>1, <3>3
  <2> QED BY <2>2, <2>3
<1>5. f.access # "free" => r = None BY <1>2
<1>6. i \notin history'.ran => r = None /\ now \notin Own(i)
  <2>1. i \notin history'.ran => now \notin Own(i) BY <1>1 DEF BlocksTraced, BlockTraced
  <2> QED BY <1>2, <2>1
<1>7. f.access = "free" /\ history'.ran \subseteq {i} =>
        BlockExact(Own(i), place', now, txn'[i], r, f, Marker(i))
  <2>1. SUFFICES ASSUME f.access = "free", history.ran \subseteq {i}
                 PROVE  BlockExact(Own(i), place, now, txn'[i], r, f, Marker(i))
    BY <1>1
  <2>2. BlockExact(Own(i), place, now, txn[i], row[i], f, Marker(i))
    BY <2>1 DEF BlocksTraced, BlockTraced
  <2> HIDE DEF r, now
  <2>3. r # None => r.origin = Exact(f) BY <1>1, <1>2, <2>2 DEF BlockExact
  <2> QED BY <1>1, <1>2, <2>2, <2>3 DEF BlockExact
<1>8. Moved(place, place', Marker(i), now) BY <1>1, ProfileFacts, MovedNot
<1> QED BY <1>1, <1>4, <1>5, <1>6, <1>7, <1>8, StepTraced

LEMMA TraceRollsBack ==
  ASSUME Common, IsProfile, NEW f, BlocksTraced(f), NEW i \in Installations, EngineStep(i),
         history'.found # None, FinishRollback(i)
  PROVE  BlocksTraced(f)'
<1> DEFINE t == txn[i]
<1>1. /\ place' = place /\ row' = row /\ txn'[i] = None /\ t # None
      /\ \/ mem[i].pc = "undone" /\ t.at # "planned"
         \/ t.at = "planned"
  BY RollbackIs
<1>2. BlockTrace(Now(i), t, mem[i].code, mem[i].pc, HeldBy(i), row[i], f.access = "free")
  BY <1>1 DEF BlocksTraced, BlockTraced
<1>3. /\ Now(i) \in HeldBy(i) \cup {None}
      /\ t.at # "planned" => Now(i) = t.undo.previous
  BY <1>1, <1>2 DEF BlockTrace
<1>4. f.access = "free" /\ history.ran \subseteq {i} =>
        BlockExact(Own(i), place, Now(i), txn'[i], row[i], f, Marker(i))
  <2>1. SUFFICES ASSUME f.access = "free", history.ran \subseteq {i}
                 PROVE  BlockExact(Own(i), place, Now(i), txn'[i], row[i], f, Marker(i))
    OBVIOUS
  <2>2. BlockExact(Own(i), place, Now(i), t, row[i], f, Marker(i))
    BY <2>1 DEF BlocksTraced, BlockTraced
  <2> HIDE DEF t
  <2> QED BY <1>1, <1>3, <2>2 DEF BlockExact
<1> QED BY <1>1, <1>3, <1>4, StandTraced

(***************************************************************************)
(* The place as it was found.                                               *)
(***************************************************************************)

\* Places as found, of each kind.
LEMMA FirstsAre ==
  ASSUME kind \in Kinds, NEW f \in Firsts[kind]
  PROVE  /\ kind \in {"shortcut", "environment"} => f \in {None, Stranger}
         /\ kind = "firewall" => f \in Seq({Stranger})
         /\ IsProfile => WellFormed(f) /\ BlocksOf(f) = {} /\ f \in FoundProfiles
<1>1. /\ kind \in {"shortcut", "environment"} => f \in {None, Stranger}
      /\ kind = "firewall" => f \in Seq({Stranger})
      /\ IsProfile => f \in FoundProfiles
  BY ResourcesAssumption DEF IsProfile
<1>2. ASSUME f \in FoundProfiles PROVE WellFormed(f) /\ BlocksOf(f) = {}
  <2>1. /\ f \in Profiles /\ (f.file = None => f.access = "free")
        /\ f.file # None => f.dir /\ f.file \in Seq(Texts \cup {NewLine})
    BY <1>2 DEF FoundProfiles
  <2>2. TextOf(f) \in Seq(Texts \cup {NewLine}) BY <2>1 DEF TextOf
  <2>3. \A k \in DOMAIN TextOf(f) : ~IsBlock(TextOf(f)[k]) BY <2>2 DEF IsBlock
  <2>4. WellFormed(f) BY <2>1, <2>3 DEF WellFormed, Single
  <2>5. BlocksOf(f) = {} BY <2>3 DEF BlocksOf, BlocksIn, ToSet
  <2> QED BY <2>4, <2>5
<1> QED BY <1>1, <1>2

LEMMA TracedInit ==
  ASSUME Init
  PROVE  Traced
<1>1. /\ kind \in Kinds /\ place \in Firsts[kind] /\ history.found = <<place>> /\ history.ran = {}
      /\ \A i \in Installations : row[i] = None /\ txn[i] = None /\ mem[i].code = None
  BY DEF Init, Down
<1>2. LinksTraced(place) /\ VariablesTraced(place) /\ RulesTraced(place)
  BY <1>1 DEF LinksTraced, VariablesTraced, RulesTraced, LinkTraced, VariableTraced, RuleTraced
<1>3. ASSUME IsProfile PROVE BlocksTraced(place)
  <2>1. WellFormed(place) /\ BlocksOf(place) = {} BY <1>1, <1>3, FirstsAre
  <2>2. ProfileTraced(place) BY <1>1, <2>1, FS_EmptySet DEF ProfileTraced
  <2>3. ASSUME NEW i \in Installations PROVE BlockTraced(i, place)
    <3>1. Now(i) = None BY <2>1, ProfileParts, Finds DEF Now, BlocksOf
    <3>2. None \notin Own(i) BY NothingElse
    <3>3. BlockExact(Own(i), place, Now(i), txn[i], row[i], place, Marker(i))
      BY <1>1 DEF BlockExact, PutInto
    <3> QED BY <1>1, <3>1, <3>2, <3>3 DEF BlockTraced
  <2> QED BY <2>2, <2>3 DEF BlocksTraced
<1>4. Plain BY <1>1 DEF Plain
<1> QED BY <1>1, <1>2, <1>3, <1>4 DEF Traced

LEMMA BlocksStep ==
  ASSUME Common, IsProfile, NEW f, BlocksTraced(f), NEW i \in Installations, EngineStep(i),
         history'.found # None
  PROVE  BlocksTraced(f)'
<1>1. CASE Begin(i) BY <1>1, TraceBegins
<1>2. CASE Prepare(i) BY <1>2, TracePrepares
<1>3. CASE KeepPrevious(i) BY <1>3, KeepPreviousIs DEF IsProfile
<1>4. CASE Mutate(i) BY <1>4, TraceMutates
<1>5. CASE Mark(i) \/ Fail(i) \/ Crash(i) \/ Recover(i) BY <1>5, TraceRests
<1>6. CASE Commit(i) BY <1>6, TraceCommits
<1>7. CASE Undo(i) BY <1>7, TraceUndoes
<1>8. CASE FinishRollback(i) BY <1>8, TraceRollsBack
<1> QED BY <1>1, <1>2, <1>3, <1>4, <1>5, <1>6, <1>7, <1>8 DEF EngineStep

LEMMA TracedStep ==
  ASSUME Common, Undoing, Traced, [Next]_vars
  PROVE  Traced'
<1>1. ASSUME NEW i \in Installations, EngineStep(i) PROVE Traced'
  <2>1. Plain /\ Plain' BY <1>1, PlainStep DEF Traced
  <2>2. SUFFICES ASSUME history'.found # None
                 PROVE  \E f \in Firsts[kind'] :
                          /\ history'.found = <<f>> /\ kind' \in Kinds
                          /\ kind' = "shortcut" => LinksTraced(f)'
                          /\ kind' = "environment" => VariablesTraced(f)'
                          /\ kind' = "firewall" => RulesTraced(f)'
                          /\ IsProfile' => BlocksTraced(f)'
    BY <2>1 DEF Traced
  <2>3. kind' = kind /\ history'.found = history.found /\ history.found # None
    BY <1>1, <2>2, FoundBefore
  <2>4. PICK f \in Firsts[kind] :
          /\ history.found = <<f>> /\ kind \in Kinds
          /\ kind = "shortcut" => LinksTraced(f)
          /\ kind = "environment" => VariablesTraced(f)
          /\ kind = "firewall" => RulesTraced(f)
          /\ IsProfile => BlocksTraced(f)
    BY <2>3 DEF Traced
  <2>5. /\ kind \in {"shortcut", "environment"} => f \in {None, Stranger}
        /\ kind = "firewall" => f \in Seq({Stranger})
    BY <2>4, FirstsAre
  <2>6. kind = "shortcut" => LinksTraced(f)' BY <1>1, <2>1, <2>2, <2>4, <2>5, LinksStep
  <2>7. kind = "environment" => VariablesTraced(f)'
    BY <1>1, <2>1, <2>3, <2>4, <2>5, VariablesStep
  <2>8. kind = "firewall" => RulesTraced(f)' BY <1>1, <2>1, <2>3, <2>4, <2>5, RulesStep
  <2>9. IsProfile => BlocksTraced(f)' BY <1>1, <2>2, <2>4, BlocksStep
  <2>10. IsProfile' <=> IsProfile BY <2>3 DEF IsProfile
  <2> QED BY <2>3, <2>4, <2>6, <2>7, <2>8, <2>9, <2>10
<1>2. CASE Others
  <2>1. /\ kind' = kind /\ txn' = txn /\ mem' = mem /\ history'.found = None
    BY <1>2, OthersIs
  <2>2. Plain' BY <2>1 DEF Traced, Plain, IsProfile
  <2> QED BY <2>1, <2>2 DEF Traced
<1>3. CASE UNCHANGED vars
  <2>1. /\ kind' = kind /\ place' = place /\ row' = row /\ txn' = txn /\ mem' = mem /\ history' = history
    BY <1>3 DEF vars
  <2>2. Plain' BY <2>1 DEF Traced, Plain, IsProfile
  <2>3. ASSUME NEW f
        PROVE  /\ LinksTraced(f) => LinksTraced(f)'
               /\ VariablesTraced(f) => VariablesTraced(f)'
               /\ RulesTraced(f) => RulesTraced(f)'
    BY <2>1 DEF LinksTraced, VariablesTraced, RulesTraced, Nobody
  <2>4. ASSUME NEW f PROVE ProfileTraced(f) => ProfileTraced(f)'
    BY <2>1 DEF ProfileTraced, Marker
  <2>5. ASSUME NEW f, NEW i \in Installations PROVE BlockTraced(i, f) => BlockTraced(i, f)'
    <3>1. Marker(i)' = Marker(i) /\ Now(i)' = Now(i) /\ HeldBy(i)' = HeldBy(i) /\ Own(i)' = Own(i)
      BY <2>1 DEF Marker, Now, HeldBy, Namesake
    <3>2. Settled(i)' <=> Settled(i) BY <2>1 DEF Settled, Namesake, Marker
    <3> QED BY <2>1, <3>1, <3>2 DEF BlockTraced
  <2>6. ASSUME NEW f PROVE BlocksTraced(f) => BlocksTraced(f)'
    BY <2>4, <2>5 DEF BlocksTraced
  <2>7. IsProfile' <=> IsProfile BY <2>1 DEF IsProfile
  <2> QED BY <2>1, <2>2, <2>3, <2>6, <2>7 DEF Traced
<1> QED BY <1>1, <1>2, <1>3 DEF Next

\* A profile nobody owns a block of any more.
LEMMA ProfileLeft ==
  ASSUME Common, IsProfile, NEW f, BlocksTraced(f), \A i \in Installations : row[i] = None /\ txn[i] = None
  PROVE  /\ TextsOf(place) = TextsOf(f) /\ BlocksOf(place) = {}
         /\ Cardinality(history.ran) <= 1 => place = f
<1>1. ProfileTraced(f) /\ WellFormed(place) /\ history.ran \subseteq Installations
  BY DEF BlocksTraced, Common, TypeOK, PlaceOK, Histories
<1>2. ASSUME NEW i \in Installations PROVE Now(i) = None
  <2>1. Settled(i) BY DEF Settled, Namesake
  <2>2. HeldBy(i) = {} BY DEF HeldBy, Namesake
  <2> QED BY <2>1, <2>2 DEF BlocksTraced, BlockTraced
<1>3. BlocksOf(place) = {}
  <2>1. SUFFICES ASSUME NEW b \in BlocksOf(place) PROVE FALSE OBVIOUS
  <2>2. PICK i \in Installations : b.marker = Marker(i) BY <1>1 DEF ProfileTraced
  <2>3. find(TextOf(place), Marker(i)) # None
    <3>1. b \in BlocksIn(TextOf(place)) /\ TextOf(place) \in Seq(Tokens) /\ Single(TextOf(place))
      BY <1>1, ProfileParts DEF BlocksOf
    <3> QED BY <2>2, <3>1, Finds
  <2> QED BY <1>2, <2>3 DEF Now
<1>4. ASSUME Cardinality(history.ran) <= 1 PROVE place = f
  <2>1. CASE f.access # "free" \/ history.ran = {} BY <1>1, <2>1 DEF ProfileTraced
  <2>2. CASE f.access = "free" /\ history.ran # {}
    <3>1. Cardinality(history.ran) \in Nat /\ Cardinality(history.ran) # 0
      BY <1>1, <2>2, FS_CardinalityType, FS_EmptySet DEF ProfileTraced
    <3>2. Cardinality(history.ran) = 1 BY <1>4, <3>1
    <3>3. PICK i : history.ran = {i} BY <1>1, <3>2, FS_Singleton DEF ProfileTraced
    <3>4. i \in Installations BY <1>1, <3>3
    <3>5. BlockExact(Own(i), place, Now(i), txn[i], row[i], f, Marker(i))
      BY <2>2, <3>3, <3>4 DEF BlocksTraced, BlockTraced
    <3>6. find(TextOf(place), Marker(i)) = None BY <1>2, <3>4 DEF Now
    <3>7. /\ WellFormed(f) /\ BlocksOf(f) = {} /\ Marker(i) \in Installations \cup {"product"}
          /\ Own(i) \in SUBSET Contents
      BY <3>4, ProfileFacts
    <3> QED BY <2>2, <3>5, <3>6, <3>7, PutIntoFinds DEF BlockExact
  <2> QED BY <2>1, <2>2
<1> QED BY <1>1, <1>3, <1>4 DEF ProfileTraced

\* Once no installation owns the resource, and while nobody else touched the
\* place, it is as it was found, whatever was installed, upgraded, repaired,
\* rolled back and removed over it, by one product or by several
\* (resource/profile.rs 21-24, resource/environment.rs, plan.rs).
THEOREM FoundAgain == Spec => []LeftAsFound
<1>1. Init => Common /\ Undoing /\ Traced
  BY CommonInit, TracedInit DEF Init, Undoing, StageOK
<1>2. Common /\ Undoing /\ Traced /\ [Next]_vars => (Common /\ Undoing /\ Traced)'
  BY CommonStep, UndoingStep, TracedStep
<1>3. Common /\ Traced => LeftAsFound
  <2>1. SUFFICES ASSUME Common, Traced, history.found # None,
                        \A i \in Installations : row[i] = None /\ txn[i] = None
                 PROVE  IF IsProfile /\ Cardinality(history.ran) > 1
                        THEN TextsOf(place) = TextsOf(history.found[1]) /\ BlocksOf(place) = {}
                        ELSE place = history.found[1]
    BY DEF LeftAsFound
  <2>2. PICK f \in Firsts[kind] :
          /\ history.found = <<f>> /\ kind \in Kinds
          /\ kind = "shortcut" => LinksTraced(f)
          /\ kind = "environment" => VariablesTraced(f)
          /\ kind = "firewall" => RulesTraced(f)
          /\ IsProfile => BlocksTraced(f)
    BY <2>1 DEF Traced
  <2>3. history.found[1] = f BY <2>2
  <2>4. CASE IsProfile
    <3>1. /\ TextsOf(place) = TextsOf(f) /\ BlocksOf(place) = {}
          /\ Cardinality(history.ran) <= 1 => place = f
      BY <2>1, <2>2, <2>4, ProfileLeft
    <3> DEFINE n == Cardinality(history.ran)
    <3>2. n \in Nat BY <2>2, <2>4, FS_CardinalityType DEF BlocksTraced, ProfileTraced
    <3>3. n <= 1 => place = f BY <3>1
    <3> HIDE DEF n
    <3>4. n > 1 \/ place = f BY <3>2, <3>3
    <3>5. TextsOf(place) = TextsOf(history.found[1]) BY <2>3, <3>1
    <3>6. CASE n > 1 BY <2>4, <3>1, <3>5, <3>6 DEF n
    <3>7. CASE ~(n > 1)
      <4>1. place = history.found[1] BY <2>3, <3>4, <3>7
      <4> QED BY <3>7, <4>1 DEF n
    <3> QED BY <3>6, <3>7
  <2>5. CASE ~IsProfile
    <3>1. kind \in {"shortcut", "environment", "firewall"} /\ Nobody
      BY <2>1, <2>5 DEF Common, TypeOK, IsProfile, Nobody
    <3>2. place = f
      BY <2>1, <2>2, <3>1 DEF LinksTraced, VariablesTraced, RulesTraced, LinkTraced, VariableTraced, RuleTraced
    <3> QED BY <2>3, <2>5, <3>2
  <2> QED BY <2>4, <2>5
<1> QED BY <1>1, <1>2, <1>3, PTL DEF Spec
=============================================================================
