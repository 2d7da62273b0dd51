--------------------------- MODULE ByteCopyProofs ---------------------------
(***************************************************************************)
(* What the layerwise threads save comes back in its place and nothing     *)
(* else is written, for any number of layers, caches, blocks and ranges,   *)
(* any block lengths and strides, any limits and whatever calls fail.      *)
(***************************************************************************)
EXTENDS ByteCopy, SequenceTheorems, FiniteSetTheorems, WellFoundedInduction, TLAPS

-----------------------------------------------------------------------------
(* Recursive functions and sorted sequences *)

\* A set of naturals that is not empty has a least element.
LEMMA LeastNatural ==
  ASSUME NEW T, T \subseteq Nat, T # {}
  PROVE  \E n \in T : \A m \in T : n <= m
<1>. DEFINE Less == {ss \in Nat \X Nat : ss[1] < ss[2]}
<1>1. IsWellFoundedOn(Less, Nat)
  BY NatLessThanWellFounded DEF OpToRel
<1>. HIDE DEF Less
<1>2. PICK n \in T : \A m \in T : <<m, n>> \notin Less
  BY <1>1, WFMin
<1>3. \A m \in T : ~(m < n)
  BY <1>2 DEF Less
<1>. QED BY <1>3

\* The function by which FlattenSeq joins the sequences exists: there is no
\* least prefix without one.
LEMMA FlattenDef ==
  ASSUME NEW n \in Nat \ {0}, NEW ss
  PROVE  \E f : f = [i \in 1..n |-> IF i = 1 THEN ss[i] ELSE f[i - 1] \o ss[i]]
<1>. DEFINE D(m, f) == f = [i \in 1..m |-> IF i = 1 THEN ss[i] ELSE f[i - 1] \o ss[i]]
            Bad == {m \in Nat \ {0} : ~\E f : D(m, f)}
<1>. HIDE DEF D
<1>1. SUFFICES ASSUME Bad # {} PROVE FALSE
  <2>. n \notin Bad
    BY <1>1
  <2>. QED BY DEF D
<1>2. PICK m \in Bad : \A k \in Bad : m <= k
  BY <1>1, LeastNatural
<1>3. CASE m = 1
  <2>. DEFINE f == [i \in 1..1 |-> ss[i]]
  <2>1. D(1, f)
    BY DEF D
  <2>. QED BY <1>2, <1>3, <2>1
<1>4. CASE m # 1
  <2>1. m - 1 \in Nat \ {0} /\ m - 1 \notin Bad
    BY <1>2, <1>4
  <2>2. PICK f : D(m - 1, f)
    BY <2>1
  <2>. DEFINE h == [i \in 1..m |-> IF i = m THEN f[m - 1] \o ss[m] ELSE f[i]]
  <2>3. \A i \in 1..m : h[i] = IF i = 1 THEN ss[i] ELSE h[i - 1] \o ss[i]
    <3>. SUFFICES ASSUME NEW i \in 1..m
                  PROVE  h[i] = IF i = 1 THEN ss[i] ELSE h[i - 1] \o ss[i]
      OBVIOUS
    <3>1. CASE i = m
      <4>1. m \in 1..m /\ m - 1 \in 1..m /\ m # m - 1
        BY <2>1
      <4>2. h[i] = f[m - 1] \o ss[m] /\ h[m - 1] = f[m - 1]
        BY <3>1, <4>1
      <4>. QED BY <1>4, <3>1, <4>2
    <3>2. CASE i # m
      <4>1. i \in 1..m - 1
        BY <3>2
      <4>2. f[i] = IF i = 1 THEN ss[i] ELSE f[i - 1] \o ss[i]
        BY <2>2, <4>1 DEF D
      <4>3. h[i] = f[i] /\ (i # 1 => h[i - 1] = f[i - 1])
        BY <2>1, <3>2
      <4>. QED BY <4>2, <4>3
    <3>. QED BY <3>1, <3>2
  <2>4. D(m, h)
    BY <2>3 DEF D
  <2>. QED BY <1>2, <2>4
<1>. QED BY <1>2, <1>3, <1>4

\* FlattenSeq has the elements of all the sequences.
LEMMA FlattenFacts ==
  ASSUME NEW S, NEW ss \in Seq(Seq(S))
  PROVE  /\ FlattenSeq(ss) \in Seq(S)
         /\ Range(FlattenSeq(ss)) = UNION {Range(ss[i]) : i \in DOMAIN ss}
<1>1. CASE Len(ss) = 0
  <2>1. ss = << >> /\ FlattenSeq(ss) = ss /\ DOMAIN ss = {}
    BY <1>1 DEF FlattenSeq
  <2>2. ss \in Seq(S)
    BY <2>1
  <2>3. Range(ss) = {}
    BY <2>1, Zenon DEF Range
  <2>. QED BY <2>1, <2>2, <2>3
<1>2. CASE Len(ss) # 0
  <2>. DEFINE n == Len(ss)
              D(f) == f = [i \in 1..n |-> IF i = 1 THEN ss[i] ELSE f[i - 1] \o ss[i]]
              F == CHOOSE f : D(f)
  <2>1. n \in Nat \ {0} /\ DOMAIN ss = 1..n
    BY <1>2
  <2>2. FlattenSeq(ss) = F[n]
    BY <1>2 DEF FlattenSeq
  <2>3. \E f : D(f)
    BY <2>1, FlattenDef
  <2>. HIDE DEF D
  <2>4. D(F)
    BY <2>3, Zenon
  <2>. HIDE DEF F
  <2>5. \A i \in 1..n : F[i] = IF i = 1 THEN ss[i] ELSE F[i - 1] \o ss[i]
    BY <2>4 DEF D
  <2>. DEFINE Good(m) == F[m] \in Seq(S) /\ Range(F[m]) = UNION {Range(ss[i]) : i \in 1..m}
              Bad == {m \in 1..n : ~Good(m)}
  <2>6. \A i \in 1..n : ss[i] \in Seq(S)
    OBVIOUS
  <2>. HIDE DEF n
  <2>7. SUFFICES ASSUME Bad # {} PROVE FALSE
    <3>1. n \in 1..n
      BY <2>1
    <3>2. Bad = {}
      BY <2>7, Zenon
    <3>3. Good(n)
      BY <3>1, <3>2
    <3>. QED BY <2>1, <2>2, <3>3
  <2>8. PICK m \in Bad : \A k \in Bad : m <= k
    <3>. Bad \subseteq Nat
      BY <2>1
    <3>. QED BY <2>7, LeastNatural
  <2>9. CASE m = 1
    <3>1. F[m] = ss[1] /\ ss[1] \in Seq(S)
      BY <2>1, <2>5, <2>6, <2>9
    <3>2. UNION {Range(ss[i]) : i \in 1..1} = Range(ss[1])
      OBVIOUS
    <3>. QED BY <2>8, <2>9, <3>1, <3>2
  <2>10. CASE m # 1
    <3>1. m \in 1..n /\ m - 1 \in 1..n /\ m - 1 \notin Bad
      <4>1. m \in 1..n
        OBVIOUS
      <4>2. m - 1 \in 1..n /\ ~(m <= m - 1)
        BY <2>1, <2>10, <4>1
      <4>. QED BY <2>8, <4>1, <4>2
    <3>2. Good(m - 1)
      BY <3>1
    <3>3. F[m] = F[m - 1] \o ss[m] /\ ss[m] \in Seq(S)
      BY <2>1, <2>5, <2>6, <2>10
    <3>4. F[m] \in Seq(S) /\ Range(F[m]) = Range(F[m - 1]) \cup Range(ss[m])
      BY <3>2, <3>3, ConcatProperties, RangeConcatenation
    <3>5. 1..m = (1..m - 1) \cup {m}
      BY <2>1, <3>1
    <3>6. UNION {Range(ss[i]) : i \in 1..m}
          = (UNION {Range(ss[i]) : i \in 1..m - 1}) \cup Range(ss[m])
      BY <3>5
    <3>7. Good(m)
      BY <3>2, <3>4, <3>6
    <3>. QED BY <2>8, <3>7
  <2>. QED BY <2>9, <2>10
<1>. QED BY <1>1, <1>2

\* LenTo exists and sums up the block lengths.
LEMMA LenToExists ==
  ASSUME NEW n \in Nat, NEW s
  PROVE  \E f : f = [i \in 0..n |-> IF i = 0 THEN 0 ELSE f[i - 1] + s[i]]
<1>. DEFINE D(m, f) == f = [i \in 0..m |-> IF i = 0 THEN 0 ELSE f[i - 1] + s[i]]
            Bad == {m \in Nat : ~\E f : D(m, f)}
<1>. HIDE DEF D
<1>1. SUFFICES ASSUME Bad # {} PROVE FALSE
  <2>. n \notin Bad
    BY <1>1
  <2>. QED BY DEF D
<1>2. PICK m \in Bad : \A k \in Bad : m <= k
  BY <1>1, LeastNatural
<1>3. CASE m = 0
  <2>. DEFINE f == [i \in 0..0 |-> 0]
  <2>1. D(0, f)
    BY DEF D
  <2>. QED BY <1>2, <1>3, <2>1
<1>4. CASE m # 0
  <2>1. m \in Nat /\ m - 1 \in Nat /\ m - 1 \notin Bad
    BY <1>2, <1>4
  <2>2. PICK f : D(m - 1, f)
    BY <2>1
  <2>. DEFINE h == [i \in 0..m |-> IF i = m THEN f[m - 1] + s[m] ELSE f[i]]
  <2>3. \A i \in 0..m : h[i] = IF i = 0 THEN 0 ELSE h[i - 1] + s[i]
    <3>. SUFFICES ASSUME NEW i \in 0..m
                  PROVE  h[i] = IF i = 0 THEN 0 ELSE h[i - 1] + s[i]
      OBVIOUS
    <3>1. CASE i = m
      <4>1. m \in 0..m /\ m - 1 \in 0..m /\ m # m - 1
        BY <2>1
      <4>2. h[i] = f[m - 1] + s[m] /\ h[m - 1] = f[m - 1]
        BY <3>1, <4>1
      <4>. QED BY <1>4, <3>1, <4>2
    <3>2. CASE i # m
      <4>1. i \in 0..m - 1
        BY <2>1, <3>2
      <4>2. f[i] = IF i = 0 THEN 0 ELSE f[i - 1] + s[i]
        BY <2>2, <4>1 DEF D
      <4>3. h[i] = f[i] /\ (i # 0 => h[i - 1] = f[i - 1])
        BY <2>1, <3>2
      <4>. QED BY <4>2, <4>3
    <3>. QED BY <3>1, <3>2
  <2>4. D(m, h)
    BY <2>3 DEF D
  <2>. QED BY <1>2, <2>4
<1>. QED BY <1>2, <1>3, <1>4

Caches == Len(BlockLen)

\* LenTo has the values its equation gives it.
LEMMA LenToFacts ==
  /\ Caches \in Nat \ {0} /\ LenTo[0] = 0
  /\ \A f \in 1..Caches : BlockLen[f] \in Nat \ {0} /\ LenTo[f] = LenTo[f - 1] + BlockLen[f]
  /\ \A f \in 0..Caches : LenTo[f] \in Nat
<1>. DEFINE D(f) == f = [i \in 0..Caches |-> IF i = 0 THEN 0 ELSE f[i - 1] + BlockLen[i]]
<1>1. Caches \in Nat \ {0} /\ \A f \in 1..Caches : BlockLen[f] \in Nat \ {0}
  <2>1. BlockLen \in Seq(Nat \ {0}) /\ NumLayers \in Nat \ {0} /\ Caches >= NumLayers
    BY ByteAssumption DEF Caches
  <2>2. Caches \in Nat /\ \A f \in 1..Caches : BlockLen[f] \in Nat \ {0}
    BY <2>1, LenProperties, ElementOfSeq DEF Caches
  <2>. QED BY <2>1, <2>2
<1>2. \E f : D(f)
  BY <1>1, LenToExists
<1>3. LenTo = CHOOSE f : D(f)
  BY DEF LenTo, Caches
<1>. HIDE DEF D
<1>4. D(LenTo)
  BY <1>2, <1>3, Zenon
<1>5. \A i \in 0..Caches : LenTo[i] = IF i = 0 THEN 0 ELSE LenTo[i - 1] + BlockLen[i]
  BY <1>4 DEF D
<1>6. LenTo[0] = 0 /\ \A f \in 1..Caches : LenTo[f] = LenTo[f - 1] + BlockLen[f]
  BY <1>1, <1>5
<1>. DEFINE Bad == {f \in 0..Caches : LenTo[f] \notin Nat}
<1>7. Bad = {}
  <2>. SUFFICES ASSUME Bad # {} PROVE FALSE
    OBVIOUS
  <2>1. PICK f \in Bad : \A g \in Bad : f <= g
    <3>. Bad \subseteq Nat
      BY <1>1
    <3>. QED BY LeastNatural
  <2>2. f \in 0..Caches /\ f # 0
    BY <1>6, <2>1
  <2>3. f - 1 \in 0..Caches /\ f \in 1..Caches /\ ~(f <= f - 1)
    BY <1>1, <2>2
  <2>4. LenTo[f - 1] \in Nat
    BY <2>1, <2>3
  <2>. QED BY <1>1, <1>6, <2>1, <2>3, <2>4
<1>. QED BY <1>1, <1>6, <1>7

\* Later caches begin behind earlier ones.
LEMMA LenToRises ==
  ASSUME NEW f \in 0..Caches, NEW g \in f..Caches
  PROVE  LenTo[f] <= LenTo[g]
<1>. DEFINE Bad == {h \in f..Caches : ~(LenTo[f] <= LenTo[h])}
<1>. SUFFICES ASSUME Bad # {} PROVE FALSE
  OBVIOUS
<1>1. PICK h \in Bad : \A k \in Bad : h <= k
  <2>. Bad \subseteq Nat
    BY LenToFacts
  <2>. QED BY LeastNatural
<1>2. h \in f..Caches /\ h # f /\ ~(LenTo[f] <= LenTo[h])
  BY <1>1, LenToFacts
<1>3. h - 1 \in f..Caches /\ h \in 1..Caches /\ ~(h <= h - 1)
  BY <1>2, LenToFacts
<1>4. LenTo[f] <= LenTo[h - 1]
  BY <1>1, <1>3
<1>5. h - 1 \in 0..Caches /\ LenTo[h - 1] \in Nat /\ LenTo[f] \in Nat
  BY <1>3, LenToFacts
<1>. QED BY <1>2, <1>3, <1>4, <1>5, LenToFacts

BlockType == [id : Nat, gva : Nat]

\* Before orders blocks totally.
LEMMA BeforeFacts ==
  /\ \A a, b \in BlockType : Before(a, b) \/ Before(b, a) \/ a = b
  /\ \A a \in BlockType : ~Before(a, a)
  /\ \A a, b, c \in BlockType : Before(a, b) /\ Before(b, c) => Before(a, c)
BY DEF BlockType, Before

Below(S, b) == {c \in S : Before(c, b)}

\* An element's place is one behind those before it.
LEMMA BelowCounts ==
  ASSUME NEW S \in SUBSET BlockType, IsFiniteSet(S)
  PROVE  /\ \A b \in S : Cardinality(Below(S, b)) \in 0..Cardinality(S) - 1
         /\ \A a, b \in S : Before(a, b) =>
              Cardinality(Below(S, a)) < Cardinality(Below(S, b))
<1>1. \A b \in S : IsFiniteSet(Below(S, b)) /\ Cardinality(Below(S, b)) \in Nat
  BY FS_Subset, FS_CardinalityType DEF Below
<1>2. ASSUME NEW b \in S
      PROVE  Cardinality(Below(S, b)) \in 0..Cardinality(S) - 1
  <2>1. b \notin Below(S, b) /\ Below(S, b) \subseteq S
    BY BeforeFacts DEF Below
  <2>2. Cardinality(Below(S, b)) <= Cardinality(S) /\ Cardinality(S) \in Nat
        /\ Cardinality(Below(S, b)) # Cardinality(S)
    BY <2>1, FS_Subset, FS_CardinalityType
  <2>. QED BY <1>1, <2>2
<1>3. ASSUME NEW a \in S, NEW b \in S, Before(a, b)
      PROVE  Cardinality(Below(S, a)) < Cardinality(Below(S, b))
  <2>1. Below(S, a) \subseteq Below(S, b) /\ a \in Below(S, b) /\ a \notin Below(S, a)
    BY <1>3, BeforeFacts DEF Below
  <2>2. Cardinality(Below(S, a)) <= Cardinality(Below(S, b))
        /\ Cardinality(Below(S, a)) # Cardinality(Below(S, b))
    BY <1>1, <2>1, FS_Subset
  <2>. QED BY <1>1, <2>2
<1>. QED BY <1>2, <1>3

\* A finite set of blocks has an order, and in it every block once.
LEMMA InOrderFacts ==
  ASSUME NEW S \in SUBSET BlockType, IsFiniteSet(S)
  PROVE  InOrder(S) \in Seq(S) /\ Range(InOrder(S)) = S
<1>. DEFINE n == Cardinality(S)
            Sorted(s) == s \in [1..n -> S]
                         /\ \A i, j \in DOMAIN s : i < j => Before(s[i], s[j])
            rank == [b \in S |-> Cardinality(Below(S, b)) + 1]
            list == [i \in 1..n |-> CHOOSE b \in S : rank[b] = i]
<1>1. n \in Nat /\ IsFiniteSet(1..n) /\ Cardinality(1..n) = n
  BY FS_CardinalityType, FS_Interval
<1>. HIDE DEF n
<1>2. rank \in [S -> 1..n] /\ \A a, b \in S : Before(a, b) => rank[a] < rank[b]
  BY <1>1, BelowCounts DEF n
<1>. HIDE DEF rank
<1>3. \A a, b \in S : rank[a] < rank[b] => Before(a, b)
  BY <1>1, <1>2, BeforeFacts
<1>4. \A a, b \in S : rank[a] = rank[b] => a = b
  BY <1>1, <1>2, BeforeFacts
<1>5. rank \in Injection(S, 1..n)
  BY <1>2, <1>4 DEF Injection, IsInjective
<1>6. rank \in Surjection(S, 1..n)
  BY <1>1, <1>5, FS_Injection DEF n
<1>7. \A i \in 1..n : \E b \in S : rank[b] = i
  BY <1>6 DEF Surjection
<1>8. \A i \in 1..n : list[i] \in S /\ rank[list[i]] = i
  BY <1>7
<1>9. Sorted(list)
  BY <1>1, <1>3, <1>8
<1>10. InOrder(S) = CHOOSE s : Sorted(s)
  BY DEF InOrder, n
<1>. HIDE DEF Sorted, list
<1>11. Sorted(InOrder(S))
  BY <1>9, <1>10, Zenon
<1>12. PICK s : s = InOrder(S) /\ Sorted(s)
  BY <1>11
<1>13. s \in [1..n -> S] /\ DOMAIN s = 1..n /\ s \in Seq(S)
  BY <1>1, <1>12 DEF Sorted
<1>14. \A i, j \in 1..n : s[i] = s[j] => i = j
  <2>1. \A i, j \in 1..n : i < j => s[i] # s[j]
    BY <1>12, <1>13, BeforeFacts DEF Sorted
  <2>. QED BY <1>1, <2>1
<1>15. s \in Injection(1..n, S)
  BY <1>13, <1>14 DEF Injection, IsInjective
<1>16. s \in Surjection(1..n, S)
  BY <1>1, <1>15, FS_Injection DEF n
<1>17. Range(s) = S
  BY <1>13, <1>16 DEF Surjection, Range
<1>. QED BY <1>12, <1>13, <1>17

\* Dedupe drops and reorders, no more.
LEMMA DedupeFacts ==
  ASSUME NEW s \in Seq(BlockType)
  PROVE  Dedupe(s) \in Seq(BlockType) /\ Range(Dedupe(s)) = Range(s)
<1>1. Range(s) \in SUBSET BlockType
  BY DEF Range
<1>2. IsFiniteSet(Range(s))
  <2>1. DOMAIN s = 1..Len(s) /\ Len(s) \in Nat /\ s \in Seq(Range(s))
    BY SeqOfRange
  <2>2. s \in [1..Len(s) -> Range(s)] /\ \A x \in Range(s) : \E i \in 1..Len(s) : s[i] = x
    BY <2>1 DEF Range
  <2>3. s \in Surjection(1..Len(s), Range(s))
    BY <2>2 DEF Surjection
  <2>4. IsFiniteSet(1..Len(s))
    BY <2>1, FS_Interval
  <2>. QED BY <2>3, <2>4, FS_Surjection
<1>3. InOrder(Range(s)) \in Seq(BlockType)
  BY <1>1, <1>2, InOrderFacts, SeqMonotonic
<1>. QED BY <1>1, <1>2, <1>3, InOrderFacts DEF Dedupe

-----------------------------------------------------------------------------
(* Blocks and entries *)

RangeType == [ids : Seq(Nat), gvas : Seq(Nat), start : Nat, end : Nat, offset : Nat,
              partial : Nat \cup {-1}, lastGva : Nat]

\* The blocks a range names.
NamedIn(range) ==
  {[id |-> range.ids[k + 1], gva |-> range.gvas[k - range.offset + 1]] :
     k \in range.start..range.end - 1}
  \cup (IF range.partial = -1 THEN {}
        ELSE {[id |-> range.ids[range.partial + 1], gva |-> range.lastGva]})

\* From the places in a range, counted from 1, to block numbers and back.
LEMMA RangePlaces ==
  ASSUME NEW s \in Nat, NEW e \in Nat
  PROVE  /\ \A k \in 1..e - s : s + k - 1 \in s..e - 1
         /\ \A k \in s..e - 1 : k + 1 - s \in 1..e - s
OBVIOUS

\* The list of a range has the blocks the range names.
LEMMA RangeBlocksFacts ==
  ASSUME NEW range \in RangeType, Covers(range),
         range.end <= Len(range.ids), range.partial < Len(range.ids)
  PROVE  RangeBlocks(range) \in Seq(BlockType) /\ Range(RangeBlocks(range)) = NamedIn(range)
<1>. DEFINE n == range.end - range.start
            whole == [k \in 1..n |-> [id |-> range.ids[range.start + k],
                                      gva |-> range.gvas[range.start - range.offset + k]]]
            last == IF range.partial = -1 THEN << >>
                    ELSE <<[id |-> range.ids[range.partial + 1], gva |-> range.lastGva]>>
            named == {[id |-> range.ids[k + 1], gva |-> range.gvas[k - range.offset + 1]] :
                        k \in range.start..range.end - 1}
<1>1. /\ range.ids \in Seq(Nat) /\ range.gvas \in Seq(Nat) /\ range.lastGva \in Nat
      /\ range.start \in Nat /\ range.end \in Nat /\ range.offset \in Nat
      /\ range.partial \in Nat \cup {-1}
  BY DEF RangeType
<1>2. \A k \in 1..n : /\ range.ids[range.start + k] \in Nat
                      /\ range.gvas[range.start - range.offset + k] \in Nat
  <2>. SUFFICES ASSUME NEW k \in 1..n
                PROVE  /\ range.ids[range.start + k] \in Nat
                       /\ range.gvas[range.start - range.offset + k] \in Nat
    OBVIOUS
  <2>1. range.start < range.end
    BY <1>1
  <2>2. range.start >= range.offset /\ range.end - range.offset <= Len(range.gvas)
    BY <2>1 DEF Covers
  <2>3. /\ Len(range.ids) \in Nat /\ \A j \in 1..Len(range.ids) : range.ids[j] \in Nat
        /\ Len(range.gvas) \in Nat /\ \A j \in 1..Len(range.gvas) : range.gvas[j] \in Nat
    BY <1>1, LenProperties, ElementOfSeq
  <2>4. range.start + k \in 1..Len(range.ids)
    <3>. DEFINE s == range.start  e == range.end  m == Len(range.ids)
    <3>1. s \in Nat /\ e \in Nat /\ m \in Nat /\ k \in 1..e - s /\ e <= m
      BY <1>1, <2>3
    <3>. HIDE DEF s, e, m
    <3>2. s + k \in 1..m
      BY <3>1
    <3>. QED BY <3>2 DEF s, m
  <2>5. range.start - range.offset + k \in 1..Len(range.gvas)
    <3>. DEFINE s == range.start  e == range.end  o == range.offset  m == Len(range.gvas)
    <3>1. /\ s \in Nat /\ e \in Nat /\ o \in Nat /\ m \in Nat
          /\ k \in 1..e - s /\ s >= o /\ e - o <= m
      BY <1>1, <2>2, <2>3
    <3>. HIDE DEF s, e, o, m
    <3>2. s - o + k \in 1..m
      BY <3>1
    <3>. QED BY <3>2 DEF s, o, m
  <2>. QED BY <2>3, <2>4, <2>5
<1>3. \A k \in 1..n : whole[k] \in BlockType
  BY <1>2 DEF BlockType
<1>4. whole \in Seq(BlockType) /\ DOMAIN whole = 1..n
  <2>1. CASE n >= 0
    <3>1. n \in Nat
      BY <1>1, <2>1
    <3>. HIDE DEF n
    <3>2. whole \in [1..n -> BlockType]
      BY <1>3
    <3>. HIDE DEF whole
    <3>. QED BY <3>1, <3>2
  <2>2. CASE n < 0
    <3>1. 1..n = {} /\ 1..0 = {}
      BY <1>1, <2>2
    <3>2. whole \in [1..0 -> BlockType] /\ DOMAIN whole = 1..n
      BY <3>1
    <3>. HIDE DEF whole
    <3>. QED BY <3>1, <3>2
  <2>. QED BY <1>1, <2>1, <2>2
<1>5. Range(whole) = named
  <2>1. ASSUME NEW k \in 1..n PROVE whole[k] \in named
    <3>. DEFINE j == range.start + k - 1
    <3>1. j \in range.start..range.end - 1
      BY <1>1, RangePlaces
    <3>2. j + 1 = range.start + k /\ j - range.offset + 1 = range.start - range.offset + k
      <4>. DEFINE s == range.start  o == range.offset
      <4>1. s \in Nat /\ o \in Nat /\ k \in Int /\ j = s + k - 1
        BY <1>1
      <4>. HIDE DEF s, o, j
      <4>2. j + 1 = s + k /\ j - o + 1 = s - o + k
        BY <4>1
      <4>. QED BY <4>2 DEF s, o
    <3>. HIDE DEF j, n
    <3>3. whole[k] = [id |-> range.ids[j + 1], gva |-> range.gvas[j - range.offset + 1]]
      BY <3>2
    <3>. QED BY <3>1, <3>3
  <2>2. ASSUME NEW k \in range.start..range.end - 1
        PROVE  [id |-> range.ids[k + 1], gva |-> range.gvas[k - range.offset + 1]] \in Range(whole)
    <3>1. k + 1 - range.start \in 1..n
      BY <1>1, RangePlaces
    <3>2. range.start + (k + 1 - range.start) = k + 1
          /\ range.start - range.offset + (k + 1 - range.start) = k - range.offset + 1
      <4>. DEFINE s == range.start  o == range.offset
      <4>1. s \in Nat /\ o \in Nat /\ k \in Int
        BY <1>1
      <4>. HIDE DEF s, o
      <4>2. s + (k + 1 - s) = k + 1 /\ s - o + (k + 1 - s) = k - o + 1
        BY <4>1
      <4>. QED BY <4>2 DEF s, o
    <3>3. whole[k + 1 - range.start]
          = [id |-> range.ids[k + 1], gva |-> range.gvas[k - range.offset + 1]]
      BY <3>1, <3>2
    <3>. QED BY <1>4, <3>1, <3>3 DEF Range
  <2>3. Range(whole) = {whole[k] : k \in 1..n}
    BY <1>4 DEF Range
  <2>4. \A b \in named : \E k \in range.start..range.end - 1 :
          b = [id |-> range.ids[k + 1], gva |-> range.gvas[k - range.offset + 1]]
    OBVIOUS
  <2>. HIDE DEF whole, named, n
  <2>. QED BY <2>1, <2>2, <2>3, <2>4
<1>6. last \in Seq(BlockType)
      /\ Range(last) = IF range.partial = -1 THEN {}
                       ELSE {[id |-> range.ids[range.partial + 1], gva |-> range.lastGva]}
  <2>1. CASE range.partial = -1
    BY <2>1 DEF Range
  <2>2. CASE range.partial # -1
    <3>1. range.partial + 1 \in 1..Len(range.ids)
      BY <1>1, <2>2
    <3>2. range.ids[range.partial + 1] \in Nat /\ range.lastGva \in Nat
      BY <1>1, <3>1, ElementOfSeq
    <3>3. [id |-> range.ids[range.partial + 1], gva |-> range.lastGva] \in BlockType
      BY <3>2 DEF BlockType
    <3>. QED BY <2>2, <3>3 DEF Range
  <2>. QED BY <2>1, <2>2
<1>. HIDE DEF whole, last
<1>7. RangeBlocks(range) = whole \o last
  BY DEF RangeBlocks, whole, last
<1>8. NamedIn(range) = Range(whole) \cup Range(last)
  BY <1>5, <1>6 DEF NamedIn
<1>9. whole \o last \in Seq(BlockType) /\ Range(whole \o last) = Range(whole) \cup Range(last)
  BY <1>4, <1>6, ConcatProperties, RangeConcatenation
<1>. QED BY <1>7, <1>8, <1>9

\* The tasks of a behaviour.
IsTask(task) == task \in SaveTasks \cup LoadTasks /\ Covered(task)

\* What a task moves is what its ranges name.
LEMMA SharedFacts ==
  ASSUME NEW task, IsTask(task)
  PROVE  /\ Shared(task) \in Seq(BlockType)
         /\ Range(Shared(task)) = Named(task)
         /\ Named(task) \subseteq BlockType
<1>. DEFINE ss == [i \in DOMAIN task |-> RangeBlocks(task[i])]
<1>1. task \in Seq(RangeType) /\ \A i \in DOMAIN task :
        Covers(task[i]) /\ task[i].end <= Len(task[i].ids) /\ task[i].partial < Len(task[i].ids)
  BY TaskAssumption DEF IsTask, Covered, RangeType
<1>2. DOMAIN task = 1..Len(task) /\ Len(task) \in Nat /\ \A i \in DOMAIN task : task[i] \in RangeType
  BY <1>1, LenProperties, ElementOfSeq
<1>3. \A i \in DOMAIN task :
        RangeBlocks(task[i]) \in Seq(BlockType) /\ Range(RangeBlocks(task[i])) = NamedIn(task[i])
  BY <1>1, <1>2, RangeBlocksFacts
<1>4. ss \in Seq(Seq(BlockType)) /\ DOMAIN ss = DOMAIN task
  BY <1>2, <1>3
<1>5. \A i \in DOMAIN task : Range(ss[i]) = NamedIn(task[i])
  BY <1>3
<1>. HIDE DEF ss
<1>6. FlattenSeq(ss) \in Seq(BlockType)
      /\ Range(FlattenSeq(ss)) = UNION {Range(ss[i]) : i \in DOMAIN ss}
  BY <1>4, FlattenFacts
<1>7. UNION {Range(ss[i]) : i \in DOMAIN ss} = UNION {NamedIn(task[i]) : i \in DOMAIN task}
  BY <1>4, <1>5
<1>8. Named(task) = UNION {NamedIn(task[i]) : i \in DOMAIN task}
  BY DEF Named, NamedIn
<1>9. Shared(task) = Dedupe(FlattenSeq(ss))
  BY DEF Shared, ss
<1>10. Shared(task) \in Seq(BlockType) /\ Range(Shared(task)) = Named(task)
  BY <1>6, <1>7, <1>8, <1>9, DedupeFacts
<1>. QED BY <1>10, RangeOfSeq

Layers  == 0..NumLayers - 1
Columns == 1..CachesPerLayer
EntryType == [addr : Nat, gva : Nat, size : Nat \ {0}]

\* The caches of a layer, in the list of all caches.
LEMMA CacheFacts ==
  /\ NumLayers \in Nat \ {0} /\ CachesPerLayer \in Nat \ {0}
  /\ \A l \in Layers : /\ l * CachesPerLayer \in 0..Caches
                       /\ (l + 1) * CachesPerLayer \in 0..Caches
                       /\ (l + 1) * CachesPerLayer = l * CachesPerLayer + CachesPerLayer
  /\ \A l \in Layers : \A c \in Columns : l * CachesPerLayer + c \in 1..Caches
<1>. DEFINE C == CachesPerLayer
<1>1. NumLayers \in Nat \ {0} /\ Caches \in Nat /\ Caches >= NumLayers
  BY ByteAssumption DEF Caches
<1>2. C = Caches \div NumLayers
  BY DEF CachesPerLayer, Caches
<1>. HIDE DEF C
<1>3. C \in Nat /\ C * NumLayers <= Caches /\ Caches < (C + 1) * NumLayers
  BY <1>1, <1>2
<1>4. C # 0
  BY <1>1, <1>3
<1>5. ASSUME NEW l \in Layers
      PROVE  /\ l \in Nat /\ l * C \in Nat /\ (l + 1) * C = l * C + C
             /\ l * C + C <= Caches
  <2>1. l \in Nat /\ NumLayers - 1 - l \in Nat
    BY <1>1 DEF Layers
  <2>2. (NumLayers - 1 - l) * C \in Nat /\ l * C \in Nat
    BY <1>3, <2>1
  <2>3. C * NumLayers = (NumLayers - 1 - l) * C + l * C + C
    BY <1>1, <1>3, <2>1
  <2>. QED BY <1>1, <1>3, <2>1, <2>2, <2>3
<1>6. ASSUME NEW l \in Layers
      PROVE  /\ l * C \in 0..Caches /\ (l + 1) * C \in 0..Caches
             /\ \A c \in 1..C : l * C + c \in 1..Caches
  BY <1>1, <1>3, <1>5
<1>. QED BY <1>1, <1>3, <1>4, <1>5, <1>6 DEF C, Columns

FlatOf(l, c) == l * CachesPerLayer + c
Offset(l, c) == l * PageSize + (LenTo[FlatOf(l, c) - 1] - LenTo[l * CachesPerLayer])
EntryGva(e)  == e.gva..e.gva + e.size - 1
EntryAddr(e) == e.addr..e.addr + e.size - 1

\* Products with a greater factor are greater.
LEMMA ProductRises ==
  ASSUME NEW a \in Nat, NEW b \in Nat, NEW m \in Nat, a < b
  PROVE  a * m \in Nat /\ b * m \in Nat /\ a * m + m <= b * m
<1>1. b - a - 1 \in Nat
  OBVIOUS
<1>2. (b - a - 1) * m \in Nat
  BY <1>1
<1>3. b * m = a * m + m + (b - a - 1) * m
  OBVIOUS
<1>. QED BY <1>2, <1>3

\* Layers and the beginnings of their pages are numbers.
LEMMA PageFacts == PageSize \in Nat /\ \A l \in Layers : l \in Nat /\ l * PageSize \in Nat
<1>1. PageSize \in Nat
  BY ByteAssumption
<1>2. \A l \in Layers : l \in Nat
  BY DEF Layers
<1>. QED BY <1>1, <1>2

\* Where the bytes of a cache lie within the page of its block.
LEMMA OffsetFacts ==
  ASSUME NEW l \in Layers, NEW c \in Columns
  PROVE  /\ FlatOf(l, c) \in 1..Caches
         /\ BlockLen[FlatOf(l, c)] \in Nat \ {0}
         /\ Offset(l, c) \in Nat /\ Offset(l, c) >= l * PageSize
         /\ Offset(l, c) + BlockLen[FlatOf(l, c)] <= l * PageSize + PageSize
         /\ Offset(l, c) + BlockLen[FlatOf(l, c)] <= NumLayers * PageSize
<1>. DEFINE C == CachesPerLayer  f == FlatOf(l, c)  p == l * PageSize  q == l * C
<1>1. f \in 1..Caches /\ q \in 0..Caches /\ q + C \in 0..Caches /\ f = q + c /\ c \in 1..C
      /\ C \in Nat /\ l \in Nat /\ l < NumLayers /\ NumLayers \in Nat
  BY CacheFacts DEF FlatOf, Columns, Layers
<1>2. PageSize \in Nat /\ p \in Nat
  BY PageFacts
<1>3. LenTo[q + C] - LenTo[q] <= PageSize
  BY PlaceAssumption, CacheFacts DEF Layers
<1>4. p + PageSize <= NumLayers * PageSize /\ NumLayers * PageSize \in Nat
  BY <1>1, <1>2, ProductRises
<1>5. Offset(l, c) = p + (LenTo[f - 1] - LenTo[q])
  BY DEF Offset
<1>. HIDE DEF C, f, p, q
<1>6. f - 1 \in q..Caches /\ f \in 0..Caches /\ f - 1 \in 0..Caches /\ q + C \in f..Caches
      /\ Caches \in Nat
  BY <1>1, LenToFacts
<1>7. LenTo[q] <= LenTo[f - 1] /\ LenTo[f] <= LenTo[q + C]
  BY <1>1, <1>6, LenToRises
<1>8. /\ LenTo[q] \in Nat /\ LenTo[f - 1] \in Nat /\ LenTo[f] \in Nat /\ LenTo[q + C] \in Nat
      /\ BlockLen[f] \in Nat \ {0} /\ LenTo[f] = LenTo[f - 1] + BlockLen[f]
  BY <1>1, <1>6, LenToFacts
<1>9. /\ Offset(l, c) \in Nat /\ Offset(l, c) >= p /\ Offset(l, c) + BlockLen[f] <= p + PageSize
  BY <1>2, <1>3, <1>5, <1>7, <1>8
<1>10. Offset(l, c) + BlockLen[f] <= NumLayers * PageSize
  BY <1>2, <1>4, <1>8, <1>9
<1>. QED BY <1>1, <1>8, <1>9, <1>10 DEF f, p

\* Two caches of one layer, or of two, have different bytes of the page.
LEMMA OffsetsApart ==
  ASSUME NEW l \in Layers, NEW c \in Columns, NEW k \in Layers, NEW d \in Columns,
         l < k \/ (l = k /\ c < d)
  PROVE  Offset(l, c) + BlockLen[FlatOf(l, c)] <= Offset(k, d)
<1>1. CASE l < k
  <2>1. l \in Nat /\ k \in Nat /\ PageSize \in Nat
    BY CacheFacts, ByteAssumption DEF Layers
  <2>2. l * PageSize + PageSize <= k * PageSize /\ l * PageSize \in Nat /\ k * PageSize \in Nat
    BY <1>1, <2>1, ProductRises
  <2>. QED BY <2>1, <2>2, OffsetFacts
<1>2. CASE l = k /\ c < d
  <2>. DEFINE f == FlatOf(l, c)  g == FlatOf(l, d)  q == l * CachesPerLayer  p == l * PageSize
  <2>1. f \in 1..Caches /\ g \in 1..Caches /\ f < g /\ q \in 0..Caches
    BY <1>2, CacheFacts DEF FlatOf, Columns
  <2>2. p \in Nat
    BY PageFacts
  <2>3. Offset(l, c) = p + (LenTo[f - 1] - LenTo[q]) /\ Offset(k, d) = p + (LenTo[g - 1] - LenTo[q])
    BY <1>2 DEF Offset
  <2>. HIDE DEF f, g, p, q
  <2>4. f \in 0..Caches /\ g - 1 \in f..Caches /\ f - 1 \in 0..Caches /\ g - 1 \in 0..Caches
    BY <2>1, LenToFacts
  <2>5. LenTo[f] <= LenTo[g - 1]
    BY <2>4, LenToRises
  <2>6. /\ LenTo[q] \in Nat /\ LenTo[f - 1] \in Nat /\ LenTo[f] \in Nat /\ LenTo[g - 1] \in Nat
        /\ BlockLen[f] \in Nat \ {0} /\ LenTo[f] = LenTo[f - 1] + BlockLen[f]
    BY <2>1, <2>4, LenToFacts
  <2>7. Offset(l, c) + BlockLen[f] <= Offset(k, d)
    BY <2>2, <2>3, <2>5, <2>6
  <2>. QED BY <2>7 DEF f
<1>. QED BY <1>1, <1>2

\* An entry, in these terms.
LEMMA EntryIs ==
  ASSUME NEW b \in BlockType, NEW l \in Layers, NEW c \in Columns
  PROVE  /\ Entry(b, l, c) \in EntryType
         /\ Entry(b, l, c).gva = b.gva + Offset(l, c)
         /\ Entry(b, l, c).addr = BaseAddr[FlatOf(l, c)] + b.id * BlockStride[FlatOf(l, c)]
         /\ Entry(b, l, c).size = BlockLen[FlatOf(l, c)]
<1>. DEFINE f == FlatOf(l, c)  q == l * CachesPerLayer
<1>1. /\ f \in 1..Caches /\ q \in 0..Caches /\ f - c = q /\ f - 1 \in 0..Caches
      /\ l * PageSize \in Nat /\ b.gva \in Nat /\ b.id \in Nat
  <2>1. f \in 1..Caches /\ q \in 0..Caches /\ f = q + c /\ c \in Nat /\ Caches \in Nat
    BY CacheFacts, LenToFacts DEF FlatOf, Columns
  <2>2. b.gva \in Nat /\ b.id \in Nat
    BY DEF BlockType
  <2>. HIDE DEF f, q
  <2>. QED BY <2>1, <2>2, PageFacts
<1>2. Entry(b, l, c) = [addr |-> BaseAddr[f] + b.id * BlockStride[f],
                        gva  |-> b.gva + l * PageSize + LenTo[f - 1] - LenTo[f - c],
                        size |-> BlockLen[f]]
  BY DEF Entry, FlatOf
<1>3. Offset(l, c) = l * PageSize + (LenTo[f - 1] - LenTo[q])
  BY DEF Offset
<1>4. BlockLen[f] \in Nat \ {0} /\ BaseAddr[f] \in Nat /\ BlockStride[f] \in Nat
  BY <1>1, ByteAssumption, LenToFacts, ElementOfSeq DEF Caches
<1>5. Offset(l, c) \in Nat /\ LenTo[f - 1] \in Nat /\ LenTo[q] \in Nat
  BY <1>1, OffsetFacts, LenToFacts
<1>. HIDE DEF f, q
<1>6. b.gva + l * PageSize + LenTo[f - 1] - LenTo[f - c] = b.gva + Offset(l, c)
  BY <1>1, <1>3, <1>5
<1>7. b.id * BlockStride[f] \in Nat
  BY <1>1, <1>4
<1>8. BaseAddr[f] + b.id * BlockStride[f] \in Nat /\ b.gva + Offset(l, c) \in Nat
  BY <1>1, <1>4, <1>5, <1>7
<1>. QED BY <1>2, <1>4, <1>6, <1>8 DEF EntryType, f

\* No byte of the pool belongs to two entries of what is saved.
LEMMA PoolPlaces ==
  ASSUME NEW task \in SaveTasks, Covered(task), NEW a \in Named(task), NEW b \in Named(task),
         NEW l \in Layers, NEW c \in Columns, NEW k \in Layers, NEW d \in Columns,
         NEW g, g \in EntryGva(Entry(a, l, c)), g \in EntryGva(Entry(b, k, d))
  PROVE  a = b /\ l = k /\ c = d
<1>. DEFINE m == BlockLen[FlatOf(l, c)]  n == BlockLen[FlatOf(k, d)]  p == NumLayers * PageSize
<1>1. a \in BlockType /\ b \in BlockType
  BY SharedFacts DEF IsTask
<1>2. a.gva \in Nat /\ b.gva \in Nat
  BY <1>1 DEF BlockType
<1>3. /\ Offset(l, c) \in Nat /\ m \in Nat \ {0} /\ Offset(l, c) + m <= p
      /\ Offset(k, d) \in Nat /\ n \in Nat \ {0} /\ Offset(k, d) + n <= p /\ p \in Nat
  BY OffsetFacts, PageFacts, CacheFacts
<1>4. /\ g \in Int
      /\ a.gva + Offset(l, c) <= g /\ g < a.gva + Offset(l, c) + m
      /\ b.gva + Offset(k, d) <= g /\ g < b.gva + Offset(k, d) + n
  BY <1>1, <1>2, <1>3, EntryIs DEF EntryGva
<1>. HIDE DEF p
<1>5. a = b
  <2>. SUFFICES ASSUME a # b PROVE FALSE
    OBVIOUS
  <2>1. a.gva + p <= b.gva \/ b.gva + p <= a.gva
    BY PlaceAssumption DEF Apart, p
  <2>. HIDE DEF m, n
  <2>. QED BY <1>2, <1>3, <1>4, <2>1
<1>6. ~(l < k \/ (l = k /\ c < d))
  <2>. SUFFICES ASSUME l < k \/ (l = k /\ c < d) PROVE FALSE
    OBVIOUS
  <2>1. Offset(l, c) + m <= Offset(k, d)
    BY OffsetsApart
  <2>. HIDE DEF m, n
  <2>. QED BY <1>2, <1>3, <1>4, <1>5, <2>1
<1>7. ~(k < l \/ (k = l /\ d < c))
  <2>. SUFFICES ASSUME k < l \/ (k = l /\ d < c) PROVE FALSE
    OBVIOUS
  <2>1. Offset(k, d) + n <= Offset(l, c)
    BY OffsetsApart
  <2>. HIDE DEF m, n
  <2>. QED BY <1>2, <1>3, <1>4, <1>5, <2>1
<1>8. l \in Int /\ k \in Int /\ c \in Int /\ d \in Int
  BY DEF Layers, Columns
<1>. QED BY <1>5, <1>6, <1>7, <1>8

\* A place in the list of caches is one column of one layer.
LEMMA FlatInjective ==
  ASSUME NEW l \in Layers, NEW c \in Columns, NEW k \in Layers, NEW d \in Columns,
         FlatOf(l, c) = FlatOf(k, d)
  PROVE  l = k /\ c = d
<1>. DEFINE C == CachesPerLayer
<1>1. C \in Nat /\ l \in Nat /\ k \in Nat /\ c \in 1..C /\ d \in 1..C /\ l * C + c = k * C + d
  BY CacheFacts DEF Layers, Columns, FlatOf
<1>. HIDE DEF C
<1>2. ~(l < k)
  <2>. SUFFICES ASSUME l < k PROVE FALSE
    OBVIOUS
  <2>1. l * C \in Nat /\ k * C \in Nat /\ l * C + C <= k * C
    BY <1>1, ProductRises
  <2>. QED BY <1>1, <2>1
<1>3. ~(k < l)
  <2>. SUFFICES ASSUME k < l PROVE FALSE
    OBVIOUS
  <2>1. l * C \in Nat /\ k * C \in Nat /\ k * C + C <= l * C
    BY <1>1, ProductRises
  <2>. QED BY <1>1, <2>1
<1>4. l = k
  BY <1>1, <1>2, <1>3
<1>. QED BY <1>1, <1>4

\* No byte of HBM belongs to two entries of what is loaded.
LEMMA HbmPlaces ==
  ASSUME NEW task \in LoadTasks, Covered(task), NEW a \in Named(task), NEW b \in Named(task),
         NEW l \in Layers, NEW c \in Columns, NEW k \in Layers, NEW d \in Columns,
         NEW x, x \in EntryAddr(Entry(a, l, c)), x \in EntryAddr(Entry(b, k, d))
  PROVE  a = b /\ l = k /\ c = d
<1>. DEFINE f == FlatOf(l, c)  g == FlatOf(k, d)
            s == BaseAddr[f] + a.id * BlockStride[f]  t == BaseAddr[g] + b.id * BlockStride[g]
<1>1. a \in BlockType /\ b \in BlockType /\ a.id \in Nat /\ b.id \in Nat
  BY SharedFacts DEF IsTask, BlockType
<1>2. f \in 1..Caches /\ g \in 1..Caches /\ BlockLen[f] \in Nat \ {0} /\ BlockLen[g] \in Nat \ {0}
  BY OffsetFacts
<1>3. s \in Nat /\ t \in Nat
  BY <1>1, EntryIs DEF EntryType
<1>4. x \in Int /\ s <= x /\ x < s + BlockLen[f] /\ t <= x /\ x < t + BlockLen[g]
  <2>1. x \in s..s + BlockLen[f] - 1 /\ x \in t..t + BlockLen[g] - 1
    BY <1>1, EntryIs DEF EntryAddr
  <2>. HIDE DEF s, t, f, g
  <2>. QED BY <1>2, <1>3, <2>1
<1>5. f = g
  <2>. SUFFICES ASSUME f # g PROVE FALSE
    OBVIOUS
  <2>1. f \in DOMAIN BlockLen /\ g \in DOMAIN BlockLen
    BY <1>2, ByteAssumption, LenProperties DEF Caches
  <2>. HIDE DEF f, g
  <2>2. Apart(s, BlockLen[f], t, BlockLen[g])
    BY <2>1, PlaceAssumption
  <2>3. s + BlockLen[f] <= t \/ t + BlockLen[g] <= s
    BY <2>2 DEF Apart
  <2>. HIDE DEF s, t
  <2>. QED BY <1>2, <1>3, <1>4, <2>3
<1>6. l = k /\ c = d
  BY <1>5, FlatInjective
<1>7. BlockStride[f] \in Nat /\ BlockStride[f] >= BlockLen[f] /\ BaseAddr[f] \in Nat
  BY <1>2, ByteAssumption, ElementOfSeq, LenProperties DEF Caches
<1>8. s = BaseAddr[f] + a.id * BlockStride[f] /\ t = BaseAddr[f] + b.id * BlockStride[f]
  BY <1>5
<1>. HIDE DEF f, g, s, t
<1>9. ~(a.id < b.id)
  <2>. SUFFICES ASSUME a.id < b.id PROVE FALSE
    OBVIOUS
  <2>1. /\ a.id * BlockStride[f] + BlockStride[f] <= b.id * BlockStride[f]
        /\ a.id * BlockStride[f] \in Nat /\ b.id * BlockStride[f] \in Nat
    BY <1>1, <1>7, ProductRises
  <2>. QED BY <1>2, <1>4, <1>7, <1>8, <2>1
<1>10. ~(b.id < a.id)
  <2>. SUFFICES ASSUME b.id < a.id PROVE FALSE
    OBVIOUS
  <2>1. /\ b.id * BlockStride[f] + BlockStride[f] <= a.id * BlockStride[f]
        /\ a.id * BlockStride[f] \in Nat /\ b.id * BlockStride[f] \in Nat
    BY <1>1, <1>7, ProductRises
  <2>. QED BY <1>2, <1>4, <1>5, <1>7, <1>8, <2>1
<1>11. a.id = b.id
  BY <1>1, <1>9, <1>10
<1>. QED BY <1>6, <1>11, PlaceAssumption

\* The entries of a layer: each cache of each block.
LEMMA EntriesFacts ==
  ASSUME NEW task, IsTask(task), NEW l \in Layers
  PROVE  /\ Entries(task, l) \in Seq(EntryType)
         /\ \A b \in Named(task) : \A c \in Columns : Entry(b, l, c) \in Range(Entries(task, l))
         /\ \A e \in Range(Entries(task, l)) :
              \E b \in Named(task) : \E c \in Columns : e = Entry(b, l, c)
<1>. DEFINE s == Shared(task)
            row(i) == [c \in 1..CachesPerLayer |-> Entry(s[i], l, c)]
            ss == [i \in DOMAIN s |-> row(i)]
<1>1. s \in Seq(BlockType) /\ Range(s) = Named(task) /\ Named(task) \subseteq BlockType
      /\ DOMAIN s = 1..Len(s) /\ Len(s) \in Nat
  BY SharedFacts
<1>. HIDE DEF s
<1>2. \A i \in DOMAIN s : s[i] \in Named(task) /\ s[i] \in BlockType
  BY <1>1 DEF Range
<1>3. CachesPerLayer \in Nat /\ Columns = 1..CachesPerLayer
  BY CacheFacts DEF Columns
<1>4. \A i \in DOMAIN s : row(i) \in Seq(EntryType) /\ DOMAIN row(i) = Columns
  <2>. SUFFICES ASSUME NEW i \in DOMAIN s PROVE row(i) \in Seq(EntryType) /\ DOMAIN row(i) = Columns
    OBVIOUS
  <2>1. \A c \in Columns : Entry(s[i], l, c) \in EntryType
    BY <1>2, EntryIs
  <2>2. row(i) \in [1..CachesPerLayer -> EntryType]
    BY <1>3, <2>1
  <2>. QED BY <1>3, <2>2
<1>. HIDE DEF row
<1>5. ss \in Seq(Seq(EntryType)) /\ DOMAIN ss = DOMAIN s
  BY <1>1, <1>4
<1>6. \A i \in DOMAIN s : ss[i] = row(i)
  OBVIOUS
<1>7. Entries(task, l) = FlattenSeq(ss)
  BY DEF Entries, s, row
<1>. HIDE DEF ss
<1>8. Entries(task, l) \in Seq(EntryType)
      /\ Range(Entries(task, l)) = UNION {Range(row(i)) : i \in DOMAIN s}
  BY <1>5, <1>6, <1>7, FlattenFacts
<1>9. \A i \in DOMAIN s : Range(row(i)) = {Entry(s[i], l, c) : c \in Columns}
  <2>. SUFFICES ASSUME NEW i \in DOMAIN s PROVE Range(row(i)) = {Entry(s[i], l, c) : c \in Columns}
    OBVIOUS
  <2>1. \A c \in Columns : row(i)[c] = Entry(s[i], l, c)
    BY <1>3 DEF row
  <2>. QED BY <1>4, <2>1 DEF Range
<1>10. \A b \in Named(task) : \E i \in DOMAIN s : s[i] = b
  BY <1>1 DEF Range
<1>. QED BY <1>2, <1>8, <1>9, <1>10

-----------------------------------------------------------------------------
(* Packets *)

\* A piece of an entry, at the same distance in HBM and in the pool.
Part(p, e) ==
  \E o \in Nat : /\ p.addr = e.addr + o /\ p.gva = e.gva + o
                 /\ p.size \in Nat \ {0} /\ o + p.size <= e.size

\* Division is the usual one.
LEMMA DivFacts ==
  ASSUME NEW a \in Nat, NEW b \in Nat \ {0}
  PROVE  a \div b \in Nat /\ b * (a \div b) <= a /\ a < b * (a \div b) + b
  OBVIOUS

\* A packet is a piece of its entry.
LEMMA PacketFacts ==
  ASSUME NEW e \in EntryType, NEW max \in Nat \ {0}
  PROVE  /\ Count(e, max) \in Nat \ {0}
         /\ \A k \in Nat : k < Count(e, max) =>
              Packet(e, k, max) \in EntryType /\ Part(Packet(e, k, max), e)
         /\ \A o \in 0..e.size - 1 : \E k \in Nat :
              /\ k < Count(e, max)
              /\ e.gva + o \in EntryGva(Packet(e, k, max))
              /\ e.addr + o \in EntryAddr(Packet(e, k, max))
<1>. DEFINE n == Count(e, max)  z == e.size
<1>1. z \in Nat \ {0} /\ e.addr \in Nat /\ e.gva \in Nat
  BY DEF EntryType
<1>2. n = (z + max - 1) \div max
  BY DEF Count
<1>. HIDE DEF n, z
<1>3. n \in Nat /\ max * n <= z + max - 1 /\ z + max - 1 < max * n + max
  BY <1>1, <1>2, DivFacts
<1>4. max * n >= z /\ n # 0
  BY <1>1, <1>3
<1>5. ASSUME NEW k \in Nat, k < n
      PROVE  Packet(e, k, max) \in EntryType /\ Part(Packet(e, k, max), e)
  <2>. DEFINE o == k * max  m == IF max < z - o THEN max ELSE z - o
  <2>1. o \in Nat /\ n * max \in Nat /\ o + max <= n * max /\ n * max = max * n
    BY <1>3, <1>5, ProductRises
  <2>2. o + 1 <= z
    BY <1>1, <1>3, <2>1
  <2>3. Packet(e, k, max) = [addr |-> e.addr + o, gva |-> e.gva + o, size |-> m]
    BY DEF Packet, z
  <2>. HIDE DEF o
  <2>4. m \in Nat \ {0} /\ o + m <= z
    BY <1>1, <2>1, <2>2
  <2>. HIDE DEF m
  <2>. QED BY <1>1, <2>1, <2>3, <2>4 DEF EntryType, Part, z
<1>6. ASSUME NEW o \in 0..z - 1
      PROVE  \E k \in Nat : /\ k < n
                            /\ e.gva + o \in EntryGva(Packet(e, k, max))
                            /\ e.addr + o \in EntryAddr(Packet(e, k, max))
  <2>. DEFINE k == o \div max  q == k * max  m == IF max < z - q THEN max ELSE z - q
  <2>1. o \in Nat /\ o < z
    BY <1>1
  <2>2. k \in Nat /\ max * k <= o /\ o < max * k + max
    BY <2>1, DivFacts
  <2>. HIDE DEF k
  <2>3. q \in Nat /\ q = max * k
    BY <2>2
  <2>4. k < n
    <3>. SUFFICES ASSUME ~(k < n) PROVE FALSE
      OBVIOUS
    <3>1. n = k \/ n < k
      BY <1>3, <2>2
    <3>2. n * max = max * n
      BY <1>3
    <3>3. n * max <= k * max
      BY <1>3, <2>2, <3>1, ProductRises
    <3>. QED BY <1>1, <1>3, <1>4, <2>1, <2>2, <2>3, <3>2, <3>3
  <2>5. Packet(e, k, max) = [addr |-> e.addr + q, gva |-> e.gva + q, size |-> m]
    BY DEF Packet, z
  <2>. HIDE DEF q
  <2>6. m \in Nat /\ q <= o /\ o < q + m
    BY <1>1, <2>1, <2>2, <2>3
  <2>. HIDE DEF m
  <2>7. e.gva + o \in e.gva + q..e.gva + q + m - 1 /\ e.addr + o \in e.addr + q..e.addr + q + m - 1
    BY <1>1, <2>1, <2>3, <2>6
  <2>. QED BY <2>2, <2>4, <2>5, <2>7 DEF EntryGva, EntryAddr
<1>. QED BY <1>3, <1>4, <1>5, <1>6 DEF n, z

\* Finitely many numbers have a greatest one.
LEMMA GreatestOf ==
  ASSUME NEW n \in Nat \ {0}, NEW f \in [1..n -> Nat]
  PROVE  \E m \in 1..n : \A i \in 1..n : f[i] <= f[m]
<1>. DEFINE Top(j) == \E m \in 1..j : \A i \in 1..j : f[i] <= f[m]
            Bad == {j \in 1..n : ~Top(j)}
<1>. SUFFICES ASSUME Bad # {} PROVE FALSE
  <2>. n \in 1..n
    OBVIOUS
  <2>. QED BY Zenon
<1>1. PICK j \in Bad : \A k \in Bad : j <= k
  <2>. Bad \subseteq Nat
    OBVIOUS
  <2>. QED BY LeastNatural
<1>2. j \in 1..n /\ ~Top(j)
  OBVIOUS
<1>3. CASE j = 1
  <2>1. 1 \in 1..1 /\ \A i \in 1..1 : f[i] <= f[1]
    BY <1>2, <1>3
  <2>. QED BY <1>2, <1>3, <2>1
<1>4. CASE j # 1
  <2>1. j - 1 \in 1..n /\ ~(j <= j - 1) /\ j - 1 \in Nat
    BY <1>2, <1>4
  <2>2. Top(j - 1)
    BY <1>1, <2>1
  <2>3. PICK m \in 1..j - 1 : \A i \in 1..j - 1 : f[i] <= f[m]
    BY <2>2
  <2>4. \A i \in 1..j : i \in 1..j - 1 \/ i = j
    BY <1>2
  <2>5. m \in 1..j /\ j \in 1..j /\ f[m] \in Nat /\ f[j] \in Nat /\ \A i \in 1..j : f[i] \in Nat
    BY <1>2, <2>1
  <2>6. CASE f[j] <= f[m]
    <3>. \A i \in 1..j : f[i] <= f[m]
      BY <2>3, <2>4, <2>6
    <3>. QED BY <1>2, <2>5
  <2>7. CASE ~(f[j] <= f[m])
    <3>. HIDE DEF Top, Bad
    <3>1. ASSUME NEW i \in 1..j PROVE f[i] <= f[j]
      <4>1. CASE i = j
        BY <2>5, <4>1
      <4>2. CASE i \in 1..j - 1
        <5>1. f[i] <= f[m] /\ f[i] \in Nat
          BY <2>3, <2>5, <4>2
        <5>. QED BY <2>5, <2>7, <5>1
      <4>. QED BY <2>4, <4>1, <4>2
    <3>. QED BY <1>2, <2>5, <3>1 DEF Top
  <2>. QED BY <2>6, <2>7
<1>. QED BY <1>3, <1>4

\* The k-th packets of the entries that have so many.
Kth(entries, k, max) ==
  FlattenSeq([i \in DOMAIN entries |->
    IF k < Count(entries[i], max) THEN <<Packet(entries[i], k, max)>> ELSE << >>])

\* The k-th packets are those of the entries that have as many.
LEMMA KthFacts ==
  ASSUME NEW entries \in Seq(EntryType), NEW k \in Nat, NEW max \in Nat \ {0}
  PROVE  /\ Kth(entries, k, max) \in Seq(EntryType)
         /\ \A p : p \in Range(Kth(entries, k, max)) <=>
              \E i \in DOMAIN entries :
                k < Count(entries[i], max) /\ p = Packet(entries[i], k, max)
<1>. DEFINE one(i) == IF k < Count(entries[i], max) THEN <<Packet(entries[i], k, max)>> ELSE << >>
            ss == [i \in DOMAIN entries |-> one(i)]
<1>1. DOMAIN entries = 1..Len(entries) /\ Len(entries) \in Nat
      /\ \A i \in DOMAIN entries : entries[i] \in EntryType
  BY LenProperties, ElementOfSeq
<1>2. ASSUME NEW i \in DOMAIN entries
      PROVE  /\ one(i) \in Seq(EntryType)
             /\ \A p : p \in Range(one(i)) <=>
                  k < Count(entries[i], max) /\ p = Packet(entries[i], k, max)
  <2>1. CASE k < Count(entries[i], max)
    <3>1. Packet(entries[i], k, max) \in EntryType /\ one(i) = <<Packet(entries[i], k, max)>>
      BY <1>1, <2>1, PacketFacts
    <3>. HIDE DEF one
    <3>2. one(i) \in Seq(EntryType) /\ Range(one(i)) = {Packet(entries[i], k, max)}
      BY <3>1 DEF Range
    <3>. QED BY <2>1, <3>2
  <2>2. CASE ~(k < Count(entries[i], max))
    <3>1. one(i) = << >>
      BY <2>2
    <3>. HIDE DEF one
    <3>2. one(i) \in Seq(EntryType) /\ DOMAIN one(i) = {}
      BY <3>1
    <3>3. Range(one(i)) = {}
      BY <3>2 DEF Range
    <3>. QED BY <2>2, <3>2, <3>3
  <2>. QED BY <2>1, <2>2
<1>3. Kth(entries, k, max) = FlattenSeq(ss)
  BY DEF Kth
<1>. HIDE DEF one
<1>4. ss \in Seq(Seq(EntryType)) /\ DOMAIN ss = DOMAIN entries
  BY <1>1, <1>2
<1>5. \A i \in DOMAIN entries : ss[i] = one(i)
  OBVIOUS
<1>. HIDE DEF ss
<1>6. Kth(entries, k, max) \in Seq(EntryType)
      /\ Range(Kth(entries, k, max)) = UNION {Range(one(i)) : i \in DOMAIN entries}
  BY <1>3, <1>4, <1>5, FlattenFacts
<1>. QED BY <1>2, <1>6

\* A piece of an interval lies in it.
LEMMA PieceInside ==
  ASSUME NEW x \in Nat, NEW z \in Nat, NEW o \in Nat, NEW s \in Nat, o + s <= z,
         NEW g \in x + o..x + o + s - 1
  PROVE  g \in x..x + z - 1
OBVIOUS

\* The places of an interval are its beginning and what is added.
LEMMA OffsetInside ==
  ASSUME NEW x \in Nat, NEW z \in Nat
  PROVE  /\ \A o \in 0..z - 1 : x + o \in x..x + z - 1
         /\ \A g \in x..x + z - 1 : g - x \in 0..z - 1 /\ g = x + (g - x)
OBVIOUS

\* A distance is the same from the beginning of a piece as from that of the whole.
LEMMA SameDistance ==
  ASSUME NEW x \in Nat, NEW y \in Nat, NEW o \in Nat, NEW g \in Int
  PROVE  y + o + g - (x + o) = y + (g - x)
OBVIOUS

\* The packets of a call are pieces of its entries and leave no byte out.
LEMMA SplitFacts ==
  ASSUME NEW entries \in Seq(EntryType), entries # << >>, NEW max \in Nat
  PROVE  /\ \A p \in Range(Split(entries, max)) :
              p \in EntryType /\ \E e \in Range(entries) : Part(p, e)
         /\ \A e \in Range(entries) : \A o \in 0..e.size - 1 :
              \E p \in Range(Split(entries, max)) :
                /\ Part(p, e) /\ e.gva + o \in EntryGva(p) /\ e.addr + o \in EntryAddr(p)
<1>1. DOMAIN entries = 1..Len(entries) /\ Len(entries) \in Nat \ {0}
      /\ \A i \in DOMAIN entries : entries[i] \in EntryType
  BY LenProperties, ElementOfSeq, EmptySeq
<1>2. \A e \in Range(entries) : e \in EntryType
  BY <1>1 DEF Range
<1>3. CASE max = 0 \/ \A i \in DOMAIN entries : Count(entries[i], max) = 1
  <2>1. Split(entries, max) = entries
    BY <1>3 DEF Split
  <2>2. \A e \in EntryType : Part(e, e) /\ \A o \in 0..e.size - 1 :
          e.gva + o \in EntryGva(e) /\ e.addr + o \in EntryAddr(e)
    <3>. SUFFICES ASSUME NEW e \in EntryType
                  PROVE  Part(e, e) /\ \A o \in 0..e.size - 1 :
                           e.gva + o \in EntryGva(e) /\ e.addr + o \in EntryAddr(e)
      OBVIOUS
    <3>1. e.gva \in Nat /\ e.addr \in Nat /\ e.size \in Nat \ {0}
      BY DEF EntryType
    <3>2. e.addr = e.addr + 0 /\ e.gva = e.gva + 0 /\ 0 + e.size <= e.size /\ 0 \in Nat
      BY <3>1
    <3>3. Part(e, e)
      BY <3>1, <3>2 DEF Part
    <3>4. ASSUME NEW o \in 0..e.size - 1
          PROVE  e.gva + o \in EntryGva(e) /\ e.addr + o \in EntryAddr(e)
      BY <3>1, OffsetInside DEF EntryGva, EntryAddr
    <3>. QED BY <3>3, <3>4
  <2>. QED BY <1>2, <2>1, <2>2
<1>4. CASE ~(max = 0 \/ \A i \in DOMAIN entries : Count(entries[i], max) = 1)
  <2>. DEFINE counts == {Count(entries[i], max) : i \in DOMAIN entries}
              most == Max(counts)
              ss == [k \in 1..most |-> Kth(entries, k - 1, max)]
  <2>1. max \in Nat \ {0}
    BY <1>4
  <2>2. \A i \in DOMAIN entries : Count(entries[i], max) \in Nat \ {0}
    BY <1>1, <2>1, PacketFacts
  <2>3. most \in Nat /\ \A i \in DOMAIN entries : Count(entries[i], max) <= most
    <3>. DEFINE f == [i \in 1..Len(entries) |-> Count(entries[i], max)]
    <3>1. f \in [1..Len(entries) -> Nat]
      BY <1>1, <2>2
    <3>2. \A i \in 1..Len(entries) : f[i] = Count(entries[i], max)
      OBVIOUS
    <3>. HIDE DEF f
    <3>3. PICK m \in 1..Len(entries) : \A i \in 1..Len(entries) : f[i] <= f[m]
      BY <1>1, <3>1, GreatestOf
    <3>4. Count(entries[m], max) \in counts /\ \A x \in counts : x <= Count(entries[m], max)
      BY <1>1, <3>2, <3>3
    <3>5. counts \subseteq Nat
      BY <2>2
    <3>6. \A i \in DOMAIN entries : Count(entries[i], max) \in counts
      OBVIOUS
    <3>. HIDE DEF counts
    <3>7. most \in counts /\ \A x \in counts : x <= most
      BY <3>4, <3>5 DEF Max
    <3>. QED BY <3>5, <3>6, <3>7
  <2>4. Split(entries, max) = FlattenSeq(ss)
    BY <1>4 DEF Split, Kth
  <2>. HIDE DEF most
  <2>5. \A k \in 1..most : k - 1 \in Nat /\ Kth(entries, k - 1, max) \in Seq(EntryType)
    BY <2>1, <2>3, KthFacts
  <2>6. ss \in Seq(Seq(EntryType)) /\ DOMAIN ss = 1..most
    BY <2>3, <2>5
  <2>7. \A k \in 1..most : ss[k] = Kth(entries, k - 1, max)
    OBVIOUS
  <2>. HIDE DEF ss
  <2>8. FlattenSeq(ss) \in Seq(EntryType)
        /\ Range(FlattenSeq(ss)) = UNION {Range(ss[k]) : k \in DOMAIN ss}
    BY <2>6, FlattenFacts
  <2>9. \A p : p \in Range(Split(entries, max)) <=>
          \E k \in 1..most : \E i \in DOMAIN entries :
            k - 1 < Count(entries[i], max) /\ p = Packet(entries[i], k - 1, max)
    <3>1. \A p : p \in Range(Split(entries, max)) <=>
            \E k \in 1..most : p \in Range(Kth(entries, k - 1, max))
      BY <2>4, <2>6, <2>7, <2>8
    <3>2. \A k \in 1..most : \A p : p \in Range(Kth(entries, k - 1, max)) <=>
            \E i \in DOMAIN entries :
              k - 1 < Count(entries[i], max) /\ p = Packet(entries[i], k - 1, max)
      BY <2>1, <2>5, KthFacts
    <3>. DEFINE In(k, p) == p \in Range(Kth(entries, k - 1, max))
                Is(k, p) == \E i \in DOMAIN entries :
                              k - 1 < Count(entries[i], max) /\ p = Packet(entries[i], k - 1, max)
    <3>3. \A k \in 1..most : \A p : In(k, p) <=> Is(k, p)
      BY <3>2
    <3>4. \A p : p \in Range(Split(entries, max)) <=> \E k \in 1..most : In(k, p)
      BY <3>1
    <3>. HIDE DEF In, Is
    <3>5. \A p : p \in Range(Split(entries, max)) <=> \E k \in 1..most : Is(k, p)
      BY <3>3, <3>4
    <3>. QED BY <3>5 DEF Is
  <2>10. ASSUME NEW p \in Range(Split(entries, max))
         PROVE  p \in EntryType /\ \E e \in Range(entries) : Part(p, e)
    <3>1. PICK k \in 1..most, i \in DOMAIN entries :
            k - 1 < Count(entries[i], max) /\ p = Packet(entries[i], k - 1, max)
      BY <2>9
    <3>2. p \in EntryType /\ Part(p, entries[i])
      BY <1>1, <2>1, <2>5, <3>1, PacketFacts
    <3>. QED BY <3>2 DEF Range
  <2>11. ASSUME NEW e \in Range(entries), NEW o \in 0..e.size - 1
         PROVE  \E p \in Range(Split(entries, max)) :
                  Part(p, e) /\ e.gva + o \in EntryGva(p) /\ e.addr + o \in EntryAddr(p)
    <3>1. PICK k \in Nat : /\ k < Count(e, max)
                           /\ e.gva + o \in EntryGva(Packet(e, k, max))
                           /\ e.addr + o \in EntryAddr(Packet(e, k, max))
      BY <1>2, <2>1, PacketFacts
    <3>2. Part(Packet(e, k, max), e)
      BY <1>2, <2>1, <3>1, PacketFacts
    <3>3. PICK i \in DOMAIN entries : e = entries[i]
      BY DEF Range
    <3>4. k + 1 \in 1..most /\ k + 1 - 1 = k
      BY <2>2, <2>3, <3>1, <3>3
    <3>5. Packet(e, k, max) \in Range(Split(entries, max))
      BY <2>9, <3>1, <3>3, <3>4
    <3>. QED BY <3>1, <3>2, <3>5
  <2>. QED BY <2>10, <2>11
<1>. QED BY <1>3, <1>4

\* What a load takes from a pool address.
FromPool(held, g) == IF g \in DOMAIN held THEN held[g] ELSE -1

\* A call copies its entries: every byte of each, and each to its place.
LEMMA CopyFacts ==
  ASSUME NEW entries \in Seq(EntryType), entries # << >>, NEW max \in Nat,
         NEW packets, packets = Split(entries, max)
  PROVE  /\ \A e \in Range(entries) : EntryGva(e) \subseteq Written(packets)
                                      /\ EntryAddr(e) \subseteq Read(packets)
         /\ \A g \in Written(packets) : \E e \in Range(entries) :
              g \in EntryGva(e) /\ Saved(packets, g) = e.addr + (g - e.gva)
         /\ \A a \in Read(packets) : \E e \in Range(entries) :
              a \in EntryAddr(e) /\ Loaded(packets, a) = FromPool(pool, e.gva + (a - e.addr))
<1>1. \A e \in Range(entries) : e \in EntryType
  BY RangeOfSeq
<1>2. \A p \in Range(packets) : p \in EntryType /\ \E e \in Range(entries) : Part(p, e)
  BY SplitFacts
<1>3. ASSUME NEW e \in Range(entries)
      PROVE  EntryGva(e) \subseteq Written(packets) /\ EntryAddr(e) \subseteq Read(packets)
  <2>1. e.gva \in Nat /\ e.addr \in Nat /\ e.size \in Nat
    BY <1>1 DEF EntryType
  <2>2. ASSUME NEW g \in EntryGva(e) PROVE g \in Written(packets)
    <3>1. g - e.gva \in 0..e.size - 1 /\ g = e.gva + (g - e.gva)
      BY <2>1 DEF EntryGva
    <3>2. PICK p \in Range(packets) : g \in EntryGva(p)
      BY <3>1, SplitFacts
    <3>. QED BY <3>2 DEF Written, EntryGva
  <2>3. ASSUME NEW a \in EntryAddr(e) PROVE a \in Read(packets)
    <3>1. a - e.addr \in 0..e.size - 1 /\ a = e.addr + (a - e.addr)
      BY <2>1 DEF EntryAddr
    <3>2. PICK p \in Range(packets) : a \in EntryAddr(p)
      BY <3>1, SplitFacts
    <3>. QED BY <3>2 DEF Read, EntryAddr
  <2>. QED BY <2>2, <2>3
<1>4. ASSUME NEW p \in EntryType, NEW e \in EntryType, Part(p, e)
      PROVE  /\ \A g \in EntryGva(p) : g \in EntryGva(e) /\ p.addr + g - p.gva = e.addr + (g - e.gva)
             /\ \A a \in EntryAddr(p) : a \in EntryAddr(e) /\ p.gva + a - p.addr = e.gva + (a - e.addr)
  <2>1. PICK o \in Nat : p.addr = e.addr + o /\ p.gva = e.gva + o /\ o + p.size <= e.size
    BY <1>4 DEF Part
  <2>2. e.gva \in Nat /\ e.addr \in Nat /\ e.size \in Nat /\ p.size \in Nat
    BY DEF EntryType
  <2>3. ASSUME NEW g \in EntryGva(p)
        PROVE  g \in EntryGva(e) /\ p.addr + g - p.gva = e.addr + (g - e.gva)
    <3>1. g \in e.gva + o..e.gva + o + p.size - 1
      BY <2>1 DEF EntryGva
    <3>2. g \in e.gva..e.gva + e.size - 1
      BY <2>1, <2>2, <3>1, PieceInside
    <3>3. p.addr + g - p.gva = e.addr + (g - e.gva)
      BY <2>1, <2>2, <3>2, SameDistance
    <3>. QED BY <3>2, <3>3 DEF EntryGva
  <2>4. ASSUME NEW a \in EntryAddr(p)
        PROVE  a \in EntryAddr(e) /\ p.gva + a - p.addr = e.gva + (a - e.addr)
    <3>1. a \in e.addr + o..e.addr + o + p.size - 1
      BY <2>1 DEF EntryAddr
    <3>2. a \in e.addr..e.addr + e.size - 1
      BY <2>1, <2>2, <3>1, PieceInside
    <3>3. p.gva + a - p.addr = e.gva + (a - e.addr)
      BY <2>1, <2>2, <3>2, SameDistance
    <3>. QED BY <3>2, <3>3 DEF EntryAddr
  <2>. QED BY <2>3, <2>4
<1>5. ASSUME NEW g \in Written(packets)
      PROVE  \E e \in Range(entries) :
               g \in EntryGva(e) /\ Saved(packets, g) = e.addr + (g - e.gva)
  <2>. DEFINE p == CHOOSE p \in Range(packets) : g \in p.gva..p.gva + p.size - 1
  <2>1. \E q \in Range(packets) : g \in q.gva..q.gva + q.size - 1
    BY DEF Written
  <2>2. p \in Range(packets) /\ g \in p.gva..p.gva + p.size - 1
    BY <2>1
  <2>3. Saved(packets, g) = p.addr + g - p.gva
    BY DEF Saved
  <2>. HIDE DEF p
  <2>4. PICK e \in Range(entries) : Part(p, e)
    BY <1>2, <2>2
  <2>5. g \in EntryGva(p) /\ p \in EntryType /\ e \in EntryType
    BY <1>1, <1>2, <2>2 DEF EntryGva
  <2>. QED BY <1>4, <2>3, <2>4, <2>5
<1>6. ASSUME NEW a \in Read(packets)
      PROVE  \E e \in Range(entries) :
               a \in EntryAddr(e) /\ Loaded(packets, a) = FromPool(pool, e.gva + (a - e.addr))
  <2>. DEFINE p == CHOOSE p \in Range(packets) : a \in p.addr..p.addr + p.size - 1
  <2>1. \E q \in Range(packets) : a \in q.addr..q.addr + q.size - 1
    BY DEF Read
  <2>2. p \in Range(packets) /\ a \in p.addr..p.addr + p.size - 1
    BY <2>1
  <2>3. Loaded(packets, a) = FromPool(pool, p.gva + a - p.addr)
    BY DEF Loaded, FromPool
  <2>. HIDE DEF p
  <2>4. PICK e \in Range(entries) : Part(p, e)
    BY <1>2, <2>2
  <2>5. a \in EntryAddr(p) /\ p \in EntryType /\ e \in EntryType
    BY <1>1, <1>2, <2>2 DEF EntryAddr
  <2>6. a \in EntryAddr(e) /\ p.gva + a - p.addr = e.gva + (a - e.addr)
    BY <1>4, <2>4, <2>5
  <2>. QED BY <2>3, <2>6
<1>. QED BY <1>3, <1>5, <1>6

\* A call takes a first part of what is to be done.
LEMMA CallFacts ==
  ASSUME todo \in Seq(EntryType), todo # << >>, limits \in Limits
  PROVE  LET n == CallSize(todo) IN
         /\ SubSeq(todo, 1, n) \in Seq(EntryType) /\ SubSeq(todo, 1, n) # << >>
         /\ SubSeq(todo, n + 1, Len(todo)) \in Seq(EntryType)
         /\ Range(todo) = Range(SubSeq(todo, 1, n)) \cup Range(SubSeq(todo, n + 1, Len(todo)))
<1>. DEFINE n == CallSize(todo)  s == SubSeq(todo, 1, n)  t == SubSeq(todo, n + 1, Len(todo))
<1>1. Len(todo) \in Nat \ {0} /\ DOMAIN todo = 1..Len(todo)
      /\ \A i \in 1..Len(todo) : todo[i] \in EntryType
  BY LenProperties, ElementOfSeq, EmptySeq
<1>2. limits[1] \in Nat /\ Len(BlockLen) \in Nat \ {0}
  BY ByteAssumption, LenToFacts DEF Caches
<1>3. n \in 1..Len(todo)
  <2>1. CASE limits[1] = 0 \/ limits[1] * Len(BlockLen) > Len(todo)
    BY <1>1, <2>1 DEF CallSize
  <2>2. CASE ~(limits[1] = 0 \/ limits[1] * Len(BlockLen) > Len(todo))
    <3>. DEFINE m == Len(BlockLen)  k == limits[1]
    <3>1. k \in Nat \ {0} /\ m \in Nat \ {0} /\ n = k * m /\ ~(n > Len(todo))
      BY <1>2, <2>2 DEF CallSize
    <3>. HIDE DEF n, m, k
    <3>2. (k - 1) * m \in Nat /\ k * m = (k - 1) * m + m
      BY <3>1
    <3>. QED BY <1>1, <3>1, <3>2
  <2>. QED BY <2>1, <2>2
<1>. HIDE DEF n
<1>4. s \in Seq(EntryType) /\ Len(s) = n /\ \A i \in 1..n : s[i] = todo[i]
  BY <1>1, <1>3, SubSeqProperties
<1>5. t \in Seq(EntryType) /\ Len(t) = Len(todo) - n /\ \A i \in 1..Len(todo) - n : t[i] = todo[n + i]
  <2>. DEFINE L == Len(todo)  m == n + 1
  <2>1. L \in Nat /\ m \in Int /\ \A i \in m..L : todo[i] \in EntryType
    BY <1>1, <1>3
  <2>. HIDE DEF L
  <2>0. L \in Nat \ {0} /\ n \in 1..L
    BY <1>1, <1>3 DEF L
  <2>2. /\ L - m + 1 = L - n /\ (IF m <= L THEN L - m + 1 ELSE 0) = L - n
        /\ \A i \in 1..L - n : m + i - 1 = n + i
    BY <2>0
  <2>. HIDE DEF m
  <2>3. /\ SubSeq(todo, m, L) \in Seq(EntryType)
        /\ Len(SubSeq(todo, m, L)) = IF m <= L THEN L - m + 1 ELSE 0
        /\ \A i \in 1..L - m + 1 : SubSeq(todo, m, L)[i] = todo[m + i - 1]
    BY <2>1, SubSeqProperties
  <2>. QED BY <2>2, <2>3 DEF L, m
<1>. HIDE DEF s, t
<1>6. s # << >> /\ DOMAIN s = 1..n /\ DOMAIN t = 1..Len(todo) - n
  BY <1>3, <1>4, <1>5
<1>7. Range(todo) = Range(s) \cup Range(t)
  <2>1. ASSUME NEW i \in 1..Len(todo) PROVE todo[i] \in Range(s) \cup Range(t)
    <3>1. CASE i <= n
      <4>1. i \in 1..n
        BY <1>3, <3>1
      <4>. QED BY <1>4, <1>6, <4>1 DEF Range
    <3>2. CASE ~(i <= n)
      <4>1. i - n \in 1..Len(todo) - n /\ n + (i - n) = i
        BY <1>1, <1>3, <3>2
      <4>. QED BY <1>5, <1>6, <4>1 DEF Range
    <3>. QED BY <3>1, <3>2
  <2>2. \A i \in 1..n : s[i] \in Range(todo)
    BY <1>1, <1>3, <1>4 DEF Range
  <2>3. ASSUME NEW i \in 1..Len(todo) - n PROVE t[i] \in Range(todo)
    <3>1. n + i \in 1..Len(todo)
      BY <1>1, <1>3
    <3>. QED BY <1>1, <1>5, <3>1 DEF Range
  <2>4. Range(todo) = {todo[i] : i \in 1..Len(todo)}
    BY <1>1 DEF Range
  <2>5. Range(s) = {s[i] : i \in 1..n} /\ Range(t) = {t[i] : i \in 1..Len(todo) - n}
    BY <1>6 DEF Range
  <2>. QED BY <2>1, <2>2, <2>3, <2>4, <2>5
<1>. QED BY <1>4, <1>5, <1>6, <1>7 DEF s, t, n

-----------------------------------------------------------------------------
(* The inductive invariant *)

Moved == IF phase = "save" THEN saveTask ELSE loadTask

\* What is to be copied belongs to the layer at hand.
TypeInv ==
  /\ saveTask \in SaveTasks /\ loadTask \in LoadTasks /\ limits \in Limits
  /\ Covered(saveTask) /\ Covered(loadTask)
  /\ phase \in {"save", "load", "done"} /\ layer \in Layers
  /\ todo \in Seq(EntryType) /\ Range(todo) \subseteq Range(Entries(Moved, layer))
  /\ phase = "done" => todo = << >>

\* What the pool holds is what an entry saved put there.
PoolInv ==
  \A g \in DOMAIN pool :
    \E b \in Named(saveTask) : \E l \in Layers : \E c \in Columns :
      LET e == Entry(b, l, c) IN g \in EntryGva(e) /\ pool[g] = e.addr + (g - e.gva)

\* What was loaded is what the pool holds for an entry loaded.
BackInv ==
  /\ phase = "save" => DOMAIN back = {}
  /\ \A a \in DOMAIN back :
       \E b \in Named(loadTask) : \E l \in Layers : \E c \in Columns :
         LET e == Entry(b, l, c) IN a \in EntryAddr(e) /\ back[a] = FromPool(pool, e.gva + (a - e.addr))

\* A layer without failure is copied up to what is still to be done.
SavedInv ==
  \A l \in Layers \ failedSaves : \A b \in Named(saveTask) : \A c \in Columns :
    LET e == Entry(b, l, c) IN
    phase # "save" \/ l < layer \/ (l = layer /\ e \notin Range(todo)) =>
      EntryGva(e) \subseteq DOMAIN pool

LoadedInv ==
  \A l \in Layers \ failedLoads : \A b \in Named(loadTask) : \A c \in Columns :
    LET e == Entry(b, l, c) IN
    phase = "done" \/ (phase = "load" /\ (l < layer \/ (l = layer /\ e \notin Range(todo)))) =>
      EntryAddr(e) \subseteq DOMAIN back

ByteInv == TypeInv /\ PoolInv /\ BackInv /\ SavedInv /\ LoadedInv

\* At first nothing is copied and the first layer is to be.
LEMMA ByteInitially == ByteInit => ByteInv
<1>. SUFFICES ASSUME ByteInit PROVE ByteInv
  OBVIOUS
<1>1. /\ saveTask \in SaveTasks /\ loadTask \in LoadTasks /\ limits \in Limits
      /\ Covered(saveTask) /\ Covered(loadTask) /\ phase = "save" /\ layer = 0
      /\ todo = Entries(saveTask, 0) /\ pool = << >> /\ back = << >>
  BY DEF ByteInit
<1>2. 0 \in Layers /\ \A l \in Layers : l \in Nat
  BY CacheFacts DEF Layers
<1>3. IsTask(saveTask)
  BY <1>1 DEF IsTask
<1>4. DOMAIN pool = {} /\ DOMAIN back = {}
  BY <1>1
<1>5. TypeInv
  BY <1>1, <1>2, <1>3, EntriesFacts DEF TypeInv, Moved
<1>6. SavedInv
  BY <1>1, <1>2, <1>3, EntriesFacts DEF SavedInv
<1>. QED BY <1>1, <1>4, <1>5, <1>6 DEF ByteInv, PoolInv, BackInv, LoadedInv

\* A layer is left when nothing of it is to be done, and the next begins with
\* all its entries.
LEMMA NextLayerKeeps == ASSUME ByteInv, NextLayer PROVE ByteInv'
<1>1. /\ saveTask \in SaveTasks /\ loadTask \in LoadTasks /\ limits \in Limits
      /\ Covered(saveTask) /\ Covered(loadTask) /\ layer \in Layers
  BY DEF ByteInv, TypeInv
<1>2. /\ saveTask' = saveTask /\ loadTask' = loadTask /\ limits' = limits /\ pool' = pool
      /\ back' = back /\ failedSaves' = failedSaves /\ failedLoads' = failedLoads
      /\ phase \in {"save", "load"} /\ todo = << >>
  BY DEF NextLayer
<1>3. IsTask(saveTask) /\ IsTask(loadTask)
  BY <1>1 DEF IsTask
<1>4. /\ NumLayers \in Nat \ {0} /\ 0 \in Layers /\ Layers = 0..NumLayers - 1
      /\ \A l \in Layers : l \in Nat
  BY CacheFacts DEF Layers
<1>5. Range(todo) = {}
  BY <1>2 DEF Range
<1>6. PoolInv'
  BY <1>2 DEF ByteInv, PoolInv
<1>7. CASE phase = "save" /\ layer < NumLayers - 1
  <2>1. phase' = "save" /\ layer' = layer + 1 /\ todo' = Entries(saveTask, layer')
    BY <1>7 DEF NextLayer
  <2>2. layer' \in Layers
    BY <1>1, <1>4, <1>7, <2>1
  <2>3. TypeInv'
    BY <1>1, <1>2, <1>3, <2>1, <2>2, EntriesFacts DEF TypeInv, Moved
  <2>4. SavedInv'
    <3>. SUFFICES ASSUME NEW l \in Layers \ failedSaves, NEW b \in Named(saveTask),
                         NEW c \in Columns,
                         l < layer' \/ (l = layer' /\ Entry(b, l, c) \notin Range(todo'))
                  PROVE  EntryGva(Entry(b, l, c)) \subseteq DOMAIN pool
      BY <1>2, <2>1 DEF SavedInv
    <3>1. l # layer' \/ Entry(b, l, c) \in Range(todo')
      BY <1>3, <2>1, <2>2, EntriesFacts
    <3>2. l < layer \/ l = layer
      BY <1>1, <1>4, <2>1, <3>1
    <3>. QED BY <1>5, <3>2 DEF ByteInv, SavedInv
  <2>5. BackInv' /\ LoadedInv'
    BY <1>2, <1>7, <2>1 DEF ByteInv, BackInv, LoadedInv
  <2>. QED BY <1>6, <2>3, <2>4, <2>5 DEF ByteInv
<1>8. CASE phase = "save" /\ ~(layer < NumLayers - 1)
  <2>1. phase' = "load" /\ layer' = 0 /\ todo' = Entries(loadTask, 0)
    BY <1>8 DEF NextLayer
  <2>2. TypeInv'
    BY <1>1, <1>2, <1>3, <1>4, <2>1, EntriesFacts DEF TypeInv, Moved
  <2>3. SavedInv'
    <3>. SUFFICES ASSUME NEW l \in Layers \ failedSaves, NEW b \in Named(saveTask),
                         NEW c \in Columns
                  PROVE  EntryGva(Entry(b, l, c)) \subseteq DOMAIN pool
      BY <1>2 DEF SavedInv
    <3>1. l < layer \/ l = layer
      BY <1>1, <1>4, <1>8
    <3>. QED BY <1>5, <3>1 DEF ByteInv, SavedInv
  <2>4. LoadedInv'
    <3>. SUFFICES ASSUME NEW l \in Layers \ failedLoads, NEW b \in Named(loadTask),
                         NEW c \in Columns,
                         l < 0 \/ (l = 0 /\ Entry(b, l, c) \notin Range(todo'))
                  PROVE  FALSE
      BY <1>2, <2>1 DEF LoadedInv
    <3>. QED BY <1>3, <1>4, <2>1, EntriesFacts
  <2>5. BackInv'
    BY <1>2, <1>8, <2>1 DEF ByteInv, BackInv
  <2>. QED BY <1>6, <2>2, <2>3, <2>4, <2>5 DEF ByteInv
<1>9. CASE phase = "load" /\ layer < NumLayers - 1
  <2>1. phase' = "load" /\ layer' = layer + 1 /\ todo' = Entries(loadTask, layer')
    BY <1>9 DEF NextLayer
  <2>2. layer' \in Layers
    BY <1>1, <1>4, <1>9, <2>1
  <2>3. TypeInv'
    BY <1>1, <1>2, <1>3, <2>1, <2>2, EntriesFacts DEF TypeInv, Moved
  <2>4. SavedInv'
    BY <1>2, <1>9, <2>1 DEF ByteInv, SavedInv
  <2>5. LoadedInv'
    <3>. SUFFICES ASSUME NEW l \in Layers \ failedLoads, NEW b \in Named(loadTask),
                         NEW c \in Columns,
                         l < layer' \/ (l = layer' /\ Entry(b, l, c) \notin Range(todo'))
                  PROVE  EntryAddr(Entry(b, l, c)) \subseteq DOMAIN back
      BY <1>2, <2>1 DEF LoadedInv
    <3>1. l # layer' \/ Entry(b, l, c) \in Range(todo')
      BY <1>3, <2>1, <2>2, EntriesFacts
    <3>2. l < layer \/ l = layer
      BY <1>1, <1>4, <2>1, <3>1
    <3>. QED BY <1>5, <1>9, <3>2 DEF ByteInv, LoadedInv
  <2>6. BackInv'
    BY <1>2, <2>1 DEF ByteInv, BackInv
  <2>. QED BY <1>6, <2>3, <2>4, <2>5, <2>6 DEF ByteInv
<1>10. CASE phase = "load" /\ ~(layer < NumLayers - 1)
  <2>1. phase' = "done" /\ layer' = 0 /\ todo' = << >>
    BY <1>10 DEF NextLayer
  <2>2. TypeInv'
    <3>1. todo' \in Seq(EntryType) /\ Range(todo') = {}
      BY <1>5, <2>1, <1>2
    <3>. QED BY <1>1, <1>2, <1>4, <2>1, <3>1 DEF TypeInv
  <2>3. SavedInv'
    BY <1>2, <1>10, <2>1 DEF ByteInv, SavedInv
  <2>4. LoadedInv'
    <3>. SUFFICES ASSUME NEW l \in Layers \ failedLoads, NEW b \in Named(loadTask),
                         NEW c \in Columns
                  PROVE  EntryAddr(Entry(b, l, c)) \subseteq DOMAIN back
      BY <1>2 DEF LoadedInv
    <3>1. l < layer \/ l = layer
      BY <1>1, <1>4, <1>10
    <3>. QED BY <1>5, <1>10, <3>1 DEF ByteInv, LoadedInv
  <2>5. BackInv'
    BY <1>2, <2>1 DEF ByteInv, BackInv
  <2>. QED BY <1>6, <2>2, <2>3, <2>4, <2>5 DEF ByteInv
<1>. QED BY <1>2, <1>7, <1>8, <1>9, <1>10

\* A call that is not the last leaves a rest of the layer to be done, and a
\* failing one nothing.
LEMMA CopyTypes ==
  ASSUME ByteInv, NEW failed \in BOOLEAN, CopyChunk(failed)
  PROVE  /\ TypeInv' /\ todo # << >> /\ limits[2] \in Nat
         /\ Range(todo) \subseteq Range(Entries(Moved, layer))
<1>1. /\ saveTask \in SaveTasks /\ loadTask \in LoadTasks /\ limits \in Limits
      /\ Covered(saveTask) /\ Covered(loadTask) /\ layer \in Layers
      /\ todo \in Seq(EntryType) /\ Range(todo) \subseteq Range(Entries(Moved, layer))
  BY DEF ByteInv, TypeInv
<1>2. /\ saveTask' = saveTask /\ loadTask' = loadTask /\ limits' = limits
      /\ phase' = phase /\ layer' = layer /\ phase \in {"save", "load"} /\ todo # << >>
      /\ todo' = IF failed THEN << >> ELSE SubSeq(todo, CallSize(todo) + 1, Len(todo))
  BY DEF CopyChunk
<1>3. todo' \in Seq(EntryType) /\ Range(todo') \subseteq Range(todo)
  <2>1. CASE failed
    BY <1>2, <2>1 DEF Range
  <2>2. CASE ~failed
    BY <1>1, <1>2, <2>2, CallFacts
  <2>. QED BY <2>1, <2>2
<1>4. Moved' = Moved
  BY <1>2 DEF Moved
<1>5. TypeInv'
  <2>1. Range(todo') \subseteq Range(Entries(Moved', layer'))
    BY <1>1, <1>2, <1>3, <1>4
  <2>. QED BY <1>1, <1>2, <1>3, <2>1 DEF TypeInv
<1>6. limits[2] \in Nat
  BY <1>1, ByteAssumption
<1>. QED BY <1>1, <1>2, <1>5, <1>6

\* A call of a save puts every byte of its entries into the pool, at its place.
LEMMA SaveKeeps ==
  ASSUME ByteInv, CopyChunk(FALSE), phase = "save"
  PROVE  PoolInv' /\ BackInv' /\ SavedInv' /\ LoadedInv'
<1>. DEFINE s == SubSeq(todo, 1, CallSize(todo))
            t == SubSeq(todo, CallSize(todo) + 1, Len(todo))
            packets == Split(s, limits[2])
            new == [g \in Written(packets) |-> Saved(packets, g)]
<1>1. /\ saveTask \in SaveTasks /\ limits \in Limits /\ Covered(saveTask) /\ layer \in Layers
      /\ todo \in Seq(EntryType) /\ IsTask(saveTask)
  BY DEF ByteInv, TypeInv, IsTask
<1>2. /\ saveTask' = saveTask /\ loadTask' = loadTask /\ phase' = "save" /\ layer' = layer
      /\ failedSaves' = failedSaves /\ back' = back
      /\ todo' = t /\ pool' = Onto(pool, new)
  BY DEF CopyChunk
<1>3. /\ todo # << >> /\ limits[2] \in Nat
      /\ Range(todo) \subseteq Range(Entries(saveTask, layer))
  BY CopyTypes DEF Moved
<1>4. s \in Seq(EntryType) /\ s # << >> /\ Range(todo) = Range(s) \cup Range(t)
  BY <1>1, <1>3, CallFacts
<1>. HIDE DEF s, t
<1>5. /\ \A e \in Range(s) : EntryGva(e) \subseteq Written(packets)
      /\ \A g \in Written(packets) : \E e \in Range(s) :
           g \in EntryGva(e) /\ Saved(packets, g) = e.addr + (g - e.gva)
  BY <1>3, <1>4, CopyFacts
<1>6. /\ DOMAIN new = Written(packets)
      /\ \A g \in Written(packets) : new[g] = Saved(packets, g)
  OBVIOUS
<1>. HIDE DEF packets, new
<1>7. /\ DOMAIN pool' = DOMAIN pool \cup Written(packets)
      /\ \A g \in Written(packets) : pool'[g] = Saved(packets, g)
      /\ \A g \in DOMAIN pool \ Written(packets) : pool'[g] = pool[g]
  BY <1>2, <1>6 DEF Onto
<1>8. PoolInv'
  <2>. SUFFICES ASSUME NEW g \in DOMAIN pool'
                PROVE  \E b \in Named(saveTask) : \E l \in Layers : \E c \in Columns :
                         /\ g \in EntryGva(Entry(b, l, c))
                         /\ pool'[g] = Entry(b, l, c).addr + (g - Entry(b, l, c).gva)
    BY <1>2 DEF PoolInv
  <2>1. CASE g \in Written(packets)
    <3>1. PICK e \in Range(s) : g \in EntryGva(e) /\ Saved(packets, g) = e.addr + (g - e.gva)
      BY <1>5, <2>1
    <3>2. PICK b \in Named(saveTask) : \E c \in Columns : e = Entry(b, layer, c)
      BY <1>1, <1>3, <1>4, EntriesFacts
    <3>. QED BY <1>1, <1>7, <2>1, <3>1, <3>2
  <2>2. CASE g \in DOMAIN pool \ Written(packets)
    BY <1>7, <2>2 DEF ByteInv, PoolInv
  <2>. QED BY <1>7, <2>1, <2>2
<1>9. SavedInv'
  <2>. SUFFICES ASSUME NEW l \in Layers \ failedSaves, NEW b \in Named(saveTask),
                       NEW c \in Columns,
                       l < layer \/ (l = layer /\ Entry(b, l, c) \notin Range(t))
                PROVE  EntryGva(Entry(b, l, c)) \subseteq DOMAIN pool'
    BY <1>2 DEF SavedInv
  <2>1. CASE l < layer \/ Entry(b, l, c) \notin Range(todo)
    BY <1>7, <2>1 DEF ByteInv, SavedInv
  <2>2. CASE Entry(b, l, c) \in Range(s)
    BY <1>5, <1>7, <2>2
  <2>. QED BY <1>4, <2>1, <2>2
<1>10. BackInv' /\ LoadedInv'
  BY <1>2 DEF ByteInv, BackInv, LoadedInv
<1>. QED BY <1>8, <1>9, <1>10

\* A call of a load puts every byte of its entries into HBM, from its place.
LEMMA LoadKeeps ==
  ASSUME ByteInv, CopyChunk(FALSE), phase = "load"
  PROVE  PoolInv' /\ BackInv' /\ SavedInv' /\ LoadedInv'
<1>. DEFINE s == SubSeq(todo, 1, CallSize(todo))
            t == SubSeq(todo, CallSize(todo) + 1, Len(todo))
            packets == Split(s, limits[2])
            new == [a \in Read(packets) |-> Loaded(packets, a)]
<1>1. /\ loadTask \in LoadTasks /\ limits \in Limits /\ Covered(loadTask) /\ layer \in Layers
      /\ todo \in Seq(EntryType) /\ IsTask(loadTask)
  BY DEF ByteInv, TypeInv, IsTask
<1>2. /\ saveTask' = saveTask /\ loadTask' = loadTask /\ phase' = "load" /\ layer' = layer
      /\ failedSaves' = failedSaves /\ failedLoads' = failedLoads /\ pool' = pool
      /\ todo' = t /\ back' = Onto(back, new)
  BY DEF CopyChunk
<1>3. /\ todo # << >> /\ limits[2] \in Nat
      /\ Range(todo) \subseteq Range(Entries(loadTask, layer))
  BY CopyTypes DEF Moved
<1>4. s \in Seq(EntryType) /\ s # << >> /\ Range(todo) = Range(s) \cup Range(t)
  BY <1>1, <1>3, CallFacts
<1>. HIDE DEF s, t
<1>5. /\ \A e \in Range(s) : EntryAddr(e) \subseteq Read(packets)
      /\ \A a \in Read(packets) : \E e \in Range(s) :
           a \in EntryAddr(e) /\ Loaded(packets, a) = FromPool(pool, e.gva + (a - e.addr))
  BY <1>3, <1>4, CopyFacts
<1>6. /\ DOMAIN new = Read(packets)
      /\ \A a \in Read(packets) : new[a] = Loaded(packets, a)
  OBVIOUS
<1>. HIDE DEF packets, new
<1>7. /\ DOMAIN back' = DOMAIN back \cup Read(packets)
      /\ \A a \in Read(packets) : back'[a] = Loaded(packets, a)
      /\ \A a \in DOMAIN back \ Read(packets) : back'[a] = back[a]
  BY <1>2, <1>6 DEF Onto
<1>8. BackInv'
  <2>. SUFFICES ASSUME NEW a \in DOMAIN back'
                PROVE  \E b \in Named(loadTask) : \E l \in Layers : \E c \in Columns :
                         /\ a \in EntryAddr(Entry(b, l, c))
                         /\ back'[a] = FromPool(pool, Entry(b, l, c).gva + (a - Entry(b, l, c).addr))
    BY <1>2 DEF BackInv
  <2>1. CASE a \in Read(packets)
    <3>1. PICK e \in Range(s) : /\ a \in EntryAddr(e)
                                /\ Loaded(packets, a) = FromPool(pool, e.gva + (a - e.addr))
      BY <1>5, <2>1
    <3>2. PICK b \in Named(loadTask) : \E c \in Columns : e = Entry(b, layer, c)
      BY <1>1, <1>3, <1>4, EntriesFacts
    <3>. QED BY <1>1, <1>7, <2>1, <3>1, <3>2
  <2>2. CASE a \in DOMAIN back \ Read(packets)
    BY <1>7, <2>2 DEF ByteInv, BackInv
  <2>. QED BY <1>7, <2>1, <2>2
<1>9. LoadedInv'
  <2>. SUFFICES ASSUME NEW l \in Layers \ failedLoads, NEW b \in Named(loadTask),
                       NEW c \in Columns,
                       l < layer \/ (l = layer /\ Entry(b, l, c) \notin Range(t))
                PROVE  EntryAddr(Entry(b, l, c)) \subseteq DOMAIN back'
    BY <1>2 DEF LoadedInv
  <2>1. CASE l < layer \/ Entry(b, l, c) \notin Range(todo)
    BY <1>7, <2>1 DEF ByteInv, LoadedInv
  <2>2. CASE Entry(b, l, c) \in Range(s)
    BY <1>5, <1>7, <2>2
  <2>. QED BY <1>4, <2>1, <2>2
<1>10. PoolInv' /\ SavedInv'
  BY <1>2 DEF ByteInv, PoolInv, SavedInv
<1>. QED BY <1>8, <1>9, <1>10

\* A call that fails ends its layer, which counts as failed.
LEMMA FailKeeps ==
  ASSUME ByteInv, CopyChunk(TRUE)
  PROVE  PoolInv' /\ BackInv' /\ SavedInv' /\ LoadedInv'
<1>1. /\ saveTask' = saveTask /\ loadTask' = loadTask /\ phase' = phase /\ layer' = layer
      /\ pool' = pool /\ back' = back /\ phase \in {"save", "load"}
  BY DEF CopyChunk
<1>2. layer \in Layers /\ Layers \subseteq Nat
  BY CacheFacts DEF ByteInv, TypeInv, Layers
<1>3. PoolInv' /\ BackInv'
  BY <1>1 DEF ByteInv, PoolInv, BackInv
<1>4. CASE phase = "save"
  <2>1. failedSaves' = failedSaves \cup {layer} /\ failedLoads' = failedLoads
    BY <1>4 DEF CopyChunk
  <2>2. SavedInv'
    <3>. SUFFICES ASSUME NEW l \in Layers \ failedSaves, l # layer, NEW b \in Named(saveTask),
                         NEW c \in Columns, l < layer
                  PROVE  EntryGva(Entry(b, l, c)) \subseteq DOMAIN pool
      BY <1>1, <1>4, <2>1 DEF SavedInv
    <3>. QED BY DEF ByteInv, SavedInv
  <2>3. LoadedInv'
    BY <1>1, <1>4 DEF LoadedInv
  <2>. QED BY <1>3, <2>2, <2>3
<1>5. CASE phase = "load"
  <2>1. failedLoads' = failedLoads \cup {layer} /\ failedSaves' = failedSaves
    BY <1>5 DEF CopyChunk
  <2>2. LoadedInv'
    <3>. SUFFICES ASSUME NEW l \in Layers \ failedLoads, l # layer, NEW b \in Named(loadTask),
                         NEW c \in Columns, l < layer
                  PROVE  EntryAddr(Entry(b, l, c)) \subseteq DOMAIN back
      BY <1>1, <1>5, <2>1 DEF LoadedInv
    <3>. QED BY <1>5 DEF ByteInv, LoadedInv
  <2>3. SavedInv'
    BY <1>1, <1>5, <2>1 DEF ByteInv, SavedInv
  <2>. QED BY <1>3, <2>2, <2>3
<1>. QED BY <1>1, <1>4, <1>5

\* Every step keeps the invariant.
LEMMA ByteKept == ByteInv /\ [ByteNext]_byteVars => ByteInv'
<1>. SUFFICES ASSUME ByteInv, [ByteNext]_byteVars PROVE ByteInv'
  OBVIOUS
<1>1. CASE NextLayer
  BY <1>1, NextLayerKeeps
<1>2. ASSUME NEW failed \in BOOLEAN, CopyChunk(failed) PROVE ByteInv'
  <2>1. TypeInv'
    BY <1>2, CopyTypes
  <2>2. phase \in {"save", "load"}
    BY <1>2 DEF CopyChunk
  <2>3. CASE failed = TRUE
    BY <1>2, <2>1, <2>3, FailKeeps DEF ByteInv
  <2>4. CASE failed = FALSE
    <3>1. CopyChunk(FALSE)
      BY <1>2, <2>4
    <3>. QED BY <2>1, <2>2, <3>1, SaveKeeps, LoadKeeps DEF ByteInv
  <2>. QED BY <2>3, <2>4
<1>3. CASE UNCHANGED byteVars
  <2>1. /\ saveTask' = saveTask /\ loadTask' = loadTask /\ limits' = limits /\ phase' = phase
        /\ layer' = layer /\ todo' = todo /\ pool' = pool /\ back' = back
        /\ failedSaves' = failedSaves /\ failedLoads' = failedLoads
    BY <1>3 DEF byteVars
  <2>2. TypeInv'
    BY <2>1 DEF ByteInv, TypeInv, Moved
  <2>3. PoolInv' /\ BackInv'
    BY <2>1 DEF ByteInv, PoolInv, BackInv
  <2>4. SavedInv' /\ LoadedInv'
    BY <2>1 DEF ByteInv, SavedInv, LoadedInv
  <2>. QED BY <2>2, <2>3, <2>4 DEF ByteInv
<1>. QED BY <1>1, <1>2, <1>3 DEF ByteNext

-----------------------------------------------------------------------------
(* What follows *)

\* The bytes of a layer that did not fail are in the pool as they were in HBM,
\* and the load took them from there.
LEMMA ComesBack == ByteInv => RoundTrip
<1>. SUFFICES ASSUME ByteInv, phase = "done",
                     NEW l \in Layers, l \notin failedSaves, l \notin failedLoads,
                     NEW f \in Columns,
                     NEW to \in Named(loadTask), NEW from \in Named(saveTask), to.gva = from.gva,
                     NEW o \in 0..BlockLen[FlatOf(l, f)] - 1,
                     NEW at, at = BaseAddr[FlatOf(l, f)] + to.id * BlockStride[FlatOf(l, f)] + o
              PROVE  /\ at \in DOMAIN back
                     /\ back[at] = BaseAddr[FlatOf(l, f)] + from.id * BlockStride[FlatOf(l, f)] + o
  BY DEF RoundTrip, Layers, Columns, FlatOf
<1>. DEFINE et == Entry(to, l, f)  ef == Entry(from, l, f)  x == ef.gva + o
<1>1. /\ saveTask \in SaveTasks /\ loadTask \in LoadTasks
      /\ Covered(saveTask) /\ Covered(loadTask) /\ IsTask(saveTask) /\ IsTask(loadTask)
  BY DEF ByteInv, TypeInv, IsTask
<1>2. to \in BlockType /\ from \in BlockType
  BY <1>1, SharedFacts
<1>3. /\ et \in EntryType /\ ef \in EntryType /\ et.gva = ef.gva
      /\ et.size = BlockLen[FlatOf(l, f)] /\ ef.size = BlockLen[FlatOf(l, f)]
      /\ et.addr = BaseAddr[FlatOf(l, f)] + to.id * BlockStride[FlatOf(l, f)]
      /\ ef.addr = BaseAddr[FlatOf(l, f)] + from.id * BlockStride[FlatOf(l, f)]
  BY <1>2, EntryIs
<1>4. EntryAddr(et) \subseteq DOMAIN back /\ EntryGva(ef) \subseteq DOMAIN pool
  BY DEF ByteInv, SavedInv, LoadedInv
<1>. HIDE DEF et, ef
<1>5. /\ et.addr \in Nat /\ et.gva \in Nat /\ ef.addr \in Nat /\ o \in Nat
      /\ o \in 0..et.size - 1 /\ o \in 0..ef.size - 1 /\ et.size \in Nat /\ ef.size \in Nat
  BY <1>3 DEF EntryType
<1>6. at = et.addr + o
  BY <1>3
<1>7. at \in EntryAddr(et) /\ x \in EntryGva(ef)
  BY <1>3, <1>5, <1>6 DEF EntryAddr, EntryGva
<1>8. back[at] = FromPool(pool, et.gva + (at - et.addr))
  <2>1. PICK b \in Named(loadTask), k \in Layers, d \in Columns :
          /\ at \in EntryAddr(Entry(b, k, d))
          /\ back[at] = FromPool(pool, Entry(b, k, d).gva + (at - Entry(b, k, d).addr))
    BY <1>4, <1>7 DEF ByteInv, BackInv
  <2>2. b = to /\ k = l /\ d = f
    BY <1>1, <1>7, <2>1, HbmPlaces DEF et
  <2>. QED BY <2>1, <2>2 DEF et
<1>9. pool[x] = ef.addr + (x - ef.gva)
  <2>1. PICK b \in Named(saveTask), k \in Layers, d \in Columns :
          /\ x \in EntryGva(Entry(b, k, d))
          /\ pool[x] = Entry(b, k, d).addr + (x - Entry(b, k, d).gva)
    BY <1>4, <1>7 DEF ByteInv, PoolInv
  <2>2. b = from /\ k = l /\ d = f
    BY <1>1, <1>7, <2>1, PoolPlaces DEF ef
  <2>. QED BY <2>1, <2>2 DEF ef
<1>10. et.gva + (at - et.addr) = x /\ x - ef.gva = o
  BY <1>3, <1>5, <1>6
<1>11. back[at] = ef.addr + o
  BY <1>4, <1>7, <1>8, <1>9, <1>10 DEF FromPool
<1>. QED BY <1>3, <1>4, <1>7, <1>11

\* An entry lies in the pages and in the cache blocks of its block.
LEMMA InPlace == ByteInv => StaysInPlace
<1>. SUFFICES ASSUME ByteInv PROVE StaysInPlace
  OBVIOUS
<1>1. IsTask(saveTask) /\ IsTask(loadTask)
  BY DEF ByteInv, TypeInv, IsTask
<1>2. ASSUME NEW g \in DOMAIN pool
      PROVE  \E b \in Named(saveTask) : g \in b.gva..b.gva + NumLayers * PageSize - 1
  <2>1. PICK b \in Named(saveTask), l \in Layers, c \in Columns : g \in EntryGva(Entry(b, l, c))
    BY DEF ByteInv, PoolInv
  <2>. DEFINE o == Offset(l, c)  s == BlockLen[FlatOf(l, c)]  z == NumLayers * PageSize
  <2>2. b \in BlockType /\ b.gva \in Nat
    BY <1>1, SharedFacts DEF BlockType
  <2>3. g \in b.gva + o..b.gva + o + s - 1
    BY <2>1, <2>2, EntryIs DEF EntryGva
  <2>4. o \in Nat /\ s \in Nat /\ o + s <= z /\ z \in Nat
    BY OffsetFacts, CacheFacts, PageFacts
  <2>. HIDE DEF o, s, z
  <2>5. g \in b.gva..b.gva + z - 1
    BY <2>2, <2>3, <2>4, PieceInside
  <2>. QED BY <2>5 DEF z
<1>3. ASSUME NEW a \in DOMAIN back
      PROVE  \E b \in Named(loadTask) : \E f \in DOMAIN BlockLen :
               a \in BaseAddr[f] + b.id * BlockStride[f]
                     ..BaseAddr[f] + b.id * BlockStride[f] + BlockLen[f] - 1
  <2>1. PICK b \in Named(loadTask), l \in Layers, c \in Columns : a \in EntryAddr(Entry(b, l, c))
    BY DEF ByteInv, BackInv
  <2>2. b \in BlockType
    BY <1>1, SharedFacts
  <2>3. FlatOf(l, c) \in DOMAIN BlockLen
    BY OffsetFacts, ByteAssumption, LenProperties DEF Caches
  <2>. QED BY <2>1, <2>2, <2>3, EntryIs DEF EntryAddr
<1>. QED BY <1>2, <1>3 DEF StaysInPlace

\* A layer that no call reported as failed comes back byte for byte, for every
\* layout, every block table and every pair of limits: what _batch_copy_with_limits
\* copies out of HBM and in again is what LayerBatchBuilder's addresses promise.
THEOREM SavedComesBack == ByteSpec => []RoundTrip
<1>1. ByteInit => ByteInv
  BY ByteInitially
<1>2. ByteInv /\ [ByteNext]_byteVars => ByteInv'
  BY ByteKept
<1>3. ByteInv => RoundTrip
  BY ComesBack
<1>. QED BY <1>1, <1>2, <1>3, PTL DEF ByteSpec

\* No save writes a pool address outside the pages of its blocks, and no load
\* an HBM address outside the blocks it names, failing calls or not.
THEOREM NothingStrays == ByteSpec => []StaysInPlace
<1>1. ByteInit => ByteInv
  BY ByteInitially
<1>2. ByteInv /\ [ByteNext]_byteVars => ByteInv'
  BY ByteKept
<1>3. ByteInv => StaysInPlace
  BY InPlace
<1>. QED BY <1>1, <1>2, <1>3, PTL DEF ByteSpec
=============================================================================
