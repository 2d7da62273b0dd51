--------------------------- MODULE LoadPathLemmas ---------------------------
EXTENDS LoadPath, TLAPS, WellFoundedInduction, SequenceTheorems, FiniteSetTheorems

\* Division by the block size is the usual one.
LEMMA DivFacts ==
  ASSUME NEW a \in Nat, NEW b \in Nat \ {0}
  PROVE  /\ a \div b \in Nat
         /\ b * (a \div b) <= a
         /\ a < b * (a \div b) + b
  OBVIOUS

\* The quotient is the only number with these bounds.
LEMMA DivUnique ==
  ASSUME NEW a \in Nat, NEW b \in Nat \ {0}, NEW q \in Nat,
         b * q <= a, a < b * q + b
  PROVE  a \div b = q
<1>1. b * (a \div b) <= a /\ a < b * (a \div b) + b /\ a \div b \in Nat
  BY DivFacts
<1>2. CASE a \div b < q
  <2>1. b * ((a \div b) + 1) <= b * q
    BY <1>1, <1>2
  <2>. QED BY <1>1, <2>1
<1>3. CASE a \div b > q
  <2>1. b * (q + 1) <= b * (a \div b)
    BY <1>1, <1>3
  <2>. QED BY <1>1, <2>1
<1>. QED BY <1>1, <1>2, <1>3

\* n tokens fill Full(n) blocks and need Ceil(n): as many, or one more.
LEMMA BlockCounts ==
  ASSUME NEW n \in Nat
  PROVE  /\ Full(n) \in Nat /\ Ceil(n) \in Nat
         /\ Full(n) <= Ceil(n) /\ Ceil(n) <= Full(n) + 1
         /\ BlockSize * Full(n) <= n /\ n < BlockSize * Full(n) + BlockSize
         /\ n <= BlockSize * Ceil(n)
<1>. DEFINE B == BlockSize  f == n \div B  c == (n + B - 1) \div B
<1>1. B \in Nat \ {0} /\ n + B - 1 \in Nat
  BY LoadAssumption
<1>2. f \in Nat /\ B * f <= n /\ n < B * f + B
  BY <1>1, DivFacts
<1>3. c \in Nat /\ B * c <= n + B - 1 /\ n + B - 1 < B * c + B
  BY <1>1, DivFacts
<1>. HIDE DEF f, c, B
<1>4. f <= c
  <2>1. CASE c < f
    <3>1. B * (c + 1) <= B * f
      BY <1>1, <1>2, <1>3, <2>1
    <3>. QED BY <1>1, <1>2, <1>3, <3>1
  <2>. QED BY <1>2, <1>3, <2>1
<1>5. c <= f + 1
  <2>1. CASE f + 1 < c
    <3>1. B * (f + 2) <= B * c
      BY <1>1, <1>2, <1>3, <2>1
    <3>. QED BY <1>1, <1>2, <1>3, <3>1
  <2>. QED BY <1>2, <1>3, <2>1
<1>6. n <= B * c
  BY <1>1, <1>3
<1>. QED BY <1>2, <1>3, <1>4, <1>5, <1>6 DEF Full, Ceil, f, c, B

\* More tokens need no fewer blocks.
LEMMA FullMonotonic ==
  ASSUME NEW m \in Nat, NEW n \in Nat, m <= n
  PROVE  Full(m) <= Full(n) /\ Ceil(m) <= Ceil(n)
<1>. DEFINE B == BlockSize
<1>1. B \in Nat \ {0}
  BY LoadAssumption
<1>2. ASSUME NEW x \in Nat, NEW y \in Nat, x <= y
      PROVE  x \div B <= y \div B
  <2>1. /\ x \div B \in Nat /\ B * (x \div B) <= x
        /\ y \div B \in Nat /\ y < B * (y \div B) + B
    BY <1>1, DivFacts
  <2>2. CASE y \div B < x \div B
    <3>1. B * ((y \div B) + 1) <= B * (x \div B)
      BY <1>1, <2>1, <2>2
    <3>. QED BY <1>1, <1>2, <2>1, <3>1
  <2>. QED BY <2>1, <2>2
<1>. QED BY <1>1, <1>2 DEF Full, Ceil

\* k whole blocks of tokens are k blocks; anything more begins another one.
LEMMA WholeBlocks ==
  ASSUME NEW k \in Nat
  PROVE  /\ BlockSize * k \in Nat
         /\ Full(BlockSize * k) = k /\ Ceil(BlockSize * k) = k
         /\ \A n \in Nat : n > BlockSize * k => Ceil(n) > k
<1>. DEFINE B == BlockSize
<1>1. B \in Nat \ {0}
  BY LoadAssumption
<1>2. B * k \in Nat /\ B * k + B - 1 \in Nat
  BY <1>1
<1>3. (B * k) \div B = k
  BY <1>1, <1>2, DivUnique
<1>4. (B * k + B - 1) \div B = k
  <2>1. B * k <= B * k + B - 1 /\ B * k + B - 1 < B * k + B
    BY <1>1, <1>2
  <2>. QED BY <1>1, <1>2, <2>1, DivUnique
<1>5. ASSUME NEW n \in Nat, n > B * k
      PROVE  Ceil(n) > k
  <2>1. Ceil(n) \in Nat /\ n <= B * Ceil(n)
    BY BlockCounts
  <2>2. CASE Ceil(n) <= k
    <3>1. B * Ceil(n) <= B * k
      BY <1>1, <2>1, <2>2
    <3>. QED BY <1>2, <1>5, <2>1, <3>1, <1>1
  <2>. QED BY <2>1, <2>2
<1>. QED BY <1>2, <1>3, <1>4, <1>5 DEF Full, Ceil

\* A set of naturals with an upper bound has a greatest element.
LEMMA MaxExists ==
  ASSUME NEW n \in Nat, NEW S \in SUBSET (0..n), S # {}
  PROVE  Max(S) \in S /\ \A x \in S : Max(S) >= x
<1>. DEFINE Less == {ss \in Nat \X Nat : ss[1] < ss[2]}
            T == {n - x : x \in S}
<1>1. T \subseteq Nat
  OBVIOUS
<1>2. T # {}
  OBVIOUS
<1>3. IsWellFoundedOn(Less, Nat)
  BY NatLessThanWellFounded DEF OpToRel
<1>. HIDE DEF Less
<1>4. PICK y \in T : \A z \in T : <<z, y>> \notin Less
  BY <1>1, <1>2, <1>3, WFMin
<1>5. \A z \in T : ~(z < y)
  BY <1>1, <1>4 DEF Less
<1>6. PICK x \in S : y = n - x
  OBVIOUS
<1>7. \A w \in S : x >= w
  BY <1>5, <1>6
<1>. QED BY <1>7 DEF Max

\* The longest prefix found is one, and is not followed by a member.
LEMMA PrefixFacts ==
  ASSUME NEW S, NEW n \in Nat
  PROVE  /\ PrefixIn(S, n) \in 0..n
         /\ \A i \in 1..PrefixIn(S, n) : i \in S
         /\ PrefixIn(S, n) < n => PrefixIn(S, n) + 1 \notin S
<1>. DEFINE K == {k \in 0..n : \A i \in 1..k : i \in S}
<1>1. 0 \in K /\ K \in SUBSET (0..n)
  OBVIOUS
<1>2. Max(K) \in K /\ \A k \in K : Max(K) >= k
  BY <1>1, MaxExists
<1>3. Max(K) < n /\ Max(K) + 1 \in S => Max(K) + 1 \in K
  BY <1>2
<1>. QED BY <1>2, <1>3 DEF PrefixIn

-----------------------------------------------------------------------------
(* Blocks *)

Distinct(s) == \A i, k \in 1..Len(s) : s[i] = s[k] => i = k

\* A local hit: whole blocks, before the last token, each cached as its place.
LEMMA HitFacts ==
  ASSUME NEW r \in Request, NEW hit \in ComputedBlocks(r)
  PROVE  /\ hit \in Seq(Block) /\ Distinct(hit)
         /\ \A i \in 1..Len(hit) : cached[hit[i]] = i
         /\ Len(hit) <= Full(Tokens[r] - 1)
<1>1. Tokens[r] - 1 \in Nat
  BY LoadAssumption
<1>2. Full(Tokens[r] - 1) \in Nat
  BY <1>1, BlockCounts
<1>. DEFINE n == PrefixIn({cached[b] : b \in Block}, Full(Tokens[r] - 1))
<1>3. n \in Nat /\ n <= Full(Tokens[r] - 1)
  BY <1>2, PrefixFacts
<1>4. hit \in [1..n -> Block] /\ \A i \in 1..n : cached[hit[i]] = i
  BY DEF ComputedBlocks
<1>. HIDE DEF n
<1>5. hit \in Seq(Block) /\ Len(hit) = n
  BY <1>3, <1>4
<1>. QED BY <1>3, <1>4, <1>5 DEF Distinct

\* allocate_slots leaves the first blocks and adds free ones.
LEMMA SlotFacts ==
  ASSUME held \in [Request -> Seq(Block)],
         NEW old \in Seq(Block), Distinct(old),
         NEW n \in Nat, NEW s \in Slots(old, n)
  PROVE  /\ s \in Seq(Block) /\ Distinct(s)
         /\ Len(old) <= Len(s) /\ Ceil(n) <= Len(s)
         /\ Len(s) = Len(old) \/ Len(s) = Ceil(n)
         /\ \A i \in 1..Len(old) : s[i] = old[i]
         /\ \A i \in Len(old) + 1..Len(s) : \A q \in Request :
              \A k \in 1..Len(held[q]) : held[q][k] # s[i]
<1>. DEFINE need == Ceil(n) - Len(old)
            free == Free \ Range(old)
<1>0. Ceil(n) \in Nat
  BY BlockCounts
<1>1. Ceil(n) \in Nat /\ Len(old) \in Nat /\ need \in Int
  BY <1>0
<1>2. PICK t \in [1..need -> free] : IsInjective(t) /\ s = old \o t
  BY DEF Slots
<1>3. free \subseteq Block /\ \A b \in free : \A i \in 1..Len(old) : old[i] # b
  BY DEF Free, Range
<1>4. \A b \in free : \A q \in Request : \A k \in 1..Len(held[q]) : held[q][k] # b
  BY DEF Free, Range
<1>. HIDE DEF need, free
<1>5. CASE need <= 0
  <2>1. t = << >>
    BY <1>1, <1>2, <1>5
  <2>2. s = old
    BY <1>2, <2>1
  <2>. QED BY <1>1, <1>5, <2>2 DEF need
<1>6. CASE need > 0
  <2>1. t \in Seq(Block) /\ Len(t) = need
    BY <1>1, <1>2, <1>3, <1>6
  <2>2. s \in Seq(Block) /\ Len(s) = Len(old) + need
    <3>1. s \in Seq(Block)
      BY <1>2, <2>1
    <3>2. Len(old \o t) = Len(old) + Len(t)
      BY <2>1, ConcatProperties
    <3>3. Len(s) = Len(old) + Len(t)
      BY <1>2, <3>2
    <3>. QED BY <2>1, <3>1, <3>3
  <2>3. Len(s) = Ceil(n)
    BY <1>1, <2>2 DEF need
  <2>4. \A i \in 1..Len(old) : s[i] = old[i]
    BY <1>1, <1>2, <2>1
  <2>5. \A i \in Len(old) + 1..Len(s) : i - Len(old) \in 1..need /\ s[i] = t[i - Len(old)]
    BY <1>1, <1>2, <2>1, <2>2
  <2>6. \A i \in Len(old) + 1..Len(s) : s[i] \in free
    BY <1>2, <2>5
  <2>7. \A i, k \in Len(old) + 1..Len(s) : s[i] = s[k] => i = k
    <3>. SUFFICES ASSUME NEW i \in Len(old) + 1..Len(s), NEW k \in Len(old) + 1..Len(s), s[i] = s[k]
                  PROVE  i = k
      OBVIOUS
    <3>1. t[i - Len(old)] = t[k - Len(old)] /\ i - Len(old) \in 1..need /\ k - Len(old) \in 1..need
      BY <2>5
    <3>2. DOMAIN t = 1..need
      BY <1>2
    <3>3. i - Len(old) = k - Len(old)
      BY <1>2, <3>1, <3>2 DEF IsInjective
    <3>. QED BY <1>1, <2>2, <3>3
  <2>8. Distinct(s)
    <3>. SUFFICES ASSUME NEW i \in 1..Len(s), NEW k \in 1..Len(s), s[i] = s[k]
                  PROVE  i = k
      BY DEF Distinct
    <3>1. CASE i <= Len(old) /\ k <= Len(old)
      BY <1>1, <2>4, <3>1 DEF Distinct
    <3>2. CASE i > Len(old) /\ k > Len(old)
      <4>1. i \in Len(old) + 1..Len(s) /\ k \in Len(old) + 1..Len(s)
        BY <1>1, <3>2
      <4>. QED BY <2>7, <4>1
    <3>3. CASE i <= Len(old) /\ k > Len(old)
      BY <1>1, <1>3, <2>2, <2>4, <2>6, <3>3
    <3>4. CASE i > Len(old) /\ k <= Len(old)
      <4>1. i \in Len(old) + 1..Len(s) /\ k \in 1..Len(old)
        BY <1>1, <3>4
      <4>2. s[i] \in free /\ s[k] = old[k]
        BY <2>4, <2>6, <4>1
      <4>. QED BY <1>3, <4>1, <4>2
    <3>. QED BY <1>1, <2>2, <3>1, <3>2, <3>3, <3>4
  <2>9. Len(old) <= Len(s)
    BY <1>1, <1>6, <2>2
  <2>10. Ceil(n) <= Len(s)
    BY <1>0, <2>3
  <2>11. \A i \in Len(old) + 1..Len(s) : \A q \in Request : \A k \in 1..Len(held[q]) : held[q][k] # s[i]
    BY <1>4, <2>6
  <2>. QED BY <2>2, <2>3, <2>4, <2>8, <2>9, <2>10, <2>11
<1>. QED BY <1>1, <1>5, <1>6

\* The forward pass changes the blocks behind the computed ones only, and
\* fills them rightly when what it attends to is right.
LEMMA ForwardFacts ==
  ASSUME data \in [Block -> Nat],
         NEW s \in Seq(Block), Distinct(s), NEW n \in Nat
  PROVE  /\ Forward(s, n) \in [Block -> Nat]
         /\ \A b \in Block : (\A i \in Full(n) + 1..Len(s) : s[i] # b) => Forward(s, n)[b] = data[b]
         /\ (\A i \in 1..Ceil(n) : data[s[i]] = i) =>
              \A i \in Full(n) + 1..Len(s) : Forward(s, n)[s[i]] = i
<1>0. Full(n) \in Nat
  BY BlockCounts
<1>1. Full(n) \in Nat /\ Len(s) \in Nat
  BY <1>0
<1>2. \A b \in Block : \A i \in 1..Len(s) : s[i] = b =>
        (CHOOSE k \in 1..Len(s) : s[k] = b) = i
  BY DEF Distinct
<1>3. \A i \in Full(n) + 1..Len(s) : i \in 1..Len(s) /\ s[i] \in Block
  BY <1>1
<1>. DEFINE sound == \A i \in 1..Ceil(n) : data[s[i]] = i
            F == [b \in Block |-> IF \E i \in Full(n) + 1..Len(s) : s[i] = b
                                  THEN IF sound THEN CHOOSE i \in 1..Len(s) : s[i] = b ELSE 0
                                  ELSE data[b]]
<1>4. Forward(s, n) = F
  BY DEF Forward
<1>5. \A b \in Block : (\A i \in Full(n) + 1..Len(s) : s[i] # b) => F[b] = data[b]
  OBVIOUS
<1>6. sound => \A i \in Full(n) + 1..Len(s) : F[s[i]] = i
  BY <1>2, <1>3
<1>7. F \in [Block -> Nat]
  <2>. SUFFICES ASSUME NEW b \in Block PROVE F[b] \in Nat
    OBVIOUS
  <2>1. CASE \E i \in Full(n) + 1..Len(s) : s[i] = b
    <3>1. PICK i \in Full(n) + 1..Len(s) : s[i] = b
      BY <2>1
    <3>2. i \in Nat /\ i \in 1..Len(s)
      BY <1>1
    <3>3. (CHOOSE k \in 1..Len(s) : s[k] = b) = i
      BY <1>2, <3>1, <3>2
    <3>4. F[b] = i \/ F[b] = 0
      BY <3>1, <3>3
    <3>. HIDE DEF F
    <3>. QED BY <3>2, <3>4
  <2>2. CASE ~\E i \in Full(n) + 1..Len(s) : s[i] = b
    BY <2>2
  <2>. QED BY <2>1, <2>2
<1>. HIDE DEF F
<1>. QED BY <1>4, <1>5, <1>6, <1>7

\* What allocate_slots leaves in the prefix cache, when it adds to the blocks
\* in old: the new ones are taken out of it, and then, unless that is
\* delayed, the full ones are put in.
LEMMA AllocatedFacts ==
  ASSUME cached \in [Block -> Nat],
         NEW s \in Seq(Block), Distinct(s), NEW old \in Seq(Block), Len(old) <= Len(s),
         \A i \in 1..Len(old) : s[i] = old[i],
         NEW n \in Nat
  PROVE  /\ Allocated(s, old, n, TRUE) \in [Block -> Nat]
         /\ \A b \in Block : (\A i \in 1..Len(s) : s[i] # b) => Allocated(s, old, n, TRUE)[b] = cached[b]
         /\ \A i \in 1..Len(s) :
              Allocated(s, old, n, TRUE)[s[i]] = IF i <= Len(old) THEN cached[s[i]] ELSE 0
         /\ Full(n) <= Len(s) =>
              /\ Allocated(s, old, n, FALSE) \in [Block -> Nat]
              /\ \A b \in Block : (\A i \in 1..Len(s) : s[i] # b) => Allocated(s, old, n, FALSE)[b] = cached[b]
              /\ \A i \in 1..Len(s) : i <= Full(n) => Allocated(s, old, n, FALSE)[s[i]] = i
              /\ \A i \in 1..Len(s) : i > Full(n) =>
                   Allocated(s, old, n, FALSE)[s[i]] = IF i <= Len(old) THEN cached[s[i]] ELSE 0
<1>1. Full(n) \in Nat
  BY BlockCounts
<1>. DEFINE fresh == Range(s) \ Range(old)
            U == Uncached(fresh)
<1>2. \A i \in 1..Len(s) : i <= Len(old) <=> s[i] \notin fresh
  <2>0. \A i \in 1..Len(old) : old[i] \in Range(old)
    BY DEF Range
  <2>1. \A i \in 1..Len(s) : i <= Len(old) => s[i] \in Range(old)
    BY <2>0
  <2>2. \A i \in 1..Len(s) : i > Len(old) => s[i] \notin Range(old)
    <3>0. \A b \in Range(old) : \E k \in 1..Len(old) : old[k] = b
      BY DEF Range
    <3>. SUFFICES ASSUME NEW i \in 1..Len(s), i > Len(old), NEW k \in 1..Len(old), old[k] = s[i]
                  PROVE  FALSE
      BY <3>0
    <3>1. k \in 1..Len(s) /\ s[k] = s[i]
      <4>1. Len(old) \in Nat /\ Len(s) \in Nat
        OBVIOUS
      <4>2. k \in 1..Len(s)
        BY <4>1
      <4>3. s[k] = old[k]
        OBVIOUS
      <4>. QED BY <4>2, <4>3
    <3>2. k = i
      BY <3>1 DEF Distinct
    <3>. QED BY <3>2
  <2>3. \A i \in 1..Len(s) : s[i] \in Range(s)
    BY DEF Range
  <2>. QED BY <2>1, <2>2, <2>3
<1>3. \A b \in Block : (\A i \in 1..Len(s) : s[i] # b) => b \notin fresh
  BY DEF Range
<1>4. \A i \in 1..Len(s) : s[i] \in Block
  OBVIOUS
<1>. HIDE DEF fresh
<1>5. /\ U \in [Block -> Nat]
      /\ \A b \in Block : U[b] = IF b \in fresh THEN 0 ELSE cached[b]
  BY DEF Uncached
<1>. HIDE DEF U
<1>6. /\ U \in [Block -> Nat]
      /\ \A b \in Block : (\A i \in 1..Len(s) : s[i] # b) => U[b] = cached[b]
      /\ \A i \in 1..Len(s) : U[s[i]] = IF i <= Len(old) THEN cached[s[i]] ELSE 0
  BY <1>2, <1>3, <1>4, <1>5
<1>7. Allocated(s, old, n, TRUE) = U
  BY DEF Allocated, U, fresh
<1>8. ASSUME Full(n) <= Len(s)
      PROVE  /\ Allocated(s, old, n, FALSE) \in [Block -> Nat]
             /\ \A b \in Block : (\A i \in 1..Len(s) : s[i] # b) => Allocated(s, old, n, FALSE)[b] = cached[b]
             /\ \A i \in 1..Len(s) : i <= Full(n) => Allocated(s, old, n, FALSE)[s[i]] = i
             /\ \A i \in 1..Len(s) : i > Full(n) =>
                  Allocated(s, old, n, FALSE)[s[i]] = IF i <= Len(old) THEN cached[s[i]] ELSE 0
  <2>. DEFINE C == CacheBlocks(U, s, n)
  <2>1. Allocated(s, old, n, FALSE) = C
    BY DEF Allocated, U, fresh
  <2>2. Full(n) <= Len(s)
    BY <1>8
  <2>3. \A b \in Block : \A i \in 1..Full(n) : s[i] = b =>
          (CHOOSE k \in 1..Full(n) : s[k] = b) = i
    BY <1>1, <2>2 DEF Distinct
  <2>4. \A b \in Block : C[b] = IF \E i \in 1..Full(n) : s[i] = b
                               THEN CHOOSE i \in 1..Full(n) : s[i] = b ELSE U[b]
    BY DEF CacheBlocks
  <2>5. C = [b \in Block |-> C[b]]
    BY DEF CacheBlocks
  <2>. HIDE DEF C
  <2>6. \A i \in 1..Full(n) : i \in 1..Len(s) /\ C[s[i]] = i
    <3>1. \A i \in 1..Full(n) : i \in 1..Len(s)
      BY <1>1, <2>2
    <3>. QED BY <1>4, <2>3, <2>4, <3>1
  <2>7. \A b \in Block : (\A i \in 1..Full(n) : s[i] # b) => C[b] = U[b]
    BY <2>4
  <2>8. C \in [Block -> Nat]
    <3>. SUFFICES ASSUME NEW b \in Block PROVE C[b] \in Nat
      BY <2>5
    <3>1. CASE \E i \in 1..Full(n) : s[i] = b
      BY <1>1, <2>6, <3>1
    <3>2. CASE ~\E i \in 1..Full(n) : s[i] = b
      BY <1>5, <2>7, <3>2
    <3>. QED BY <3>1, <3>2
  <2>9. \A b \in Block : (\A i \in 1..Len(s) : s[i] # b) => C[b] = cached[b]
    BY <1>3, <1>5, <2>6, <2>7
  <2>10. ASSUME NEW i \in 1..Len(s), i > Full(n)
         PROVE  C[s[i]] = IF i <= Len(old) THEN cached[s[i]] ELSE 0
    <3>1. \A k \in 1..Full(n) : s[k] # s[i]
      BY <1>1, <2>2, <2>10 DEF Distinct
    <3>2. C[s[i]] = U[s[i]]
      BY <1>4, <2>7, <3>1
    <3>. QED BY <1>2, <1>4, <1>5, <3>2
  <2>11. \A i \in 1..Len(s) : i <= Full(n) => C[s[i]] = i
    BY <1>1, <2>6
  <2>. QED BY <2>1, <2>8, <2>9, <2>10, <2>11
<1>. QED BY <1>6, <1>7, <1>8

\* The same for a delayed allocation alone.
LEMMA AllocatedLaterFacts ==
  ASSUME cached \in [Block -> Nat],
         NEW s \in Seq(Block), Distinct(s), NEW old \in Seq(Block), Len(old) <= Len(s),
         \A i \in 1..Len(old) : s[i] = old[i],
         NEW n \in Nat
  PROVE  /\ Allocated(s, old, n, TRUE) \in [Block -> Nat]
         /\ \A b \in Block : (\A i \in 1..Len(s) : s[i] # b) => Allocated(s, old, n, TRUE)[b] = cached[b]
         /\ \A i \in 1..Len(s) :
              Allocated(s, old, n, TRUE)[s[i]] = IF i <= Len(old) THEN cached[s[i]] ELSE 0
BY AllocatedFacts, ZenonT(60)

\* And for one that is not delayed and has its full blocks.
LEMMA AllocatedNowFacts ==
  ASSUME cached \in [Block -> Nat],
         NEW s \in Seq(Block), Distinct(s), NEW old \in Seq(Block), Len(old) <= Len(s),
         \A i \in 1..Len(old) : s[i] = old[i],
         NEW n \in Nat, Full(n) <= Len(s)
  PROVE  /\ Allocated(s, old, n, FALSE) \in [Block -> Nat]
         /\ \A b \in Block : (\A i \in 1..Len(s) : s[i] # b) => Allocated(s, old, n, FALSE)[b] = cached[b]
         /\ \A i \in 1..Len(s) : i <= Full(n) => Allocated(s, old, n, FALSE)[s[i]] = i
         /\ \A i \in 1..Len(s) : i > Full(n) =>
              Allocated(s, old, n, FALSE)[s[i]] = IF i <= Len(old) THEN cached[s[i]] ELSE 0
BY AllocatedFacts, ZenonT(60)
=============================================================================
