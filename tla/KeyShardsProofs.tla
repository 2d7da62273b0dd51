-------------------------- MODULE KeyShardsProofs --------------------------
(***************************************************************************)
(* The shares of the ranks leave no key out, and what the scheduler finds  *)
(* is there for every rank, for any number of ranks, ranks per head,       *)
(* decode-context ranks, layers, jobs and blocks and any number of faults. *)
(***************************************************************************)
EXTENDS KeyShards, FiniteSetTheorems, SequenceTheorems, WellFoundedInduction, TLAPS

-----------------------------------------------------------------------------
(* Arithmetic *)

\* Quotient and remainder.
LEMMA DivFacts ==
  ASSUME NEW a \in Nat, NEW b \in Nat \ {0}
  PROVE  /\ a \div b \in Nat /\ a % b \in Nat /\ a % b < b
         /\ a = b * (a \div b) + (a % b)
  OBVIOUS

\* They are the only numbers of that kind.
LEMMA DivUnique ==
  ASSUME NEW b \in Nat \ {0}, NEW q \in Nat, NEW s \in Nat, s < b
  PROVE  b * q + s \in Nat /\ (b * q + s) \div b = q /\ (b * q + s) % b = s
<1>. DEFINE a == b * q + s  d == a \div b  m == a % b
<1>1. a \in Nat
  OBVIOUS
<1>2. d \in Nat /\ m \in Nat /\ m < b /\ a = b * d + m
  BY <1>1, DivFacts
<1>3. a = b * q + s
  OBVIOUS
<1>. HIDE DEF a, d, m
<1>4. CASE d < q
  <2>1. b * (d + 1) <= b * q
    BY <1>2, <1>4
  <2>. QED BY <1>2, <1>3, <2>1
<1>5. CASE d > q
  <2>1. b * (q + 1) <= b * d
    BY <1>2, <1>5
  <2>. QED BY <1>2, <1>3, <2>1
<1>6. CASE d = q
  BY <1>2, <1>3, <1>6
<1>7. d = q /\ m = s
  BY <1>2, <1>3, <1>4, <1>5, <1>6
<1>. QED BY <1>1, <1>7 DEF a, d, m

\* A set of naturals with an upper bound has a greatest element.
LEMMA MaxExists ==
  ASSUME NEW n \in Nat, NEW S \in SUBSET (0..n), S # {}
  PROVE  Max(S) \in S
<1>. DEFINE Less == {ss \in Nat \X Nat : ss[1] < ss[2]}
            T == {n - x : x \in S}
<1>1. T \subseteq Nat /\ T # {}
  OBVIOUS
<1>2. IsWellFoundedOn(Less, Nat)
  BY NatLessThanWellFounded DEF OpToRel
<1>. HIDE DEF Less
<1>3. PICK y \in T : \A z \in T : <<z, y>> \notin Less
  BY <1>1, <1>2, WFMin
<1>4. \A z \in T : ~(z < y)
  BY <1>1, <1>3 DEF Less
<1>5. PICK x \in S : y = n - x
  OBVIOUS
<1>6. \A w \in S : x >= w
  BY <1>4, <1>5
<1>. QED BY <1>6 DEF Max

-----------------------------------------------------------------------------
(* The inductive invariant *)

\* What one of the transfers has, and what a fault cost.
Known == keys \cup gone

\* The choices of a behaviour, which no step changes.
Setup ==
  /\ jobs \in JobLists /\ dcpSize \in DcpSizes /\ path \in {"whole", "layers"}
  /\ sharding => dcpSize = 1

\* A rank is past a place when its keys are known, and asks for what is not.
SaveInv ==
  \A r \in Rank :
    /\ place[r] \in Nat \ {0}
    /\ \A p \in 1..place[r] - 1 : KeysToSave(r, p) \subseteq Known
    /\ asking[r] # {} => KeysToSave(r, place[r]) \subseteq Known \cup asking[r]

\* The blocks the scheduler found were complete then.
HitInv ==
  /\ hit = -1 \/ hit \in 0..Len(jobs[Len(jobs)])
  /\ \A i \in 1..hit : QueryKeys(jobs[Len(jobs)][i]) \subseteq Known

ShardInv ==
  /\ Setup
  /\ DOMAIN place = Rank /\ DOMAIN asking = Rank /\ DOMAIN fetched = Rank /\ DOMAIN invalid = Rank
  /\ SaveInv /\ HitInv /\ HitIsLoadable /\ FailedExact

-----------------------------------------------------------------------------
(* Keys of ranks and keys of blocks *)

\* Layers are numbered from 0; there is one number when all are one key.
LEMMA LayerFacts ==
  ASSUME Setup
  PROVE  /\ Cardinality(Layer) \in Nat \ {0}
         /\ Layer = 0..Cardinality(Layer) - 1
<1>1. CASE path = "whole"
  <2>1. Layer = {0} /\ Cardinality(Layer) = 1
    BY <1>1, FS_Singleton DEF Layer
  <2>. QED BY <2>1
<1>2. CASE path = "layers"
  <2>1. Layer = 0..Depth - 1 /\ Depth \in Nat \ {0}
    BY <1>2, ShardAssumption DEF Layer
  <2>2. Cardinality(0..Depth - 1) = (Depth - 1) - 0 + 1
    BY <2>1, FS_Interval
  <2>3. Cardinality(Layer) = Depth
    BY <2>1, <2>2
  <2>. QED BY <2>1, <2>3
<1>. QED BY <1>1, <1>2 DEF Setup

\* Jobs are sequences of sequences of blocks.
LEMMA JobFacts ==
  ASSUME Setup
  PROVE  /\ jobs \in Seq(Seq(Nat)) /\ Len(jobs) \in Nat \ {0}
         /\ \A j \in 1..Len(jobs) : jobs[j] \in Seq(Nat)
         /\ jobs[Len(jobs)] \in Seq(Nat)
<1>1. jobs \in Seq(Seq(Nat)) /\ jobs # << >>
  BY ShardAssumption DEF Setup
<1>2. Len(jobs) \in Nat /\ Len(jobs) # 0
  BY <1>1
<1>. QED BY <1>1, <1>2

\* The place of a job's layer, and back.
LEMMA PlaceFacts ==
  ASSUME Setup, NEW j \in 1..Len(jobs), NEW l \in Layer
  PROVE  \E p \in 1..Places : JobAt(p) = jobs[j] /\ LayerAt(p) = l
<1>. DEFINE C == Cardinality(Layer)  p == (C * (j - 1) + l) + 1
<1>1. C \in Nat \ {0} /\ l \in Nat /\ l < C
  BY LayerFacts
<1>2. Len(jobs) \in Nat /\ j - 1 \in Nat /\ j <= Len(jobs)
  BY JobFacts
<1>3. Places = Len(jobs) * C
  BY DEF Places
<1>4. /\ C * (j - 1) + l \in Nat
      /\ (C * (j - 1) + l) \div C = j - 1 /\ (C * (j - 1) + l) % C = l
  <2>. HIDE DEF C
  <2>. QED BY <1>1, <1>2, DivUnique
<1>5. p - 1 = C * (j - 1) + l
  BY <1>4
<1>6. (p - 1) \div C + 1 = j
  BY <1>2, <1>4, <1>5
<1>7. JobAt(p) = jobs[j] /\ LayerAt(p) = l
  <2>1. JobAt(p) = jobs[(p - 1) \div C + 1] /\ LayerAt(p) = (p - 1) % C
    BY DEF JobAt, LayerAt
  <2>. HIDE DEF p, C
  <2>. QED BY <1>4, <1>5, <1>6, <2>1
<1>8. p \in 1..Places
  <2>. HIDE DEF C
  <2>1. C * (j - 1) + C <= C * Len(jobs)
    <3>1. C * j <= C * Len(jobs)
      BY <1>1, <1>2
    <3>2. C * (j - 1) + C = C * j
      BY <1>1, <1>2
    <3>. QED BY <3>1, <3>2
  <2>2. C * Len(jobs) = Len(jobs) * C
    BY <1>1, <1>2
  <2>3. C * (j - 1) \in Nat /\ C * Len(jobs) \in Nat
    BY <1>1, <1>2
  <2>. QED BY <1>1, <1>3, <1>4, <2>1, <2>2, <2>3
<1>. HIDE DEF p
<1>. QED BY <1>7, <1>8

\* A rank's key is one of those the scheduler asks for.
LEMMA RankKeyAsked ==
  ASSUME Setup, NEW r \in Rank, NEW b, NEW l \in Layer
  PROVE  RankKey(r, b, l) \in QueryKeys(b)
<1>1. /\ TpSize \in Nat \ {0} /\ PutStep \in Nat \ {0} /\ TpSize % PutStep = 0
      /\ dcpSize \in Nat \ {0} /\ r \in Nat /\ r < TpSize
  BY ShardAssumption DEF Setup, Rank
<1>2. /\ r \div PutStep \in Nat /\ r % PutStep \in Nat /\ r = PutStep * (r \div PutStep) + (r % PutStep)
      /\ Heads \in Nat /\ TpSize = PutStep * Heads
  <2>1. TpSize = PutStep * (TpSize \div PutStep) + (TpSize % PutStep) /\ TpSize \div PutStep \in Nat
    BY <1>1, DivFacts
  <2>2. PutStep * (TpSize \div PutStep) + 0 = PutStep * (TpSize \div PutStep)
    BY <1>1, <2>1
  <2>. QED BY <1>1, <2>1, <2>2, DivFacts DEF Heads
<1>. DEFINE h == r \div PutStep
<1>3. h < Heads
  <2>. DEFINE m == r % PutStep
  <2>1. h \in Nat /\ m \in Nat /\ r = PutStep * h + m
    BY <1>2
  <2>. HIDE DEF h, m
  <2>2. CASE Heads <= h
    <3>1. PutStep * Heads <= PutStep * h
      BY <1>1, <1>2, <2>1, <2>2
    <3>. QED BY <1>1, <1>2, <2>1, <3>1
  <2>. QED BY <1>2, <2>1, <2>2
<1>4. h \in 0..Heads - 1
  BY <1>2, <1>3
<1>5. r % dcpSize \in 0..dcpSize - 1
  <2>1. r % dcpSize \in Nat /\ r % dcpSize < dcpSize
    BY <1>1, DivFacts
  <2>. QED BY <1>1, <2>1
<1>. QED BY <1>4, <1>5 DEF RankKey, QueryKeys

\* A rank's share is part of the list: the ranks of one head with the same
\* remainder have the places with that remainder.
LEMMA ShardFacts ==
  ASSUME Setup, sharding, NEW r \in Rank, NEW list \in Seq(Nat),
         NEW x \in 1..Len(list), (x - 1) % PutStep = r % PutStep
  PROVE  list[x] \in Range(Shard(r, list))
<1>. DEFINE m == r % PutStep  k == (x - 1) \div PutStep  n == Len(list)
            c == (n - m + PutStep - 1) \div PutStep
<1>1. PutStep \in Nat \ {0} /\ r \in Nat
  BY ShardAssumption DEF Rank
<1>2. x - 1 \in Nat /\ n \in Nat /\ x <= n
  OBVIOUS
<1>3. k \in Nat /\ m \in Nat /\ m < PutStep /\ x - 1 = PutStep * k + m
  BY <1>1, <1>2, DivFacts
<1>4. n - m + PutStep - 1 \in Nat
  <2>. HIDE DEF k, m
  <2>. QED BY <1>1, <1>2, <1>3
<1>5. /\ c \in Nat /\ (n - m + PutStep - 1) % PutStep \in Nat
      /\ (n - m + PutStep - 1) % PutStep < PutStep
      /\ n - m + PutStep - 1 = PutStep * c + ((n - m + PutStep - 1) % PutStep)
  BY <1>1, <1>4, DivFacts
<1>6. k + 1 <= c
  <2>. DEFINE z == (n - m + PutStep - 1) % PutStep
  <2>1. z \in Nat /\ z < PutStep /\ n - m + PutStep - 1 = PutStep * c + z
    BY <1>5
  <2>. HIDE DEF c, k, m, n, z
  <2>2. CASE c <= k
    <3>1. PutStep * c <= PutStep * k
      BY <1>1, <1>3, <1>5, <2>2
    <3>2. PutStep * c \in Nat /\ PutStep * k \in Nat
      BY <1>1, <1>3, <1>5
    <3>. QED BY <1>1, <1>2, <1>3, <2>1, <3>1, <3>2
  <2>. QED BY <1>3, <1>5, <2>2
<1>7. k + 1 \in 1..c
  <2>. HIDE DEF c, k
  <2>. QED BY <1>3, <1>5, <1>6
<1>8. Shard(r, list) = [i \in 1..c |-> list[m + (i - 1) * PutStep + 1]]
  BY DEF Shard
<1>9. m + ((k + 1) - 1) * PutStep + 1 = x
  <2>. HIDE DEF k, m
  <2>1. ((k + 1) - 1) * PutStep = PutStep * k
    BY <1>1, <1>3
  <2>. QED BY <1>1, <1>2, <1>3, <2>1
<1>. HIDE DEF c, k, m
<1>. DEFINE y == k + 1  f == [i \in 1..c |-> list[m + (i - 1) * PutStep + 1]]
<1>10. y \in 1..c /\ m + (y - 1) * PutStep + 1 = x
  <2>1. y \in 1..c
    BY <1>7
  <2>2. m + (y - 1) * PutStep + 1 = x
    BY <1>9, Zenon
  <2>. QED BY <2>1, <2>2
<1>11. DOMAIN f = 1..c /\ \A i \in 1..c : f[i] = list[m + (i - 1) * PutStep + 1]
  OBVIOUS
<1>12. Shard(r, list) = f
  BY <1>8
<1>. HIDE DEF y, f
<1>13. y \in DOMAIN f /\ f[y] = list[x]
  BY <1>10, <1>11
<1>. QED BY <1>12, <1>13 DEF Range

\* Every key of a block in a job is some rank's to save.
LEMMA KeysCovered ==
  ASSUME Setup, NEW j \in 1..Len(jobs), NEW x \in 1..Len(jobs[j]),
         NEW q \in QueryKeys(jobs[j][x])
  PROVE  \E r \in Rank : \E p \in 1..Places : q \in KeysToSave(r, p)
<1>1. PICK l \in Layer, head \in 0..Heads - 1, dcp \in 0..dcpSize - 1 : q = Key(jobs[j][x], l, head, dcp)
  BY DEF QueryKeys
<1>2. PICK p \in 1..Places : JobAt(p) = jobs[j] /\ LayerAt(p) = l
  BY PlaceFacts
<1>3. /\ TpSize \in Nat \ {0} /\ PutStep \in Nat \ {0} /\ TpSize % PutStep = 0
      /\ dcpSize \in Nat \ {0} /\ PutStep % dcpSize = 0
  BY ShardAssumption DEF Setup
<1>4. Heads \in Nat /\ TpSize = PutStep * Heads /\ head \in Nat /\ head < Heads
  <2>1. TpSize = PutStep * (TpSize \div PutStep) + (TpSize % PutStep) /\ TpSize \div PutStep \in Nat
    BY <1>3, DivFacts
  <2>2. Heads \in Nat /\ TpSize = PutStep * Heads + 0
    BY <1>3, <2>1 DEF Heads
  <2>3. PutStep * Heads + 0 = PutStep * Heads
    BY <1>3, <2>2
  <2>. QED BY <2>2, <2>3
<1>5. jobs[j] \in Seq(Nat) /\ x - 1 \in Nat /\ dcp \in Nat /\ dcp < dcpSize
  BY <1>3, JobFacts
<1>6. PICK m \in Nat : /\ m < PutStep /\ m % dcpSize = dcp
                       /\ sharding => m = (x - 1) % PutStep
  <2>1. CASE sharding
    <3>1. (x - 1) % PutStep \in Nat /\ (x - 1) % PutStep < PutStep
      BY <1>3, <1>5, DivFacts
    <3>2. dcpSize = 1 /\ dcp = 0
      BY <1>5, <2>1 DEF Setup
    <3>3. ((x - 1) % PutStep) % 1 = 0
      <4>. DEFINE y == (x - 1) % PutStep
      <4>1. y \in Nat
        BY <3>1
      <4>. HIDE DEF y
      <4>2. y % 1 = 0
        BY <4>1, DivFacts
      <4>. QED BY <4>2 DEF y
    <3>. QED BY <3>1, <3>2, <3>3
  <2>2. CASE ~sharding
    <3>1. PutStep = dcpSize * (PutStep \div dcpSize) + 0 /\ PutStep \div dcpSize \in Nat
      BY <1>3, DivFacts
    <3>2. PutStep \div dcpSize >= 1
      BY <1>3, <3>1
    <3>3. dcpSize <= PutStep
      <4>. DEFINE y == PutStep \div dcpSize
      <4>1. y \in Nat /\ y >= 1 /\ PutStep = dcpSize * y + 0
        BY <3>1, <3>2
      <4>. HIDE DEF y
      <4>2. dcpSize * 1 <= dcpSize * y
        BY <1>3, <4>1
      <4>. QED BY <1>3, <4>1, <4>2
    <3>4. dcp % dcpSize = dcp
      <4>1. dcpSize * 0 + dcp = dcp /\ 0 \in Nat
        BY <1>3, <1>5
      <4>2. (dcpSize * 0 + dcp) % dcpSize = dcp
        BY <1>3, <1>5, <4>1, DivUnique
      <4>. QED BY <4>1, <4>2
    <3>5. dcp < PutStep
      BY <1>3, <1>5, <3>3
    <3>. QED BY <1>5, <2>2, <3>4, <3>5
  <2>. QED BY <2>1, <2>2
<1>. DEFINE r == PutStep * head + m
<1>7. r \in Nat /\ r \div PutStep = head /\ r % PutStep = m
  BY <1>3, <1>4, <1>6, DivUnique
<1>8. r \in Rank
  <2>1. PutStep * (head + 1) <= PutStep * Heads
    BY <1>3, <1>4
  <2>2. PutStep * (head + 1) = PutStep * head + PutStep /\ PutStep * head \in Nat
    BY <1>3, <1>4
  <2>3. r < TpSize
    BY <1>3, <1>4, <1>6, <2>1, <2>2
  <2>. HIDE DEF r
  <2>. QED BY <1>3, <1>7, <2>3 DEF Rank
<1>9. r % dcpSize = dcp
  <2>. DEFINE e == PutStep \div dcpSize  f == m \div dcpSize
  <2>1. PutStep = dcpSize * e + 0 /\ e \in Nat
    BY <1>3, DivFacts
  <2>2. m = dcpSize * f + dcp /\ f \in Nat
    BY <1>3, <1>6, DivFacts
  <2>. HIDE DEF e, f
  <2>3. PutStep * head = dcpSize * (e * head) /\ e * head \in Nat
    BY <1>3, <1>4, <2>1
  <2>4. dcpSize * (e * head) + dcpSize * f = dcpSize * (e * head + f) /\ e * head + f \in Nat
    <3>. DEFINE y == e * head
    <3>1. y \in Nat
      BY <2>3
    <3>. HIDE DEF y
    <3>2. dcpSize * y + dcpSize * f = dcpSize * (y + f) /\ y + f \in Nat
      BY <1>3, <2>2, <3>1
    <3>. QED BY <3>2 DEF y
  <2>5. r = dcpSize * (e * head + f) + dcp
    <3>1. dcpSize * (e * head) \in Nat /\ dcpSize * f \in Nat
      BY <1>3, <2>2, <2>3
    <3>. QED BY <1>5, <2>2, <2>3, <2>4, <3>1
  <2>. HIDE DEF r
  <2>. QED BY <1>3, <1>5, <2>4, <2>5, DivUnique
<1>. HIDE DEF r
<1>10. jobs[j][x] \in Range(Shard(r, jobs[j]))
  <2>1. CASE sharding
    BY <1>5, <1>6, <1>7, <1>8, <2>1, ShardFacts
  <2>2. CASE ~sharding
    BY <1>5, <2>2 DEF Shard, Range
  <2>. QED BY <2>1, <2>2
<1>11. q = RankKey(r, jobs[j][x], l)
  BY <1>1, <1>7, <1>9 DEF RankKey
<1>12. q \in KeysToSave(r, p)
  BY <1>2, <1>10, <1>11 DEF KeysToSave
<1>. QED BY <1>8, <1>12

-----------------------------------------------------------------------------
(* The steps *)

\* A step that changes no choice, forgets nothing known and gets nothing
\* keeps what the scheduler found.
LEMMA HitKept ==
  ASSUME HitInv, UNCHANGED <<path, jobs, dcpSize, hit>>, Known \subseteq Known'
  PROVE  HitInv'
<1>1. \A b : QueryKeys(b)' = QueryKeys(b)
  BY DEF QueryKeys, Heads, Layer
<1>. QED BY <1>1 DEF HitInv

\* What one rank saves says nothing of the others.
LEMMA SaveKept ==
  ASSUME SaveInv, UNCHANGED <<path, jobs, dcpSize, sharding>>, Known \subseteq Known',
         NEW r \in Rank,
         \A q \in Rank \ {r} : place'[q] = place[q] /\ asking'[q] = asking[q],
         place'[r] \in {place[r], place[r] + 1},
         place'[r] = place[r] + 1 => KeysToSave(r, place[r]) \subseteq Known',
         asking'[r] # {} => KeysToSave(r, place'[r]) \subseteq Known' \cup asking'[r]
  PROVE  SaveInv'
<1>1. \A q, p : KeysToSave(q, p)' = KeysToSave(q, p)
  BY DEF KeysToSave, RankKey, LayerAt, JobAt, Shard, Layer
<1>2. ASSUME NEW q \in Rank \ {r}
      PROVE  /\ place'[q] \in Nat \ {0}
             /\ \A p \in 1..place'[q] - 1 : KeysToSave(q, p) \subseteq Known'
             /\ asking'[q] # {} => KeysToSave(q, place'[q]) \subseteq Known' \cup asking'[q]
  BY <1>2 DEF SaveInv
<1>3. /\ place'[r] \in Nat \ {0}
      /\ \A p \in 1..place'[r] - 1 : KeysToSave(r, p) \subseteq Known'
  <2>1. place[r] \in Nat \ {0} /\ \A p \in 1..place[r] - 1 : KeysToSave(r, p) \subseteq Known'
    BY DEF SaveInv
  <2>2. CASE place'[r] = place[r]
    BY <2>1, <2>2
  <2>3. CASE place'[r] = place[r] + 1
    <3>1. \A p \in 1..place'[r] - 1 : p = place[r] \/ p \in 1..place[r] - 1
      BY <2>1, <2>3
    <3>. QED BY <2>1, <2>3, <3>1
  <2>. QED BY <2>2, <2>3
<1>4. \A q \in Rank : /\ place'[q] \in Nat \ {0}
                      /\ \A p \in 1..place'[q] - 1 : KeysToSave(q, p) \subseteq Known'
                      /\ asking'[q] # {} => KeysToSave(q, place'[q]) \subseteq Known' \cup asking'[q]
  BY <1>2, <1>3
<1>5. Rank' = Rank
  BY DEF Rank
<1>. QED BY <1>1, <1>4, <1>5 DEF SaveInv

\* Nothing is saved, found or loaded at the start.
LEMMA InitShard == KeyInit => ShardInv
<1>. SUFFICES ASSUME KeyInit PROVE ShardInv
  OBVIOUS
<1>1. Setup
  <2>1. dcpSize \in Nat \ {0}
    BY ShardAssumption DEF KeyInit
  <2>2. ~(dcpSize > 1) => dcpSize = 1
    BY <2>1
  <2>3. dcpSize > 1 => sharding = FALSE
    BY DEF KeyInit
  <2>4. sharding => dcpSize = 1
    BY <2>2, <2>3
  <2>. QED BY <2>4 DEF KeyInit, Setup
<1>2. SaveInv
  BY DEF KeyInit, SaveInv
<1>3. HitInv
  BY DEF KeyInit, HitInv
<1>. QED BY <1>1, <1>2, <1>3 DEF ShardInv, KeyInit, HitIsLoadable, FailedExact

\* What exists need not be put.
LEMMA AskShard ==
  ASSUME ShardInv, NEW r \in Rank, AskExists(r)
  PROVE  ShardInv'
<1>1. PICK missing \in {KeysToSave(r, place[r]), KeysToSave(r, place[r]) \ keys} :
        /\ asking' = [asking EXCEPT ![r] = missing]
        /\ place' = [place EXCEPT ![r] = IF missing = {} THEN @ + 1 ELSE @]
  BY DEF AskExists
<1>2. UNCHANGED <<path, jobs, dcpSize, sharding, keys, hit, fetched, invalid, gone>>
  BY DEF AskExists
<1>3. Known' = Known
  BY <1>2 DEF Known
<1>4. SaveInv'
  <2>1. \A q \in Rank \ {r} : place'[q] = place[q] /\ asking'[q] = asking[q]
    BY <1>1 DEF ShardInv
  <2>2. place'[r] = (IF missing = {} THEN place[r] + 1 ELSE place[r]) /\ asking'[r] = missing
    BY <1>1 DEF ShardInv
  <2>3. place'[r] = place[r] + 1 => missing = {}
    BY <2>2 DEF ShardInv, SaveInv
  <2>4. KeysToSave(r, place[r]) \subseteq Known' \cup missing
    BY <1>1, <1>3 DEF Known
  <2>. QED BY <1>2, <1>3, <2>1, <2>2, <2>3, <2>4, SaveKept DEF ShardInv
<1>5. HitInv'
  BY <1>2, <1>3, HitKept DEF ShardInv
<1>6. HitIsLoadable' /\ FailedExact'
  BY <1>2 DEF ShardInv, HitIsLoadable, FailedExact, Rank
<1>. QED BY <1>1, <1>2, <1>4, <1>5, <1>6 DEF ShardInv, Setup, Rank

\* What was put is there, or a fault cost it.
LEMMA PutShard ==
  ASSUME ShardInv, NEW r \in Rank, PutMissing(r)
  PROVE  ShardInv'
<1>1. /\ asking[r] # {} /\ asking' = [asking EXCEPT ![r] = {}]
      /\ place' = [place EXCEPT ![r] = @ + 1]
      /\ UNCHANGED <<path, jobs, dcpSize, sharding, hit, fetched, invalid>>
      /\ gone \subseteq gone'
      /\ \/ keys' = keys \cup asking[r] /\ gone' = gone
         \/ keys' = keys /\ gone' = gone \cup (asking[r] \ keys)
  BY DEF PutMissing
<1>2. Known' = Known \cup asking[r]
  BY <1>1 DEF Known
<1>3. SaveInv'
  <2>1. \A q \in Rank \ {r} : place'[q] = place[q] /\ asking'[q] = asking[q]
    BY <1>1 DEF ShardInv
  <2>2. place'[r] = place[r] + 1 /\ asking'[r] = {}
    BY <1>1 DEF ShardInv
  <2>3. KeysToSave(r, place[r]) \subseteq Known'
    BY <1>1, <1>2 DEF ShardInv, SaveInv
  <2>. QED BY <1>1, <1>2, <2>1, <2>2, <2>3, SaveKept DEF ShardInv
<1>4. HitInv'
  BY <1>1, <1>2, HitKept DEF ShardInv
<1>5. HitIsLoadable' /\ FailedExact'
  BY <1>1 DEF ShardInv, HitIsLoadable, FailedExact, Rank
<1>. QED BY <1>1, <1>3, <1>4, <1>5 DEF ShardInv, Setup, Rank

\* The longest run of complete blocks is one.
LEMMA LookUpShard ==
  ASSUME ShardInv, LookUp
  PROVE  ShardInv'
<1>. DEFINE list == jobs[Len(jobs)]
            S == {n \in 0..Len(list) : \A i \in 1..n : QueryKeys(list[i]) \subseteq keys}
<1>1. /\ hit' = Max(S)
      /\ UNCHANGED <<path, jobs, dcpSize, sharding, place, asking, keys, fetched, invalid, gone>>
  BY DEF LookUp, HitBlocks
<1>2. list \in Seq(Nat)
  BY JobFacts DEF ShardInv
<1>3. Len(list) \in Nat
  BY <1>2
<1>4. S \in SUBSET (0..Len(list)) /\ 0 \in S
  BY <1>3
<1>5. Max(S) \in S
  <2>. HIDE DEF S, list
  <2>. QED BY <1>3, <1>4, MaxExists
<1>6. HitInv'
  <2>1. hit' \in 0..Len(list) /\ \A i \in 1..hit' : QueryKeys(list[i]) \subseteq keys
    BY <1>1, <1>5
  <2>2. \A b : QueryKeys(b)' = QueryKeys(b)
    BY <1>1 DEF QueryKeys, Heads, Layer
  <2>. QED BY <1>1, <2>1, <2>2 DEF HitInv, Known
<1>7. SaveInv'
  <2>1. \A q, p : KeysToSave(q, p)' = KeysToSave(q, p)
    BY <1>1 DEF KeysToSave, RankKey, LayerAt, JobAt, Shard, Layer
  <2>. QED BY <1>1, <2>1 DEF ShardInv, SaveInv, Known, Rank
<1>8. HitIsLoadable' /\ FailedExact'
  BY <1>1 DEF ShardInv, HitIsLoadable, FailedExact, Rank
<1>. QED BY <1>1, <1>6, <1>7, <1>8 DEF ShardInv, Setup, Rank

\* A rotated list has the same members.
LEMMA RotateFacts ==
  ASSUME NEW list \in Seq(Nat), NEW n \in 0..Len(list)
  PROVE  /\ Rotate(list, n) \in Seq(Nat) /\ Len(Rotate(list, n)) = Len(list)
         /\ \A i \in 1..Len(list) : \E k \in 1..Len(list) : Rotate(list, n)[i] = list[k]
<1>. DEFINE a == SubSeq(list, n + 1, Len(list))  b == SubSeq(list, 1, n)
<1>1. Len(list) \in Nat /\ n \in Nat /\ n <= Len(list)
  OBVIOUS
<1>2. /\ a \in Seq(Nat) /\ Len(a) = Len(list) - n
      /\ \A i \in 1..Len(list) - n : a[i] = list[n + i] /\ n + i \in 1..Len(list)
  <2>1. n + 1 \in 1..Len(list) + 1
    BY <1>1
  <2>. QED BY <1>1, <2>1, SubSeqProperties
<1>3. b \in Seq(Nat) /\ Len(b) = n /\ \A i \in 1..n : b[i] = list[i] /\ i \in 1..Len(list)
  BY <1>1, SubSeqProperties
<1>4. Rotate(list, n) = a \o b
  BY DEF Rotate
<1>. HIDE DEF a, b
<1>5. a \o b \in Seq(Nat) /\ Len(a \o b) = Len(list)
  BY <1>1, <1>2, <1>3, ConcatProperties
<1>6. ASSUME NEW i \in 1..Len(list) PROVE \E k \in 1..Len(list) : (a \o b)[i] = list[k]
  <2>1. CASE i <= Len(list) - n
    <3>1. i \in 1..Len(list) - n /\ i \in 1..Len(a)
      BY <1>1, <1>2, <2>1
    <3>2. (a \o b)[i] = a[i]
      BY <1>2, <1>3, <3>1, ConcatProperties
    <3>. QED BY <1>2, <3>1, <3>2
  <2>2. CASE i > Len(list) - n
    <3>0. Len(a) \in Nat /\ Len(b) \in Nat /\ Len(a) + Len(b) = Len(list) /\ Len(b) = n
      BY <1>1, <1>2, <1>3
    <3>1. i \in Len(a) + 1..Len(a) + Len(b) /\ i - Len(a) \in 1..n
      BY <1>2, <2>2, <3>0
    <3>2. (a \o b)[i] = b[i - Len(a)]
      <4>1. \A k \in 1..Len(a) + Len(b) : (a \o b)[k] = IF k <= Len(a) THEN a[k] ELSE b[k - Len(a)]
        <5>1. a \in Seq(Nat) /\ b \in Seq(Nat)
          BY <1>2, <1>3
        <5>. QED BY <5>1, ConcatProperties, ZenonT(60)
      <4>2. i \in 1..Len(a) + Len(b) /\ ~(i <= Len(a))
        BY <3>0, <3>1
      <4>. QED BY <4>1, <4>2, Zenon
    <3>3. b[i - Len(a)] = list[i - Len(a)] /\ i - Len(a) \in 1..Len(list)
      BY <1>3, <3>1, Zenon
    <3>. QED BY <3>2, <3>3, Zenon
  <2>3. i <= Len(list) - n \/ i > Len(list) - n
    BY <1>1
  <2>. QED BY <2>1, <2>2, <2>3
<1>. QED BY <1>4, <1>5, <1>6

\* A rank starts at a place in the list.
LEMMA ShiftFacts ==
  ASSUME NEW r \in Rank, NEW n \in Nat \ {0}
  PROVE  Shift(r, n) \in 0..n
<1>1. r \in Nat /\ r < TpSize /\ TpSize \in Nat \ {0}
  BY ShardAssumption DEF Rank
<1>2. r % n \in 0..n
  <2>1. r % n \in Nat /\ r % n < n
    BY <1>1, DivFacts
  <2>. QED BY <2>1
<1>3. (r * n) \div TpSize \in 0..n
  <2>. DEFINE d == (r * n) \div TpSize  m == (r * n) % TpSize
  <2>0. r * n \in Nat
    BY <1>1
  <2>1. d \in Nat /\ m \in Nat /\ r * n = TpSize * d + m
    BY <1>1, <2>0, DivFacts
  <2>. HIDE DEF d, m
  <2>2. r * n <= TpSize * n
    BY <1>1
  <2>3. ASSUME d > n PROVE FALSE
    <3>1. TpSize * (n + 1) <= TpSize * d
      BY <1>1, <2>1, <2>3
    <3>2. TpSize * (n + 1) = TpSize * n + TpSize /\ TpSize * n \in Nat /\ TpSize * d \in Nat
      BY <1>1, <2>1
    <3>. QED BY <1>1, <2>0, <2>1, <2>2, <3>1, <3>2
  <2>4. d <= n
    <3>1. d <= n \/ d > n
      BY <2>1
    <3>. QED BY <2>3, <3>1
  <2>5. d \in 0..n
    BY <2>1, <2>4
  <2>. QED BY <2>5 DEF d
<1>. QED BY <1>2, <1>3 DEF Shift

\* A get asks for found blocks in some order: a key it misses was lost, it is
\* written to its own block, and the failed blocks are those with such a key.
LEMMA GetFacts ==
  ASSUME ShardInv, hit > 0, NEW r \in Rank, NEW failed \in BOOLEAN
  PROVE  /\ Asked(r) \subseteq Known
         /\ \A f \in Got(r, failed) : /\ f[1] = f[2].block
                                      /\ f[3] # 0 => (failed /\ f[2] \in Asked(r)) \/ f[2] \in gone
         /\ path = "whole" => Failed(r, failed) = {f[2].block : f \in {g \in Got(r, failed) : g[3] # 0}}
<1>1. /\ Setup /\ hit \in 1..Len(jobs[Len(jobs)]) /\ jobs[Len(jobs)] \in Seq(Nat)
      /\ Len(jobs[Len(jobs)]) \in Nat
  <2>1. jobs[Len(jobs)] \in Seq(Nat) /\ Len(jobs[Len(jobs)]) \in Nat
    BY JobFacts DEF ShardInv
  <2>. QED BY <2>1 DEF ShardInv, HitInv
<1>2. /\ Found \in Seq(Nat) /\ Len(Found) = hit
      /\ \A i \in 1..hit : Found[i] = jobs[Len(jobs)][i]
  BY <1>1, SubSeqProperties DEF Found
<1>3. BlockIds(r, Found) = Order(r)
  BY <1>2 DEF BlockIds, Order
<1>4. \A i \in 1..hit : \E k \in 1..hit : Order(r)[i] = jobs[Len(jobs)][k]
  <2>1. Shift(r, hit) \in 0..hit
    BY <1>1, ShiftFacts
  <2>2. \A i \in 1..hit : \E k \in 1..hit : Order(r)[i] = Found[k]
    BY <1>2, <2>1, RotateFacts DEF Order
  <2>3. \A k \in 1..hit : Found[k] = jobs[Len(jobs)][k]
    BY <1>2
  <2>. QED BY <2>2, <2>3, Zenon
<1>5. \A i \in 1..hit, l \in Layer : /\ RankKey(r, Order(r)[i], l) \in Known
                                     /\ RankKey(r, Order(r)[i], l).block = Order(r)[i]
  <2>. SUFFICES ASSUME NEW i \in 1..hit, NEW l \in Layer
                PROVE  /\ RankKey(r, Order(r)[i], l) \in Known
                       /\ RankKey(r, Order(r)[i], l).block = Order(r)[i]
    OBVIOUS
  <2>1. PICK k \in 1..hit : Order(r)[i] = jobs[Len(jobs)][k]
    BY <1>4
  <2>2. RankKey(r, Order(r)[i], l) \in QueryKeys(Order(r)[i])
    BY <1>1, RankKeyAsked
  <2>3. QueryKeys(Order(r)[i]) \subseteq Known
    BY <2>1 DEF ShardInv, HitInv
  <2>4. RankKey(r, Order(r)[i], l).block = Order(r)[i]
    BY DEF RankKey, Key
  <2>. QED BY <2>2, <2>3, <2>4
<1>6. Asked(r) \subseteq Known
  BY <1>5 DEF Asked
<1>7. ASSUME NEW f \in Got(r, failed)
      PROVE  /\ \E i \in 1..hit, l \in Layer : f = <<Order(r)[i], RankKey(r, Order(r)[i], l), Code(r, failed, l, i)>>
             /\ f[1] = f[2].block
             /\ f[3] # 0 => (failed /\ f[2] \in Asked(r)) \/ f[2] \in gone
  <2>1. PICK i \in 1..hit, l \in Layer : f = <<Order(r)[i], RankKey(r, Order(r)[i], l), Code(r, failed, l, i)>>
    BY <1>3 DEF Got
  <2>2. /\ f[1] = Order(r)[i] /\ f[2] = RankKey(r, Order(r)[i], l)
        /\ f[3] = Code(r, failed, l, i)
    BY <2>1
  <2>3. f[2] \in Asked(r)
    BY <2>2 DEF Asked
  <2>4. f[3] # 0 => failed \/ f[2] \notin keys
    BY <2>2 DEF Code
  <2>. QED BY <1>5, <1>6, <2>1, <2>2, <2>3, <2>4 DEF Known
<1>8. ASSUME path = "whole"
       PROVE  Failed(r, failed) = {f[2].block : f \in {g \in Got(r, failed) : g[3] # 0}}
  <2>. DEFINE bad  == {i \in 1..hit : Code(r, failed, 0, i) # 0}
              lost == {g \in Got(r, failed) : g[3] # 0}
  <2>1. Layer = {0}
    BY <1>8 DEF Layer
  <2>2. Failed(r, failed) = {Order(r)[i] : i \in bad}
    BY <1>3 DEF Failed, FailedBlocks
  <2>3. ASSUME NEW i \in bad
        PROVE  \E f \in lost : f[2].block = Order(r)[i]
    <3>1. <<Order(r)[i], RankKey(r, Order(r)[i], 0), Code(r, failed, 0, i)>> \in Got(r, failed)
      BY <1>3, <2>1 DEF Got
    <3>. QED BY <1>5, <2>1, <3>1
  <2>4. ASSUME NEW f \in lost
        PROVE  \E i \in bad : f[2].block = Order(r)[i]
    <3>1. PICK i \in 1..hit, l \in Layer : f = <<Order(r)[i], RankKey(r, Order(r)[i], l), Code(r, failed, l, i)>>
      BY <1>7
    <3>2. l = 0 /\ f[2] = RankKey(r, Order(r)[i], l) /\ f[3] = Code(r, failed, l, i)
      BY <2>1, <3>1
    <3>. QED BY <1>5, <3>2
  <2>. HIDE DEF lost, bad
  <2>5. {Order(r)[i] : i \in bad} = {f[2].block : f \in lost}
    BY <2>3, <2>4
  <2>. QED BY <2>2, <2>5 DEF lost
<1>. QED BY <1>6, <1>7, <1>8

\* A get fails only for keys that a fault cost, and each failed key's block,
\* and no other, is recorded.
LEMMA GetShard ==
  ASSUME ShardInv, NEW r \in Rank, GetKeys(r)
  PROVE  ShardInv'
<1>1. PICK failed \in BOOLEAN :
        /\ gone' = IF failed THEN gone \cup Asked(r) ELSE gone
        /\ fetched' = [fetched EXCEPT ![r] = Got(r, failed)]
        /\ invalid' = IF path = "layers" THEN invalid ELSE [invalid EXCEPT ![r] = Failed(r, failed)]
  BY DEF GetKeys
<1>2. /\ hit > 0 /\ UNCHANGED <<path, jobs, dcpSize, sharding, place, asking, keys, hit>>
  BY DEF GetKeys
<1>3. \A f \in Got(r, failed) : /\ f[1] = f[2].block
                                /\ f[3] # 0 => (failed /\ f[2] \in Asked(r)) \/ f[2] \in gone
  BY <1>2, GetFacts
<1>4. gone \subseteq gone' /\ Known \subseteq Known'
  BY <1>1, <1>2 DEF Known
<1>5. \A f \in Got(r, failed) : f[3] # 0 => f[2] \in gone'
  BY <1>1, <1>3, <1>4
<1>6. path = "whole" => Failed(r, failed) = {f[2].block : f \in {g \in Got(r, failed) : g[3] # 0}}
  BY <1>2, GetFacts
<1>7. HitIsLoadable'
  <2>1. \A q \in Rank : \A f \in fetched'[q] : f[3] # 0 => f[2] \in gone'
    BY <1>1, <1>4, <1>5 DEF ShardInv, HitIsLoadable
  <2>. QED BY <2>1 DEF HitIsLoadable, Rank
<1>8. FailedExact'
  <2>1. ASSUME NEW q \in Rank
        PROVE  fetched'[q] # {} =>
                 /\ \A f \in fetched'[q] : f[1] = f[2].block
                 /\ path' = "whole" => invalid'[q] = {f[2].block : f \in {g \in fetched'[q] : g[3] # 0}}
    <3>1. CASE q = r
      <4>1. fetched'[r] = Got(r, failed)
        BY <1>1 DEF ShardInv
      <4>2. path = "whole" => invalid'[r] = Failed(r, failed)
        BY <1>1 DEF ShardInv
      <4>. QED BY <1>2, <1>3, <1>6, <3>1, <4>1, <4>2
    <3>2. CASE q # r
      <4>1. fetched'[q] = fetched[q] /\ invalid'[q] = invalid[q]
        BY <1>1, <3>2 DEF ShardInv
      <4>. QED BY <1>2, <4>1 DEF ShardInv, FailedExact
    <3>. QED BY <3>1, <3>2
  <2>. QED BY <2>1 DEF FailedExact, Rank
<1>9. HitInv'
  BY <1>2, <1>4, HitKept DEF ShardInv
<1>10. SaveInv'
  <2>1. asking'[r] # {} => KeysToSave(r, place'[r]) \subseteq Known' \cup asking'[r]
    BY <1>2, <1>4 DEF ShardInv, SaveInv
  <2>2. place[r] \in Nat
    BY DEF ShardInv, SaveInv
  <2>. QED BY <1>2, <1>4, <2>1, <2>2, SaveKept DEF ShardInv
<1>. QED BY <1>1, <1>2, <1>7, <1>8, <1>9, <1>10 DEF ShardInv, Setup, Rank

\* What a fault takes is accounted for.
LEMMA EvictShard ==
  ASSUME ShardInv, NEW k, Evict(k)
  PROVE  ShardInv'
<1>1. /\ keys' = keys \ {k} /\ gone' = gone \cup {k}
      /\ UNCHANGED <<path, jobs, dcpSize, sharding, place, asking, hit, fetched, invalid>>
  BY DEF Evict
<1>2. Known \subseteq Known'
  BY <1>1 DEF Known
<1>3. SaveInv'
  <2>1. \A q, p : KeysToSave(q, p)' = KeysToSave(q, p)
    BY <1>1 DEF KeysToSave, RankKey, LayerAt, JobAt, Shard, Layer
  <2>2. \A q \in Rank : /\ place[q] \in Nat \ {0}
                        /\ \A p \in 1..place[q] - 1 : KeysToSave(q, p) \subseteq Known'
                        /\ asking[q] # {} => KeysToSave(q, place[q]) \subseteq Known' \cup asking[q]
    BY <1>2 DEF ShardInv, SaveInv
  <2>. QED BY <1>1, <2>1, <2>2 DEF SaveInv, Rank
<1>4. HitInv'
  BY <1>1, <1>2, HitKept DEF ShardInv
<1>5. HitIsLoadable' /\ FailedExact'
  BY <1>1 DEF ShardInv, HitIsLoadable, FailedExact, Rank
<1>. QED BY <1>1, <1>3, <1>4, <1>5 DEF ShardInv, Setup, Rank

-----------------------------------------------------------------------------
(* Theorems *)

\* Every step keeps the invariant.
LEMMA StepShard == ShardInv /\ [KeyNext]_keyVars => ShardInv'
<1>. SUFFICES ASSUME ShardInv, [KeyNext]_keyVars PROVE ShardInv'
  OBVIOUS
<1>1. ASSUME NEW r \in Rank, AskExists(r) PROVE ShardInv'
  BY <1>1, AskShard
<1>2. ASSUME NEW r \in Rank, PutMissing(r) PROVE ShardInv'
  BY <1>2, PutShard
<1>3. ASSUME NEW r \in Rank, GetKeys(r) PROVE ShardInv'
  BY <1>3, GetShard
<1>4. CASE LookUp
  BY <1>4, LookUpShard
<1>5. ASSUME NEW k \in keys, Evict(k) PROVE ShardInv'
  BY <1>5, EvictShard
<1>6. CASE UNCHANGED keyVars
  <2>1. /\ UNCHANGED <<path, jobs, dcpSize, sharding, place, asking, keys, hit, fetched, invalid, gone>>
    BY <1>6 DEF keyVars
  <2>2. Known' = Known
    BY <2>1 DEF Known
  <2>3. SaveInv'
    <3>1. \A q, p : KeysToSave(q, p)' = KeysToSave(q, p)
      BY <2>1 DEF KeysToSave, RankKey, LayerAt, JobAt, Shard, Layer
    <3>. QED BY <2>1, <2>2, <3>1 DEF ShardInv, SaveInv, Rank
  <2>4. HitInv'
    BY <2>1, <2>2, HitKept DEF ShardInv
  <2>5. HitIsLoadable' /\ FailedExact'
    BY <2>1 DEF ShardInv, HitIsLoadable, FailedExact, Rank
  <2>. QED BY <2>1, <2>3, <2>4, <2>5 DEF ShardInv, Setup, Rank
<1>. QED BY <1>1, <1>2, <1>3, <1>4, <1>5, <1>6 DEF KeyNext

\* The invariant holds in every state.
THEOREM ShardsKnown == KeySpec => []ShardInv
  BY InitShard, StepShard, PTL DEF KeySpec

\* When all ranks are through, every key of every block of every job is in
\* the store but for what faults cost: the shares of the ranks of a head
\* cover the list, and the heads, decode-context ranks and layers of the
\* ranks are all the scheduler asks for.
THEOREM SavesAreComplete == KeySpec => []SavesComplete
<1>1. ShardInv => SavesComplete
  <2>. SUFFICES ASSUME ShardInv, \A r \in Rank : place[r] > Places,
                       NEW b \in Blocks, NEW q \in QueryKeys(b)
                PROVE  q \in keys \cup gone
    BY DEF SavesComplete
  <2>1. PICK j \in 1..Len(jobs) : b \in Range(jobs[j])
    <3>1. DOMAIN jobs = 1..Len(jobs)
      BY JobFacts DEF ShardInv
    <3>. QED BY <3>1 DEF Blocks
  <2>2. PICK x \in 1..Len(jobs[j]) : b = jobs[j][x]
    <3>1. jobs[j] \in Seq(Nat)
      BY JobFacts DEF ShardInv
    <3>2. DOMAIN jobs[j] = 1..Len(jobs[j])
      BY <3>1
    <3>. QED BY <2>1, <3>2 DEF Range
  <2>3. PICK r \in Rank : \E p \in 1..Places : q \in KeysToSave(r, p)
    BY <2>2, KeysCovered DEF ShardInv
  <2>4. PICK p \in 1..Places : q \in KeysToSave(r, p)
    BY <2>3
  <2>5. p \in 1..place[r] - 1
    <3>1. Places \in Nat
      <4>. DEFINE c == Cardinality(Layer)
      <4>1. c \in Nat /\ Len(jobs) \in Nat
        BY LayerFacts, JobFacts DEF ShardInv
      <4>. HIDE DEF c
      <4>2. Len(jobs) * c \in Nat
        BY <4>1
      <4>. QED BY <4>2 DEF Places, c
    <3>2. place[r] \in Nat /\ place[r] > Places
      BY DEF ShardInv, SaveInv
    <3>. QED BY <3>1, <3>2
  <2>. QED BY <2>4, <2>5 DEF ShardInv, SaveInv, Known
<1>. QED BY <1>1, ShardsKnown, PTL

\* Whatever the scheduler found can be got by every rank, wherever in the
\* list it starts: a code other than 0 is a fault's.
THEOREM HitsAreLoadable == KeySpec => []HitIsLoadable
<1>1. ShardInv => HitIsLoadable
  BY DEF ShardInv
<1>. QED BY <1>1, ShardsKnown, PTL

\* After the rotation every key is written to its own block, and the blocks
\* a rank records are those whose key failed.
THEOREM FailuresAreExact == KeySpec => []FailedExact
<1>1. ShardInv => FailedExact
  BY DEF ShardInv
<1>. QED BY <1>1, ShardsKnown, PTL
=============================================================================
