------------------------------ MODULE KeyShards ------------------------------
(***************************************************************************)
(* Keys, ranks and shards.  A block is in the pool once per KV head (and   *)
(* per decode-context rank, and per layer on the layerwise path): TP ranks *)
(* with the same head hold the same KV and share the work, every PutStep'th *)
(* key each.  Every rank asks which of its keys exist and puts the others, *)
(* at its own pace; the scheduler finds a block only when all of its keys  *)
(* are there; each rank then gets its own keys, starting at a place of its *)
(* own in the list.                                                        *)
(*                                                                         *)
(* path = "whole": KVCacheStoreSendingThread and KVCacheStoreRecvingThread *)
(* (one key for all layers, failed blocks are recorded); path = "layers":  *)
(* the KeyLayer threads (one key per layer, the codes of a get are         *)
(* dropped).  Pipeline and prefill-context ranks are 1.                    *)
(*                                                                         *)
(* External: the store, which may lose a key or a call at any time, and    *)
(* the worker that hands the same jobs to every rank.                      *)
(***************************************************************************)
EXTENDS Integers, Sequences, FiniteSets, FiniteSetsExt, SequencesExt

CONSTANTS
  TpSize,      \* tensor-parallel ranks
  PutStep,     \* ranks per KV head
  DcpSizes,    \* decode-context sizes to consider
  Depth,       \* layers of the layerwise path
  JobLists,    \* sequences of jobs; a job is the sequence of blocks it saves
  MaxFaults    \* bound: evictions, failed puts and failed exists calls

ASSUME ShardAssumption ==
  /\ TpSize \in Nat \ {0} /\ PutStep \in Nat \ {0} /\ TpSize % PutStep = 0
  /\ \A d \in DcpSizes : d \in Nat \ {0} /\ PutStep % d = 0
  /\ Depth \in Nat \ {0} /\ MaxFaults \in Nat
  /\ JobLists \subseteq Seq(Seq(Nat)) \ {<< >>}

VARIABLES
  path, jobs, dcpSize,
  sharding,    \* neither disable_tp_key_sharding nor an align-state group, no dcp
  place,       \* place[r]: which job and layer rank r is at, counted from 1
  asking,      \* asking[r]: the keys it found missing and is about to put
  keys,        \* the keys the store holds
  hit,         \* blocks the scheduler found, or -1
  fetched,     \* fetched[r]: what its get did: <<block, key written to it, code>>
  invalid,     \* invalid[r]: _invalid_block_ids of the rank
  faults, gone \* history: faults so far; the keys they cost

keyVars == <<path, jobs, dcpSize, sharding, place, asking, keys, hit, fetched, invalid, faults, gone>>

Rank   == 0..TpSize - 1
Heads  == TpSize \div PutStep
Layer  == IF path = "whole" THEN {0} ELSE 0..Depth - 1
Key(b, l, head, dcp) == [block |-> b, layer |-> l, head |-> head, dcp |-> dcp]
RankKey(r, b, l) == Key(b, l, r \div PutStep, r % dcpSize)
Blocks == UNION {Range(jobs[j]) : j \in DOMAIN jobs}
Places == Len(jobs) * Cardinality(Layer)
JobAt(p)   == jobs[(p - 1) \div Cardinality(Layer) + 1]
LayerAt(p) == (p - 1) % Cardinality(Layer)
-----------------------------------------------------------------------------
(* The sending thread of a rank *)

\* Mutant: the ranks of a head count from 1.
ShardFromOne(r, list) ==
  IF ~sharding THEN list
  ELSE [k \in 1..(Len(list) - (r % PutStep)) \div PutStep |->
          list[(r % PutStep) + (k - 1) * PutStep + 2]]

\* list[tp_rank % put_step :: put_step]
Shard(r, list) ==
  IF ~sharding THEN list
  ELSE [k \in 1..(Len(list) - (r % PutStep) + PutStep - 1) \div PutStep |->
          list[(r % PutStep) + (k - 1) * PutStep + 1]]

KeysToSave(r, p) == {RankKey(r, b, LayerAt(p)) : b \in Range(Shard(r, JobAt(p)))}

\* lookup(): one exists call for all keys; when it fails they all count as
\* missing.
AskExists(r) ==
  /\ place[r] <= Places /\ asking[r] = {}
  /\ \E failed \in BOOLEAN :
       LET missing == IF failed THEN KeysToSave(r, place[r]) ELSE KeysToSave(r, place[r]) \ keys IN
       /\ failed => faults < MaxFaults
       /\ faults' = IF failed THEN faults + 1 ELSE faults
       /\ asking' = [asking EXCEPT ![r] = missing]
       /\ place' = [place EXCEPT ![r] = IF missing = {} THEN @ + 1 ELSE @]
  /\ UNCHANGED <<path, jobs, dcpSize, sharding, keys, hit, fetched, invalid, gone>>

\* put of the keys that were missing; nobody looks at what it returns.
PutMissing(r) ==
  /\ asking[r] # {}
  /\ \/ keys' = keys \cup asking[r] /\ UNCHANGED <<faults, gone>>
     \/ /\ faults < MaxFaults /\ faults' = faults + 1
        /\ gone' = gone \cup (asking[r] \ keys) /\ UNCHANGED keys
  /\ asking' = [asking EXCEPT ![r] = {}]
  /\ place' = [place EXCEPT ![r] = @ + 1]
  /\ UNCHANGED <<path, jobs, dcpSize, sharding, hit, fetched, invalid>>
-----------------------------------------------------------------------------
(* The scheduler *)

\* _generate_store_query_keys: every head, decode-context rank and layer.
QueryKeys(b) ==
  {Key(b, l, head, dcp) : l \in Layer, head \in 0..Heads - 1, dcp \in 0..dcpSize - 1}

\* Mutant: one key is enough for a block.
HitAny(list) ==
  Max({n \in 0..Len(list) : \A i \in 1..n : QueryKeys(list[i]) \cap keys # {}})

\* _get_store_lookup_hit_tokens: the longest run of complete blocks.
HitBlocks(list) ==
  Max({n \in 0..Len(list) : \A i \in 1..n : QueryKeys(list[i]) \subseteq keys})

LookUp ==
  /\ hit = -1
  /\ hit' = HitBlocks(jobs[Len(jobs)])
  /\ UNCHANGED <<path, jobs, dcpSize, sharding, place, asking, keys, fetched, invalid, faults, gone>>
-----------------------------------------------------------------------------
(* The receiving thread of a rank *)

Rotate(list, n) == SubSeq(list, n + 1, Len(list)) \o SubSeq(list, 1, n)

\* tp_rank % len(key_list) for whole blocks, a rank's share per layer.
Shift(r, n) == IF path = "whole" THEN r % n ELSE (r * n) \div TpSize

\* Mutant: the block ids stay where they were.
BlockIdsUnrotated(r, list) == list

\* The four lists are rotated alike.
BlockIds(r, list) == Rotate(list, Shift(r, Len(list)))

\* record_failed_blocks
FailedBlocks(ids, codes) == {ids[i] : i \in {j \in DOMAIN codes : codes[j] # 0}}

\* What the scheduler found, and the order a rank gets it in.
Found    == SubSeq(jobs[Len(jobs)], 1, hit)
Order(r) == Rotate(Found, Shift(r, hit))

\* A key the store has no more has a code, and a call that fails as a whole
\* has one for every key.
Code(r, failed, l, i) == IF failed \/ RankKey(r, Order(r)[i], l) \notin keys THEN 1 ELSE 0

Asked(r) == {RankKey(r, Order(r)[i], l) : i \in 1..hit, l \in Layer}
Got(r, failed) ==
  {<<BlockIds(r, Found)[i], RankKey(r, Order(r)[i], l), Code(r, failed, l, i)>> : i \in 1..hit, l \in Layer}
Failed(r, failed) == FailedBlocks(BlockIds(r, Found), [i \in 1..hit |-> Code(r, failed, 0, i)])

\* get of all layers
GetKeys(r) ==
  /\ hit > 0 /\ fetched[r] = {}
  /\ \E failed \in BOOLEAN :
       /\ failed => faults < MaxFaults
       /\ faults' = IF failed THEN faults + 1 ELSE faults
       /\ gone' = IF failed THEN gone \cup Asked(r) ELSE gone
       /\ fetched' = [fetched EXCEPT ![r] = Got(r, failed)]
       /\ invalid' = IF path = "layers" THEN invalid ELSE [invalid EXCEPT ![r] = Failed(r, failed)]
  /\ UNCHANGED <<path, jobs, dcpSize, sharding, place, asking, keys, hit>>
-----------------------------------------------------------------------------
Evict(k) ==
  /\ faults < MaxFaults /\ faults' = faults + 1
  /\ keys' = keys \ {k} /\ gone' = gone \cup {k}
  /\ UNCHANGED <<path, jobs, dcpSize, sharding, place, asking, hit, fetched, invalid>>

KeyInit ==
  /\ path \in {"whole", "layers"} /\ jobs \in JobLists /\ dcpSize \in DcpSizes
  /\ sharding \in IF dcpSize > 1 THEN {FALSE} ELSE IF path = "layers" THEN {TRUE} ELSE BOOLEAN
  /\ place = [r \in Rank |-> 1] /\ asking = [r \in Rank |-> {}]
  /\ keys = {} /\ hit = -1
  /\ fetched = [r \in Rank |-> {}] /\ invalid = [r \in Rank |-> {}]
  /\ faults = 0 /\ gone = {}

KeyNext ==
  \/ \E r \in Rank : AskExists(r) \/ PutMissing(r) \/ GetKeys(r)
  \/ LookUp
  \/ \E k \in keys : Evict(k)

KeySpec == KeyInit /\ [][KeyNext]_keyVars
-----------------------------------------------------------------------------
(* Properties *)

\* When all ranks are through, every key of every block saved is in the
\* store, except those a fault cost: the shares of the ranks of a head leave
\* no block out, at whatever pace and in whatever order they come.
SavesComplete ==
  (\A r \in Rank : place[r] > Places) =>
    UNION {QueryKeys(b) : b \in Blocks} \subseteq keys \cup gone

\* What the scheduler found is there for every rank: a get misses only keys
\* that a fault cost.
HitIsLoadable == \A r \in Rank : \A f \in fetched[r] : f[3] # 0 => f[2] \in gone

\* Each key is written to its own block, and the blocks recorded as failed
\* are exactly those with a key that failed, wherever a rank starts.
FailedExact ==
  \A r \in Rank : fetched[r] # {} =>
    /\ \A f \in fetched[r] : f[1] = f[2].block
    /\ path = "whole" => invalid[r] = {f[2].block : f \in {g \in fetched[r] : g[3] # 0}}
=============================================================================
