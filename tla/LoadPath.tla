------------------------------ MODULE LoadPath ------------------------------
(***************************************************************************)
(* The load path with load_async and one KV cache group, as in the files   *)
(* under original-source: vLLM asks its KV cache manager for a local       *)
(* prefix, the KVPoolScheduler for what the store has beyond it, allocates *)
(* blocks and parks the request; KVCacheStoreRecvingThread copies the      *)
(* blocks in, reports the ones that failed and then the request, and vLLM  *)
(* counts as computed what did not fail.                                   *)
(*                                                                         *)
(* All prompts are prefixes of one text, so a block's content is its       *)
(* position in it, 0 standing for anything else; so is its hash.           *)
(*                                                                         *)
(* The handler of the thread may raise, in the preparation of keys and     *)
(* addresses or in get: run() logs that and takes the next job, so that    *)
(* nobody hears of the load and its request stays parked.                  *)
(*                                                                         *)
(* External: vLLM's scheduler (which requests it tries, preempts, ends,    *)
(* what it does with failed blocks), the worker that hands jobs to the     *)
(* thread and collects its results, the store, and from_request_tracker,   *)
(* which makes no job of a load_spec that cannot load.                     *)
(***************************************************************************)
EXTENDS Integers, Sequences, FiniteSets, FiniteSetsExt, SequencesExt

CONSTANTS
  Request,     \* request ids
  Block,       \* HBM blocks
  BlockSize,   \* tokens per block
  Tokens       \* Tokens[r]: prompt length of request r

ASSUME LoadAssumption ==
  /\ IsFiniteSet(Request) /\ IsFiniteSet(Block)
  /\ BlockSize \in Nat \ {0}
  /\ Tokens \in [Request -> Nat \ {0}]

VARIABLES
  store,      \* hashes the store holds
  data,       \* data[b]: what HBM block b contains
  cached,     \* cached[b]: its hash in the prefix cache, 0 if none
  held,       \* held[r]: the blocks of request r, in order
  status,     \* "waiting", "loading" (WAITING_FOR_REMOTE_KVS), "ready", "running", "done"
  computed,   \* num_computed_tokens
  loadSpec,   \* load_specs
  pooled,     \* _unfinished_requests: block ids to load into, or Unknown
  loading,    \* _loading_req_ids
  queue,      \* request_queue of the receiving thread
  recv, job, failed,   \* where its handler is, for which job, and its failed blocks
  invalid,    \* _invalid_block_ids
  received,   \* its finished_requests
  dropped,    \* history: requests whose load has raised
  engine, got,         \* whether the worker has collected finished requests, which
  suspect     \* vLLM's failed_recving_kv_req_ids

hbmVars    == <<data, cached, held>>
poolVars   == <<loadSpec, pooled, loading>>
threadVars == <<recv, job, failed, invalid, received, dropped>>
outVars    == <<engine, got, suspect>>
vars == <<store, hbmVars, status, computed, poolVars, queue, threadVars, outVars>>

Ceil(n)  == (n + BlockSize - 1) \div BlockSize
Full(n)  == n \div BlockSize
Position == 1..Max({Ceil(Tokens[r]) : r \in Request})
NoSpec   == [vllm |-> 0, kvpool |-> 0, canLoad |-> FALSE]
Unknown  == <<"unknown">>
NoJob    == [req |-> "none", from |-> 0, blocks |-> << >>]

\* The longest prefix of positions, at most n of them, all in S.
PrefixIn(S, n) == Max({k \in 0..n : \A i \in 1..k : i \in S})
Free == Block \ UNION {Range(held[r]) : r \in Request}
-----------------------------------------------------------------------------
(* KV cache manager *)

\* get_computed_blocks: full blocks of the longest cached prefix, the last
\* token left out.  Several blocks may carry the same hash.
ComputedBlocks(r) ==
  LET n == PrefixIn({cached[b] : b \in Block}, Full(Tokens[r] - 1)) IN
  {s \in [1..n -> Block] : \A i \in 1..n : cached[s[i]] = i}

\* allocate_slots for n tokens in all, behind the blocks a request has:
\* the block lists it may end with, none when too few blocks are free.
Slots(blocks, n) ==
  LET need == Ceil(n) - Len(blocks)
      free == Free \ Range(blocks)
  IN  {blocks \o s : s \in {t \in [1..need -> free] : IsInjective(t)}}

\* A block that is allocated anew leaves the prefix cache.
Uncached(fresh) == [b \in Block |-> IF b \in fresh THEN 0 ELSE cached[b]]

\* cache_blocks: the full blocks among the first n tokens get their hashes.
CacheBlocks(c, blocks, n) ==
  [b \in Block |-> IF \E i \in 1..Full(n) : blocks[i] = b
                   THEN CHOOSE i \in 1..Full(n) : blocks[i] = b ELSE c[b]]

\* Mutant: delay_cache_blocks is ignored.
AllocatedAtOnce(blocks, hit, n, delayed) ==
  CacheBlocks(Uncached(Range(blocks) \ Range(hit)), blocks, n)

\* The prefix cache after allocate_slots.
Allocated(blocks, hit, n, delayed) ==
  IF delayed THEN Uncached(Range(blocks) \ Range(hit))
  ELSE CacheBlocks(Uncached(Range(blocks) \ Range(hit)), blocks, n)

\* What a forward pass over the tokens from n on leaves in the blocks: it
\* attends to what they hold before.
Forward(blocks, n) ==
  LET sound == \A i \in 1..Ceil(n) : data[blocks[i]] = i IN
  [b \in Block |-> IF \E i \in Full(n) + 1..Len(blocks) : blocks[i] = b
                   THEN IF sound THEN CHOOSE i \in 1..Len(blocks) : blocks[i] = b ELSE 0
                   ELSE data[b]]
-----------------------------------------------------------------------------
(* KVPoolScheduler, called by vLLM's scheduler *)

\* Mutant: a partial last chunk is looked up as well.
LookupPartial(r) == BlockSize * PrefixIn(store, Ceil(Tokens[r]))

\* LookupKeyClient.lookup: tokens of the longest prefix in the store.
Lookup(r) == BlockSize * PrefixIn(store, Full(Tokens[r]))

\* get_num_new_matched_tokens: what to load beyond local tokens.  A hit on
\* the whole prompt gives one token back.
HitTokens(r) == IF Lookup(r) = Tokens[r] THEN Lookup(r) - 1 ELSE Lookup(r)
NewMatchedTokens(r, local) == IF HitTokens(r) > local THEN HitTokens(r) - local ELSE 0

\* The spec it leaves: without a hit, that of an earlier lookup.
MatchedSpec(r, local) ==
  IF NewMatchedTokens(r, local) = 0 THEN loadSpec[r]
  ELSE [vllm |-> local, kvpool |-> HitTokens(r), canLoad |-> FALSE]

\* Mutant: whatever spec there is gets enabled.
EnabledSpecAlways(r, local) ==
  [MatchedSpec(r, local) EXCEPT !.canLoad = MatchedSpec(r, local) # NoSpec]

\* update_state_after_alloc: the spec is enabled if blocks were allocated for
\* tokens to load, and disabled if there are none to load.
EnabledSpec(r, local) == [MatchedSpec(r, local) EXCEPT !.canLoad = NewMatchedTokens(r, local) > 0]

\* What the step's metadata, which takes the spec, makes of it: a job to load
\* into blocks, or none (ReqMeta, external, keeps an enabled spec only).
JobsOf(r, spec, blocks) ==
  IF spec.canLoad THEN << [req |-> r, from |-> Full(spec.vllm), blocks |-> blocks] >> ELSE << >>

\* The tokens a request needs slots for when it is tried: what it loads, or
\* its whole prompt when it loads nothing.
TokensToPlace(r, local) ==
  IF NewMatchedTokens(r, local) > 0 THEN HitTokens(r) ELSE Tokens[r]

\* Too few free blocks: the request stays in the queue and will be looked up
\* again.  The spec stays too, unless the scheduler still knows the request
\* from an earlier load: then this step's metadata takes it.
AdmitFails(r) ==
  \E hit \in ComputedBlocks(r) :
    LET local == BlockSize * Len(hit) IN
    /\ engine = "schedule" /\ status[r] = "waiting"
    /\ Slots(hit, TokensToPlace(r, local)) = {}
    /\ IF pooled[r] = Unknown
       THEN /\ loadSpec' = [loadSpec EXCEPT ![r] = MatchedSpec(r, local)]
            /\ UNCHANGED queue
       ELSE /\ loadSpec' = [loadSpec EXCEPT ![r] = NoSpec]
            /\ queue' = queue \o JobsOf(r, MatchedSpec(r, local), pooled[r])
    /\ UNCHANGED <<store, hbmVars, status, computed, pooled, loading, threadVars, outVars>>

\* update_state_after_alloc
NoteBlocks(r, blocks) == [pooled EXCEPT ![r] = blocks]

\* Blocks for the tokens to load.  update_state_after_alloc notes them and
\* enables the spec, _process_async_load_request makes the job of both.  The
\* blocks are not cached before they are loaded (delay_cache_blocks).
AdmitLoad(r) ==
  \E hit \in ComputedBlocks(r) :
    LET local == BlockSize * Len(hit) IN
    /\ engine = "schedule" /\ status[r] = "waiting"
    /\ NewMatchedTokens(r, local) > 0
    /\ \E blocks \in Slots(hit, HitTokens(r)) :
         /\ held' = [held EXCEPT ![r] = blocks]
         /\ cached' = Allocated(blocks, hit, HitTokens(r), TRUE)
         /\ pooled' = NoteBlocks(r, blocks)
         /\ queue' = queue \o JobsOf(r, EnabledSpec(r, local), pooled'[r])
    /\ status' = [status EXCEPT ![r] = "loading"]
    /\ computed' = [computed EXCEPT ![r] = HitTokens(r)]
    /\ loadSpec' = [loadSpec EXCEPT ![r] = NoSpec]
    /\ loading' = loading \cup {r}
    /\ UNCHANGED <<store, data, threadVars, outVars>>

\* Nothing to load: the prompt is computed in this very step, with whose
\* metadata a spec left by an earlier try goes as well.
AdmitRun(r) ==
  \E hit \in ComputedBlocks(r) :
    LET local == BlockSize * Len(hit) IN
    /\ engine = "schedule" /\ status[r] = "waiting"
    /\ NewMatchedTokens(r, local) = 0
    /\ \E blocks \in Slots(hit, Tokens[r]) :
         /\ held' = [held EXCEPT ![r] = blocks]
         /\ cached' = Allocated(blocks, hit, Tokens[r], FALSE)
         /\ data' = Forward(blocks, local)
         /\ queue' = queue \o JobsOf(r, EnabledSpec(r, local), blocks)
    /\ status' = [status EXCEPT ![r] = "running"]
    /\ computed' = [computed EXCEPT ![r] = Tokens[r]]
    /\ loadSpec' = [loadSpec EXCEPT ![r] = NoSpec]
    /\ pooled' = NoteBlocks(r, << >>)
    /\ UNCHANGED <<store, loading, threadVars, outVars>>

\* A request whose load is over goes on behind the tokens that count.
Resume(r) ==
  /\ engine = "schedule" /\ status[r] = "ready"
  /\ \E blocks \in Slots(held[r], Tokens[r]) :
       /\ held' = [held EXCEPT ![r] = blocks]
       /\ cached' = Allocated(blocks, held[r], Tokens[r], FALSE)
       /\ data' = Forward(blocks, computed[r])
  /\ status' = [status EXCEPT ![r] = "running"]
  /\ computed' = [computed EXCEPT ![r] = Tokens[r]]
  /\ pooled' = NoteBlocks(r, << >>)
  /\ UNCHANGED <<store, loadSpec, loading, queue, threadVars, outVars>>

\* A running request loses its blocks, for good or to be tried again; the
\* next metadata makes the scheduler forget it.
Leave(r) ==
  /\ engine = "schedule" /\ status[r] = "running"
  /\ status' \in {[status EXCEPT ![r] = s] : s \in {"waiting", "done"}}
  /\ held' = [held EXCEPT ![r] = << >>]
  /\ computed' = [computed EXCEPT ![r] = 0]
  /\ pooled' = [pooled EXCEPT ![r] = Unknown]
  /\ loading' = loading \ {r}
  /\ UNCHANGED <<store, data, cached, loadSpec, queue, threadVars, outVars>>
-----------------------------------------------------------------------------
(* KVCacheStoreRecvingThread *)

\* The positions a job asks the store for: those behind the local prefix.
Wanted(j) == j.from + 1..Len(j.blocks)

\* Mutant: the request is reported as soon as the copy returns.
CopyAndFinish ==
  /\ recv = "idle" /\ queue # << >>
  /\ job' = Head(queue) /\ queue' = Tail(queue)
  /\ \E bad \in SUBSET Wanted(job') :
       /\ Wanted(job') \ store \subseteq bad
       /\ failed' = {job'.blocks[i] : i \in bad}
       /\ data' = [b \in Block |->
                     IF \E i \in Wanted(job') : job'.blocks[i] = b
                     THEN IF b \in failed' THEN 0
                          ELSE CHOOSE i \in Wanted(job') : job'.blocks[i] = b
                     ELSE data[b]]
  /\ received' = received \cup {job'.req}
  /\ UNCHANGED <<store, cached, held, status, computed, poolVars, invalid, dropped, outVars>>

\* _handle_request up to and including m_store.get: a block the store has no
\* more fails, any other may; None stands for all of them failing.
CopyIn ==
  /\ recv = "idle" /\ queue # << >>
  /\ job' = Head(queue) /\ queue' = Tail(queue)
  /\ \E bad \in SUBSET Wanted(job') :
       /\ Wanted(job') \ store \subseteq bad
       /\ failed' = {job'.blocks[i] : i \in bad}
       /\ data' = [b \in Block |->
                     IF \E i \in Wanted(job') : job'.blocks[i] = b
                     THEN IF b \in failed' THEN 0
                          ELSE CHOOSE i \in Wanted(job') : job'.blocks[i] = b
                     ELSE data[b]]
  /\ UNCHANGED <<store, cached, held, status, computed, poolVars, invalid, received, dropped,
                 outVars>>

Get == CopyIn /\ recv' = "report"

\* The handler raises before any block is written or while they are: no block
\* is reported, nor the request.
GetRaises ==
  /\ recv = "idle" /\ queue # << >>
  /\ queue' = Tail(queue)
  /\ LET j == Head(queue)  torn == {j.blocks[i] : i \in Wanted(j)} IN
       /\ data' \in {data, [b \in Block |-> IF b \in torn THEN 0 ELSE data[b]]}
       /\ dropped' = dropped \cup {j.req}
  /\ UNCHANGED <<store, cached, held, status, computed, poolVars, recv, job, failed, invalid,
                 received, outVars>>

\* record_failed_blocks, under the lock the worker reads with.
Report ==
  /\ recv = "report"
  /\ invalid' = invalid \cup failed
  /\ recv' = "finish"
  /\ UNCHANGED <<store, hbmVars, status, computed, poolVars, queue, job, failed, received, dropped,
                 outVars>>

\* Mutant: a load with failed blocks returns before it is reported.
FinishIfGood ==
  /\ recv = "finish"
  /\ received' = IF failed = {} THEN received \cup {job.req} ELSE received
  /\ recv' = "idle" /\ job' = NoJob /\ failed' = {}
  /\ UNCHANGED <<store, hbmVars, status, computed, poolVars, queue, invalid, dropped, outVars>>

\* set_finished_request
Finish ==
  /\ recv = "finish"
  /\ received' = received \cup {job.req}
  /\ recv' = "idle" /\ job' = NoJob /\ failed' = {}
  /\ UNCHANGED <<store, hbmVars, status, computed, poolVars, queue, invalid, dropped, outVars>>

\* The handler, and run() around it.
Thread == Get \/ GetRaises \/ Report \/ Finish
-----------------------------------------------------------------------------
(* The end of an engine step *)

\* get_and_clear_finished_requests for the requests known to be loading.
CollectFinished ==
  /\ engine = "schedule"
  /\ got' = received \cap loading
  /\ received' = received \ got'
  /\ engine' = "output"
  /\ UNCHANGED <<store, hbmVars, status, computed, poolVars, queue, recv, job, failed,
                 invalid, dropped, suspect>>

\* The blocks of a request before the first bad one.
Good(r, bad) == PrefixIn({i \in 1..Len(held[r]) : held[r][i] \notin bad}, Len(held[r]))
Hurt(bad) == {r \in Request : status[r] = "loading" /\ Range(held[r]) \cap bad # {}}

\* Where the full blocks of some requests name block b.
Places(requests, counts, b) ==
  UNION {{i \in 1..Full(counts[r]) : held[r][i] = b} : r \in requests}

\* Mutant: the id of a failed load is kept.
StillLoadingHurt == loading \ (got \ Hurt(invalid))

\* update_finished_recving
StillLoading == loading \ got

\* The failed blocks are collected after the finished requests.  vLLM cuts
\* the requests they belong to; those that are finished keep what counts,
\* and those with nothing left start again.
UpdateFromOutput ==
  LET hurt   == Hurt(invalid)
      counts == [r \in Request |-> IF r \in hurt THEN BlockSize * Good(r, invalid) ELSE computed[r]]
      lost   == {r \in got : r \in suspect \cup hurt /\ counts[r] = 0}
      kept   == got \ lost
  IN
  /\ engine = "output"
  /\ invalid' = {}
  /\ suspect' = (suspect \cup hurt) \ got
  /\ computed' = counts
  /\ status' = [r \in Request |-> IF r \in lost THEN "waiting" ELSE IF r \in kept THEN "ready" ELSE status[r]]
  /\ held' = [r \in Request |-> IF r \in lost THEN << >> ELSE held[r]]
  /\ cached' = [b \in Block |-> IF Places(kept, counts, b) = {} THEN cached[b]
                                ELSE CHOOSE i \in Places(kept, counts, b) : TRUE]
  /\ loading' = StillLoading
  /\ engine' = "schedule" /\ got' = {}
  /\ UNCHANGED <<store, data, loadSpec, pooled, queue, recv, job, failed, received, dropped>>
-----------------------------------------------------------------------------
\* The store gains and loses blocks at any time.
Publish(i) == i \notin store /\ store' = store \cup {i}
Evict(i)   == i \in store /\ store' = store \ {i}
StoreChanges ==
  /\ \E i \in Position : Publish(i) \/ Evict(i)
  /\ UNCHANGED <<hbmVars, status, computed, poolVars, queue, threadVars, outVars>>

Init ==
  /\ store = {}
  /\ data = [b \in Block |-> 0] /\ cached = [b \in Block |-> 0]
  /\ held = [r \in Request |-> << >>]
  /\ status = [r \in Request |-> "waiting"] /\ computed = [r \in Request |-> 0]
  /\ loadSpec = [r \in Request |-> NoSpec]
  /\ pooled = [r \in Request |-> Unknown] /\ loading = {}
  /\ queue = << >> /\ recv = "idle" /\ job = NoJob /\ failed = {}
  /\ invalid = {} /\ received = {} /\ dropped = {}
  /\ engine = "schedule" /\ got = {} /\ suspect = {}

Schedule(r) == AdmitFails(r) \/ AdmitLoad(r) \/ AdmitRun(r) \/ Resume(r) \/ Leave(r)
EndStep == CollectFinished \/ UpdateFromOutput

Next == (\E r \in Request : Schedule(r)) \/ Thread \/ EndStep \/ StoreChanges

Spec == Init /\ [][Next]_vars

\* The thread is a daemon that never stops, and the engine keeps stepping
\* while it has requests.
FairSpec == Spec /\ WF_vars(Thread) /\ WF_vars(EndStep)
-----------------------------------------------------------------------------
(* Properties *)

Jobs == Range(queue) \cup (IF recv = "idle" THEN {} ELSE {job})

\* Every variable has its type.
TypeOK ==
  /\ store \subseteq Position
  /\ data \in [Block -> {0} \cup Position] /\ cached \in [Block -> {0} \cup Position]
  /\ held \in [Request -> Seq(Block)]
  /\ status \in [Request -> {"waiting", "loading", "ready", "running", "done"}]
  /\ \A r \in Request : computed[r] \in 0..Tokens[r]
  /\ \A r \in Request : pooled[r] = Unknown \/ pooled[r] \in Seq(Block)
  /\ loadSpec \in [Request -> [vllm : Nat, kvpool : Nat, canLoad : BOOLEAN]]
  /\ loading \subseteq Request /\ dropped \subseteq Request /\ received \subseteq Request
  /\ got \subseteq Request /\ suspect \subseteq Request
  /\ recv \in {"idle", "report", "finish"} /\ engine \in {"schedule", "output"}
  /\ failed \subseteq Block /\ invalid \subseteq Block
  /\ \A j \in Jobs : j.req \in Request /\ j.blocks \in Seq(Block) /\ j.from \in 0..Len(j.blocks)

\* A token counts as computed only if its block holds its KV: no load that
\* failed, in part or as a whole, is ever attended to.
ComputedIsTrue ==
  \A r \in Request : status[r] \in {"ready", "running"} =>
    \A i \in 1..Ceil(computed[r]) : i <= Len(held[r]) /\ data[held[r][i]] = i

\* The prefix cache names only blocks that hold what their hash says: a block
\* that is still being loaded is nobody's hit.
CachedIsTrue == \A b \in Block : cached[b] # 0 => data[b] = cached[b]

\* The thread writes only blocks its request holds, alone, while it waits.
LoadsOwnBlocks ==
  \A j \in Jobs :
    /\ status[j.req] = "loading" /\ j.blocks = held[j.req]
    /\ \A i \in Wanted(j) : \A q \in Request \ {j.req} : j.blocks[i] \notin Range(held[q])

\* The ids the worker is told to collect are those of the parked requests:
\* one left out would never be reported, one too many would be resumed twice.
LoadingIsExact == loading = {r \in Request : status[r] = "loading"}

\* Every load comes to an end, whatever of it fails, unless its handler raised:
\* run() reports nothing for it, and the request stays parked.
LoadsEnd ==
  \A r \in Request : (status[r] = "loading") ~> (status[r] # "loading" \/ r \in dropped)
=============================================================================
