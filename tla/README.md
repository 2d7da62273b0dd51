# Ascend-Pingtao: specification and proofs

The repository benchmarks a three-tier prefix cache for vLLM on Ascend: HBM
(vLLM's own prefix cache), DRAM and SSD (Mooncake, behind vLLM-Ascend's
`AscendStoreConnector`). It holds

* the connector's files with trace lines added (`vLLM-Trace/trace-source`; the
  same without the trace lines in `original-source`),
* `StartUp.sh`, which checks the host, then starts and watches
  `mooncake_master` and vLLM (window one),
* `Run-all.payload`, which runs stages R1 to R4 against them, asks for a restart
  that keeps the SSD and empties HBM and DRAM, and decides which tier served
  what (window two; `Run-all` is the same file compressed).

This directory models what runs concurrently in it, and the arithmetic the
connector's transfers rest on:

* how KV blocks are stored in the background while requests finish and blocks
  are freed (`StorePath`),
* how blocks are found in the store, loaded and counted as computed (`LoadPath`),
  and that the trace lines leave this as it is (`TracedLoad`),
* how the layerwise threads and the model runner hand layers to each other
  (`LayerTransfer`),
* which bytes and which keys a transfer moves (`ByteCopy`, `KeyShards`),
* how a run and the manager agree on a restart and on the final cleanup
  (`RuntimeControl`).

All are model-checked on small instances. Proved for every value of the constants
are all their safety properties, and the refinements of `BlockHold` by `StorePath` and of
`LoadPath` by `TracedLoad`; liveness is only checked.

## Inventory

Paths are relative to `src/`; `S` is
`vLLM-Trace/trace-source/pool_scheduler.py`, `K` is `kv_transfer.py` and `M`
`kv_cache_manager.py` beside it, `U` is `PrefixCache-HBM-DRAM-SSD/StartUp.sh`, `R`
is `Run-all.payload` beside it. The load path and the keys are mapped to the
files of the same names under `original-source`, without trace lines.

| component | state | operations | module |
|---|---|---|---|
| scheduler side of the store path (`S` 930-1118) | trackers, `_delayed_free_req_ids`, `sending_event_id`, `sending_events`, `sending_blocks` | `build_connector_meta`, `touch_sending_mamba_blocks`, `update_connector_output`, `request_finished(_all_groups)`, `update_finished_sending` | `StorePath` |
| background store thread (`K` 302-499, 650-839) | `stored_requests`, `request_queue`, `finished_requests`, `completed_events` | `_handle_request`, `run`, registration, collection | `StorePath` |
| runtime manager (`U`) | pids, generation, restart flag, traps, status file | `start_runtime`, `handle_restart_request`, `cleanup_runtime`, the watch loop | `RuntimeControl` |
| run: restart and cleanup (`R` 17-81, 320-414, 1543-1644) | request file, the status it remembers | `request_runtime_restart`, EXIT trap | `RuntimeControl` |
| scheduler load path (`S` 209-688, 887-959, 1120-1230; `M`) | `load_specs`, `_unfinished_requests`, `_loading_req_ids` | lookup, `update_state_after_alloc`, metadata of loads, `update_finished_recving` | `LoadPath` |
| receiving thread (`K` 842-1010) | queue, `_invalid_block_ids`, `finished_requests` | `_handle_request`, collection | `LoadPath` |
| trace records (`埋点文件替换.md`) | three files | lookup and load records | `TracedLoad` |
| layerwise threads (`K` 1012-1604) | events per layer, counts, leases, `write_results` | four handlers | `LayerTransfer` |
| layer batch arithmetic (`K` 61-299, 386-470) | none | addresses, packets, limits | `ByteCopy` |
| keys of a block over ranks (`S` 209-350; `K` 33-60, 672-805, 1012-1270) | keys in the store | lookup, shards, put, get | `KeyShards` |
| run: stages and evidence; manifest, session, results | counters, three files | `run_stage`, `prepare_session` | not modelled, see the end |
| capture proxy, workbook, wrapper build, host checks of `U`, `C1`/`C5`/`C10`, `bak/`, `tests/` | | I/O, formatting, one-off scripts | not modelled; reasons in `PROJECT.json` |

How they interact. vLLM's engine alternates *schedule*, *execute on every
worker*, *update*. In *schedule* the scheduler side writes metadata; in *execute*
each worker registers the saves with its thread and collects what the thread
has finished; in *update* the scheduler side counts what the workers report and
vLLM frees blocks. The thread runs beside all of this and shares its
dictionaries with the engine under short locks. The run and the manager share
nothing but a status file, a request file and signals; both watch the runtime
from outside and neither controls the other's pace.

A load is found while a request is scheduled (its local prefix by the KV cache
manager, the rest by a lookup in the store), carried out by the receiving thread
while the request is parked, and taken over in *update*, where vLLM subtracts the
blocks the thread reports as failed. On the layerwise path the model runner and
two threads meet at one load and one save event per layer instead.

What is hard: steps of the thread between two locked sections; a report
collected for an older save; workers that report the same event in different
steps; preemption with saves in flight; a `put` that raises; a block that is
evicted between lookup and `get`; a request that is looked up and then finds no
free blocks; events that are set once and cleared by whoever waits; return paths
that skip a wait; offsets that are counted per layer in one place and per block in
another; a status file that is true when written and read later; traps of bash
between any two commands; crashes of either process at any place; two cleanups
at once. `PROJECT.json` lists each hazard at its line, with the property that
covers it or the reason why none does.

## StorePath

*State.* The engine's view of a request (`status`, `life`, `saved`), the state
blocks of Mamba groups (`own`, `refs`), `delayedFree`, the events
(`eventId`, `sendingEvents`, `sendingBlocks`), one engine step (`phase`, `meta`,
`toRun`, `output`) and, per worker, the thread (`stored`, `queue`, `pc`, `cur`,
`finished`, `completed`).

*Actions.* `ScheduleStep` is a vLLM step up to `build_connector_meta` with its
preemptions and allocations; `RequestFinished` both `request_finished` methods;
`Execute(w)` what the connector's worker does with the metadata; `Update`
`update_connector_output` and `update_finished_sending`. The thread is cut where
another thread can come in: `Take` (dequeue and registration test), `PutDone` or
`PutRaises` (the try block and its finally clause), `Decrement` (locked),
`CheckZero`, `Delete`, `Report` (each its own lock or none).

*External, modelled from use.* The block pool (`BlockChoices`, `Owners`: a
scheduled request keeps its block or gets one nobody references), vLLM's
scheduler (`Preemptible`, `Schedulable`), `KVOutputAggregator` (`Reported`: a
request counts as sent when every worker has reported it). `pool_worker.py` is
not in the repository. `DiscardsOnRegister` says whether it drops an older
report when it registers a new save, for which `discard_finished_requests`
exists; all runs take the careful worker, the proofs hold for both.

*Abstracted.* Keys, token counts, addresses and chunk sizes: a step saves a
request or does not. The role is `kv_producer` / `kv_both` without layerwise
transfer; in the other roles both finish methods free at once.

### Runs

| run | bounds | properties | states |
|---|---|---|---|
| `store_hybrid` | 2 requests, 2 workers, 3 state blocks, 1 save each, batches of 2, stores may fail | `EventsHeldUntilCopied`, `EventCountExact`, `RefCountsExact`, `NoCopyAfterFree` | 242,772 |
| `store_events` | 1 request preempted once, 2 workers, 2 blocks, 1 save per life, stores may fail | `TypeOK`, `HoldSpec`, `EventsReleased` | 204,528 |
| `store_delayed` | 1 request, 2 workers, 2 saves, 1 preemption, stores succeed | `DelayedFreed` | 159,175 |
| `store_early_free` | 1 request, 1 worker, 2 saves | `NoCopyAfterFree` violated | |
| `store_fails` | 1 request, 1 worker, 1 save, stores may fail | `DelayedFreed` violated | |

Why the bounds are enough. Two workers are what distinguishes "some" from "all"
reports; two requests with three blocks are enough for a block to be kept by an
event while its old owner moves on and another request takes a free one; one
preemption gives a resumed request with an old job in the queue; two saves give
the race of a finished save with the next registration. Requests, workers and
blocks are interchangeable, so `store_hybrid`, which checks invariants only,
uses symmetry; runs with temporal properties do not.

Fairness (`FairSpec`). The engine keeps scheduling and updating: vLLM steps as
long as it has requests, and a last request without successor is the external
assumption that traffic goes on. Every worker executes its step. A thread is an
endless `run` loop that nothing but its own handler delays. A store need not
fail and a request need not finish.

### Findings

* `store_early_free`: `_handle_request` reads the count (836), deletes the entry
  and reports the request in three steps. A save registered in between is
  deleted with the entry or its request is reported although the save waits in
  the queue; when the request then finishes, the blocks are freed under the copy.
  `try_finish_and_delete_stored_request` (`K` 378) does all three under one lock
  and is used by the layerwise threads only. `store_hybrid` shows that the
  property holds when a request is saved in one step only.
* `store_fails`: when the try block raises, `dec_stored_request` and the report
  are skipped. The event is completed by the finally clause, the request is
  never reported, and its blocks stay for ever.

## RuntimeControl

*State.* The manager (`manager`, its place in the script; `generation`,
`masterPid`, `vllmPid`, `requestId`, `restartRequested`, `traps`), the two files
(`status`, `request`), the outside (`running` processes, `sessionDir`, and the
data as sets of items in `dram`, `ssd` and the master's `index`), the run
(`client`, `conc`, `asked`, `r4`).

*Actions.* Bash runs a trap between two commands, so the manager is one action
per command another actor can see: starting a process and storing its pid are
two (`StartMaster`, `SetMasterPid`), and so are clearing the request flag and
answering the file (`TakeRequest`, `HandleRequest`). `StopVllm`, `StopMaster`
(which goes on to the next generation or to `DeleteSession`) and `BeginCleanup`
follow `handle_restart_request` and `cleanup_runtime`. The run is, per concurrency,
`Begin` (every concurrency is a process of its own and runs `verify_preconditions`;
the operator starts the first when window one is ready), `RunStages` (R1 to R3), `WriteRequest`, `SendUsr1`, `SeeRestarted`,
`SeeRecovered`, `RunR4`, `Fail` (whatever its parts raise on, the verification of a
later concurrency included) and `Exit`, the
trap that sends TERM. Faults are `Crash` of a process and `StartTimesOut`;
`OperatorStops` and `Interrupted` end one of the windows, and `Interrupted` also
stands for a deadline of the run that passes early.

*Abstracted.* vLLM's process tree is one process, and stopping it always
succeeds (TERM, then KILL after 60 seconds). The data of a concurrency is one
item. The request file, replaced as a whole and by one run that waits for its answer,
is read at once with the writing of the status. The checks of lines 41-656 of `U` come before the first action. Clocks and
sampling windows are left out: what a wait sees is true when it returns. A manager
serves one run, as the precondition of a new session (no keys) has it.

### Runs

`runtime_restart` has three concurrencies (the second request meets the state
the first one left, the third the same again), two faults and two interruptions
anywhere: 11,766 states. Deadlock is not checked since both scripts may be over,
and the manager idles in its loop.

* `OneGeneration`: processes of two generations never run together.
* `ReadyMeansRunning`: "ready" in the file is true until something crashes.
* `RestartAnswerTrue`: when the run accepts an answer, that restart has happened,
  DRAM is empty and all that was on the SSD is still there.
* `NoRejection`: no request is refused; flag, file and generation are written and
  read in an order that never lets an old signal meet a new request.
* `TidyUnlessInterrupted`: a manager that ends by itself or by the run's TERM
  leaves no process and no cache. (An interruption between the start of a process and
  the storing of its pid does leave the process: hazard at `U` 716.)
* `RestartAnswered`, `RunCompletes`: a waiting run learns the outcome before its
  deadline; undisturbed, every concurrency gets its R4 and all is released.

Fairness: both scripts run on, and Mooncake writes what it has to write (eager
offload; recovery after a restart). Nothing has to crash, time out or be
interrupted.

### Finding

`runtime_cleanup`: a process of the runtime dies; the manager notices and begins
`cleanup_runtime`, whose first command resets the traps; the run fails on the
dead runtime and its own EXIT trap sends TERM, which now has the default action
and kills the manager in the middle of its cleanup. The other process runs on
and the session directory stays. `设计.md` 270-272 promises the opposite for a
run that fails. `TidyUnlessInterrupted` is what does hold: a manager that ends
by itself has cleaned up.

## LoadPath and TracedLoad

*State.* What each HBM block contains (`data`) and is hashed as (`cached`), the
store, the engine's view of a request (`status`, `held`, `computed`, `suspect`),
the scheduler side (`loadSpec`, `pooled`, `loading`) and the receiving thread
(`queue`, `recv`, `job`, `failed`, `invalid`, `received`). All prompts are prefixes
of one text, so that the content of a block is its position in it and its hash is
the same number: that is the worst case for sharing, and lets the model say
whether what a block holds is what it is taken for.

*Actions.* `Schedule(r)` is a try of vLLM's scheduler with everything the
connector does in it: `AdmitFails` (too few free blocks; the spec of the lookup
stays, or is taken by this step's metadata if the scheduler knows the request from an
earlier load), `AdmitLoad` (blocks, `update_state_after_alloc` and the job in one engine
step), `AdmitRun`, `Resume` behind a load, `Leave` (preempted or finished). The
thread is cut at its locks: `Get`, `Report` (failed blocks), `Finish`; `GetRaises` is a
handler that raises before it has the codes, which `run` logs and forgets: `dropped`
remembers its request. A spec makes a job only if its `canLoad` was set for the blocks the
request has now (`EnabledSpec`, `JobsOf`). The end of a
step is cut between its two collections: `CollectFinished` and
`UpdateFromOutput`. `StoreChanges` adds and evicts blocks at any time.

*External, modelled from use.* The block pool (`Free`, `Uncached`), vLLM's
scheduler with what it does about failed blocks (`Good`, `Hurt`,
`UpdateFromOutput`), the worker that passes jobs and collects, the store.

*Abstracted.* One KV cache group, one worker, `load_async`. The forward pass is
`Forward`: it fills the blocks behind the computed tokens, rightly if what it
attends to is right. A block lost by the store, a code for one block and a `get`
that returns `None` are all a set of failed positions, at least those the store
lacks. Loads are not interrupted by a preemption, which vLLM does only to running
requests; aborting a request that loads is left out.

`TracedLoad` EXTENDS it with the records of the instrumented files: one per lookup,
one per load between the `get` and the evaluation of its codes. Each may fail to
be written.

| run | bounds | properties | states |
|---|---|---|---|
| `load` | prompts of 4 and 5 tokens in blocks of 2, 4 HBM blocks | `TypeOK`, `ComputedIsTrue`, `CachedIsTrue`, `LoadsOwnBlocks`, `LoadingIsExact` | 174,464 |
| `traced` | prompts of 4 and 2 tokens, 2 HBM blocks | `RecordTellsLoad`, `Transparent`, `LoadsEnd` | 159,816 |
| `traced_lookup` | the same | `OneLookupRecord` violated | |

Why the bounds are enough. A prompt of two whole blocks has the hit on everything
that gives a token back, and one of five tokens ends within a block; the two share
a prefix, in HBM and in the store. Four blocks are one too few for both at once, so
that a try fails, leaves its spec behind, and blocks are taken over from the prefix cache.

Fairness: the thread is a daemon that nothing stops, and the engine steps on while
it has requests. The store owes nothing.

* `ComputedIsTrue`: no token counts whose block does not hold its KV: not after an
  eviction, a partial or whole failure, or failed blocks and finished requests
  collected one after the other with the thread between.
* `CachedIsTrue`: a block still being loaded is nobody's hit.
* `LoadsOwnBlocks`: the thread writes only into blocks of a parked request that
  nobody else holds. A spec left from a failed try that made a job of the blocks of an
  earlier load would break it; `can_load` is what prevents that.
* `LoadingIsExact`: exactly the parked requests are collected.
* `Transparent`: the instrumented files implement the original load path (refinement, the
  trace step is a stutter); `RecordTellsLoad`: a load record says what becomes of the load.
* `LoadsEnd`: every load ends, well or badly, unless its handler raised. Such a load never
  ends: neither failed blocks nor the request are reported, and it stays parked. The code
  does just that and no document speaks of it, so it is a hazard (`original-source`
  `kv_transfer.py` 470) and no finding. `ComputedIsTrue` and the others hold all the same.

Finding `traced_lookup`: `get_num_new_matched_tokens` writes a record whenever it is
called, and vLLM calls it again for a request it had no blocks for. The request then
has several lookup records, whose times `R` 894-902 adds up, where
`doc/R3-TTFT细分设计.md` 137 expects one.

## LayerTransfer

*State.* The model runner's place (`runner`, `layer`, `computed`, `gates`), one
load and one save event per layer, the two queues and where each handler is
(`recv`, `send`), the counts, finished requests, `write_results`, leases.
`kind` chooses the pair of threads: per-layer keys, or addresses (GVA).

*Actions.* Each handler is cut at the places it waits or another thread sees:
`TakeSave`, `SyncSave`, `CopySave`, `FinishSave`, `SignalSave`; `TakeLoad`, `AwaitSave`,
`AwaitGate`, `CopyLoad`, `FinishLoad`, `SignalLoad`. An assertion that fails in a
handler sets `raised` and the thread goes on, as `run` does. Whatever else a handler may
raise, as it prepares addresses (`UnpreparedSave`, `UnpreparedLoad`: `build_shared` 245) or
waits for the device or calls the store (`RaiseSave`, `RaiseLoad`), ends it in the
same way: its event is not set, what it had done stays done, and `brokenSaves` and
`brokenLoads` remember the layer.

*External.* `pool_worker.py`: the runner that submits tasks, with the order its
calls must have for the threads not to block (stated at the head of the module).
One assumption on it is more than an order: it names no save in a GVA task without block
ranges (`Bare`), whose handler returns at 1536 before it would wait for that save and clear
its event. An empty task list may name one.

Run `layer`: two requests, two steps of three layers, loads two layers ahead, every
choice of what is loaded and saved, handlers that raise anywhere; 294,060 states. Two steps are what it takes for
an event, a count or a buffer of one step to meet the next one; three layers with
loads two ahead have a first layer, one that waits for a save and one whose save
nobody names. Fairness: the runner, the device and both daemon threads go on.

* `LoadWaitsForSave`, `SaveAfterCompute`: the order of computation, save and load.
* `AssertionsHold`: no event is set that is still set.
* `FinishedMeansMoved`, `FinishTruthful`: a finished request has no layer on its way,
  and the store is told of a success exactly if no copy returned a failure. That is about
  return codes: a copy of a layer before the final one that raises leaves no entry in
  `write_results`, and the final layer, if it is still handled, reports a success (hazard
  at `K` 1371).
* `LeasesCoverLoads`: leases live as long as they are used and no longer than the step.
* `SharedDataFresh`: no task with block lists outlives its step, so that a `build_shared` of
  a later step fills buffers nobody reads. A second call within a step is not covered: it
  depends on which builders `pool_worker.py` shares.
* `StepsEnd`: every step ends unless a handler raised in it. If one did, nobody sets its
  event and the runner waits for ever; that is what `run` does with an exception.

## ByteCopy and KeyShards

`ByteCopy` is `LayerBatchBuilder` and `_batch_copy_with_limits`, byte by byte: block ranges
with offsets and partial last blocks, duplicates, caches of different block lengths
and strides, calls and packets cut by limits, calls that fail. `batch_copy` is
external: it copies `size` bytes between a GVA and an HBM address. One task is
saved, another loaded into other blocks. Addresses are numbers without a width: the
code keeps them in 64 bits, which no memory fills.

Two named assumptions say what the module takes from outside, and TLC evaluates them on
the run. `TaskAssumption`: the block lists are as long as the ranges need (that the GVAs
cover a range is not assumed; `build_shared` tests it and `Covers` is its test).
`PlaceAssumption`: a page has room for the caches of a layer, blocks saved together have
GVAs a whole page stack apart, a load names an id with one GVA only, and caches do not
overlap in HBM. These are what the allocators of vLLM and of the pool promise; without
them what one block writes is another's, and no arithmetic brings it back. Two blocks of
equal content that share one GVA are left out with it: either copy would do, but a byte
is known here by its address. The assumption speaks of what a covered task names, and
not of the lists around it.

`KeyShards` is the other half, which keys a rank saves, the scheduler asks for and a rank
gets: heads shared by several ranks, each with its part of the list, decode-context
ranks, layers, and the rotation that lets each rank begin elsewhere. The store is
external and may lose a key or fail a call; `gone` remembers what that cost.

Run `plan` checks both in one state space (630,348 states): all combinations of
ranges over three blocks, offsets, partial blocks and four pairs of limits; four
ranks of two heads at their own pace, whole keys and per-layer keys, with and
without decode-context ranks, one fault.

* `RoundTrip`: what no call reported as failed comes back in its place.
* `StaysInPlace`: nothing is written outside the pages saved or the blocks loaded.
* `SavesComplete`: the shares of the ranks leave no key out.
* `HitIsLoadable`: what the scheduler found is there for every rank, unless a fault took it.
* `FailedExact`: a rotated list still fails the right blocks.

## Proofs

All theorems hold for every value of the constants under the named assumptions
`StorePathAssumption` (finite sets of requests and workers, at least one worker),
`RuntimeAssumption` (numbers are numbers, at least one concurrency),
`LoadAssumption` (finite sets of requests and blocks, blocks of at least one token,
prompts of at least one token), `LayerAssumption` (finite set of requests, loads at
least two layers ahead and at most as many as there are), `ShardAssumption` (ranks
are a multiple of the ranks per head and these of the decode-context sizes, at least
one layer, at least one job, jobs are sequences of numbered blocks), and
`ByteAssumption` (as many strides and base addresses as block lengths, no length 0, at
least one cache per layer, strides at least the length) with the two above.

| module | theorem | inductive invariant |
|---|---|---|
| `StorePathProofs` | `TypeCorrect` | `TypeInv`: `TypeOK`, and a busy thread has a job in hand |
| `StorePathProofs` | `EventsCountedExactly`, `EventsHeld` | `EventInv`: the event of an unfinished job is, on each worker, in exactly one of backlog, thread, completed events and output |
| `StorePathProofs` | `BlocksCountedExactly` | `RefInv`: `RefCountsExact`, and no ownership without Mamba groups |
| `StorePathProofs` | `EventsImplementHold` | the refinement of `BlockHold`, from `EventInv` |
| `StorePathProofs` | `CopiesPrecedeFree` | `OnceInv`, for `MaxSaves = 1` and `MaxPreempts = 0` only |
| `RuntimeControlProofs` | `TypesCorrect`, `GenerationsNeverOverlap`, `StatusIsTrue`, `AnswersAreTrue`, `RequestsAreAccepted` | `RInv` |
| `RuntimeControlProofs` | `LeavesNothing` | `RInv` and `TidyInv` |
| `LoadPathProofs` | `ComputedTokensAreThere`, `CacheIsTrue`, `LoadsIntoOwnBlocks`, `CollectedExactly` | `LoadInv`: `Types`, `JobInv`, `PrivateInv` and `DataInv`; `LoadPathLemmas` has the facts on its operators |
| `LoadPathProofs` | `TypesHold` | `LoadInv` and `BoundInv` |
| `TracedLoadProofs` | `TracesAreTransparent` | none: the refinement of `LoadPath`, step by step |
| `TracedLoadProofs` | `RecordsTellLoads` | `LoadInv` and `RecordInv` |
| `LayerTransferProofs` | `TypeCorrect`, `LoadsWait`, `SavesFollowCompute`, `NoAssertionFails`, `FinishedRequestsMoved`, `FinishesAreTruthful`, `LeasesHold`, `BuffersAreFresh` | `LayerInv` |
| `ByteCopyProofs` | `SavedComesBack`, `NothingStrays` | `ByteInv`: `TypeInv`, `PoolInv`, `BackInv`, `SavedInv`, `LoadedInv` |
| `KeyShardsProofs` | `SavesAreComplete`, `HitsAreLoadable`, `FailuresAreExact` | `ShardInv`: `SaveInv`, `HitInv`, `HitIsLoadable`, `FailedExact` |

*Events.* `EventCountExact` alone is not inductive: it does not exclude that one
worker holds an event twice, in its queue and in its completed set, and would
report it twice. `EventInv` adds that the four places are disjoint and that the
jobs of a backlog have events of their own. From it follows that each report
takes one worker out of the unreported ones, which is what the count adds.

*Blocks.* Every action that changes `own` or the set of events changes `refs` by
the difference of the two cardinalities. The lemmas on `KeptBy` split the set of
events into the kept and the freed, or the old and the fresh.

*Copies and frees.* `NoCopyAfterFree` is false when a request is saved twice
(`store_early_free`) and when its old job is still queued after a preemption, so
`CopiesPrecedeFree` has the hypothesis `SavedOnce`: one save, one life. All else is
arbitrary, failing stores and careless workers included. `OnceInv` says that the job of
such a request is in one place of a worker only, its backlog, its thread, or its reports;
a request is done only without a save, when it is in none of them, or when it is in the
reports of all workers.

*Runtime.* `RInv` says which generation each place of both scripts belongs to:
`ClientInv` that a generation is the run's concurrency before its restart and
one more after it, that a raised flag has the current question in the file, and
that a restart is in progress only while the run waits or is over; `StatusInv`
that "ready" was written for this generation and that its request id is the
generation's; `ProcessInv` that only this generation runs. Types and invariant
are mutually dependent (a generation is at most one ahead because a second
request needs the next concurrency), so they are proved together. Between the flag and
the file (`manager = "handle"`) the question in the file is still the current one.

*What a manager leaves.* `TidyUnlessInterrupted` fails when a signal reaches the manager
between the start of a process and the storing of its pid, so `TidyInv` says for each
place of the script which processes run and whose pids are known, as long as nobody
has interrupted. Its first lines are why nobody does by himself: the run sends TERM in its
exit trap only, and while the traps are set it gets there only when the manager is in its
loop or its cleanup, with no restart under way.

*Loads.* That computed tokens are there is not inductive: it says nothing of a
request that is still parked. `JobInv` says that a parked request is in one place,
a job, the received or the collected ones, and that its job loads into the blocks
it holds. `PrivateInv` says that what a request holds behind its computed tokens is
nobody else's and not in the prefix cache, so that no copy and no forward pass can
spoil another's block, and that the blocks reported as failed belong to a request the
thread is through with: cutting it cannot miss a failure that comes later.
`DataInv` then says that each block of a parked request is right unless it is still to
be loaded, has failed, lies behind a cut already made, or the handler of its load has
raised: such a request stays parked (`JobInv`), so nothing of it ever counts.
`WaitingSpec`, in `Types`, is why a spec left from a failed try makes no job: what has not
been enabled since is not `canLoad`. `RunInv` is shared by the two actions that let a
request run; `TakenFacts` by all that give it blocks. `LoadPathLemmas` proves
what whole and partial blocks are (`BlockCounts`, `WholeBlocks`), that the longest
prefix exists (`PrefixFacts`), and what an allocation and a forward pass change.

*Bounds of loads.* `TypeOK` bounds what the types in `LoadInv` leave open: no request
computes past its prompt or holds more blocks than the prompt fills, and nothing is
stored of a position no prompt has. `BoundInv` has these bounds; that the longest of the
prompts exists follows from the finiteness of `Request`, by a well-founded minimum.

*Layers.* Both queues are first in, first out, so three numbers say where a step is: the
loads done, the saves done, and the loads that have passed the save they name. `LayerInv`
writes everything else down as a function of them: what is in each queue (the saves may be
behind empty task lists of an earlier step, which the thread drops), which events are set
(`EventOrder`: those of the saves done that no load has passed), the counts, leases and
codes. A layer whose handler raised counts as done but has no event (`brokenSaves`,
`brokenLoads`), and the counts are only bounded from then on; since its event never comes,
no step follows the one it is in. That an assertion would fail is then a contradiction between two of these numbers,
and `AtRest` carries over to the next step that nothing of the last one is left.

*Keys.* `Known` is what the store holds or a fault cost; it only grows. `SaveInv` says
that a rank is past a place only when all its keys there are known, and `HitInv` that all keys of
what the scheduler found are. Then everything is arithmetic on quotients and
remainders: the share of a rank has the places congruent to the rank (`ShardFacts`), each
key of a block is some rank's to save (`KeysCovered`), each key of a rank is one the
scheduler asked for (`RankKeyAsked`), and a rotated list has the same members (`RotateFacts`).
`SaveInv` needs no statement on the pace of the ranks, which is why they may go at
any.

*Bytes.* `RoundTrip` speaks of the end only. `ByteInv` says of every state what is in the
pool and in HBM: each pool byte is the byte some entry of a saved block has at that distance
(`PoolInv`), each byte loaded is what the pool holds for some entry of a loaded block
(`BackInv`), and the entries of layers without failure are there as far as the work has got
(`SavedInv`, `LoadedInv`: up to the layer at hand, and of it what is not in `todo`). That
the entry is the right one is geometry: two entries with a GVA in common are the same
(`PoolPlaces`), and so are two with an HBM address in common (`HbmPlaces`), which is where
`PlaceAssumption` is used. It follows from `OffsetsApart`: the caches of a layer lie one
behind the other in its page, whatever their lengths. A call copies its entries byte for
byte (`CopyFacts`), because the packets of an entry are pieces of it that leave nothing out
(`SplitFacts`), and the calls share the list without a gap (`CallFacts`). Removing what is
there twice leaves the same blocks (`DedupeFacts`). `StaysInPlace` follows from `PoolInv`,
`BackInv` and the room of a page. What a recursive function such as `LenTo` or
that of `FlattenSeq` computes is got without induction over data: a least length without
such a function leads to a contradiction (`LenToExists`, `FlattenDef`), so it exists and
has its equation, and what follows for each place holds for want of a least counterexample.

*Traces.* `Transparent` needs no invariant. Each operator of the instance is that of
`LoadPath` with the thread's place replaced, and only the thread's own actions name
its place; they are compared fully expanded. Writing a record is a stuttering step
because the place "trace" is mapped to "report". That a record tells the truth is an
invariant: `LoadInv` is proved of the instrumented steps too, and `RecordInv` follows a
request through its load. Nothing is recorded while its job is queued, the record agrees with
the codes while the thread holds them, and only requests the thread is through with are cut.

Only model-checked: liveness (`DelayedFreed`, `EventsReleased`, `RestartAnswered`,
`RunCompletes`, `StepsEnd`, `LoadsEnd`), which is out of the prover's reach. Of
`NoCopyAfterFree` the theorem covers requests saved once, which is where it holds; the
runs check the instances of it.

## Not modelled

* *Stages and tier evidence of a run* (`R` 416-595, 748-812, 968-1034). `wait_stable`,
  `wait_ssd_replicas`, `source_name` and `cache_valid` judge metrics, log lines and clocks
  of vLLM and `mooncake_master`. What is true there is decided by offload and
  eviction policies outside the repository; a model would be of those policies.
* *Manifest, session and result files, workbook* (`R` 814-863, 1130-1393, 1610-1613). One
  sequential writer; what its checks compare (models, lengths, key counts) is data
  this project does not represent. The crash between two of the writes is a listed
  hazard without property.
* *Loads in the step itself* (`load_async` false), carried out by `pool_worker.py`, which
  is not in the repository, and *several KV cache groups* on the load path.
* *A second call of `build_shared` within a step*, and a bare GVA load task that names a
  save: both are for `pool_worker.py` to avoid.
* *A later run on the same manager*: one run of several concurrencies is modelled.
* *Token counts of the trackers* (`S` 610-882): a step saves a request or does not.
* Capture proxy, wrapper build, host checks of `U`, `C1`/`C5`/`C10`, `bak/` and `tests/`: I/O,
  conversions, one-off scripts; reasons in `PROJECT.json`.

## Running

`tlc -config StorePathHybrid.cfg MCStorePath`, and likewise for the other runs
(`PROJECT.json` names module and configuration of each); `tlapm
StorePathProofs.tla`, and likewise for the other modules with proofs, checks them.
