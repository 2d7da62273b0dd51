------------------------------ MODULE StorePath ------------------------------
(***************************************************************************)
(* The asynchronous store path of the KV pool connector: the scheduler     *)
(* side (KVPoolScheduler, pool_scheduler.py) decides what each step saves  *)
(* and when blocks go back to the block pool; on every worker one          *)
(* KVCacheStoreSendingThread (kv_transfer.py) copies the blocks to the     *)
(* store in the background and reports what it has finished.               *)
(*                                                                         *)
(* The role modelled is kv_producer / kv_both without layerwise transfer:  *)
(* in the other roles both request_finished methods free at once and       *)
(* nothing here happens.  Hybrid says whether the model has Mamba groups,  *)
(* whose state blocks are kept by an event per save.                       *)
(*                                                                         *)
(* The engine alternates schedule -> execute on every worker -> update, as *)
(* vLLM does; the sending threads interleave with all of it.               *)
(***************************************************************************)
EXTENDS Integers, Sequences, FiniteSets

CONSTANTS
  Request,             \* request ids
  Worker,              \* one per rank: _expected_worker_count of them
  Block,               \* Mamba state blocks of the block pool
  NoBlock,             \* "owns no state block"
  NoJob,               \* the thread handles no request
  Hybrid,              \* use_hybrid with a Mamba group
  StoreMayFail,        \* may the body of _handle_request raise?
  DiscardsOnRegister,  \* does the worker drop an older report when it registers a save?
  MaxSaves,            \* bound: saves per life of a request
  MaxPreempts,         \* bound: preemptions per request
  MaxBatch             \* bound: requests scheduled in one step

ASSUME StorePathAssumption ==
  /\ IsFiniteSet(Request)
  /\ IsFiniteSet(Worker) /\ Worker # {}
  /\ NoBlock \notin Block
  /\ Hybrid \in BOOLEAN
  /\ StoreMayFail \in BOOLEAN
  /\ DiscardsOnRegister \in BOOLEAN
  /\ MaxSaves \in Nat /\ MaxPreempts \in Nat /\ MaxBatch \in Nat

VARIABLES
  \* vLLM's view of a request and of the block pool
  status,        \* "waiting", "running", "delayed" (finished, blocks kept), "done"
  life,          \* how often the request was preempted
  own,           \* the state block the request references
  refs,          \* reference counts of the state blocks
  \* KVPoolScheduler
  saved,         \* chunks behind tracker.num_saved_tokens; 0 also when no tracker
  delayedFree,   \* _delayed_free_req_ids
  eventId,       \* sending_event_id
  sendingEvents, \* event -> completed worker count
  sendingBlocks, \* event -> the state blocks it keeps
  \* one engine step
  phase,         \* "schedule" or "execute"
  meta,          \* the connector metadata of the step
  toRun,         \* workers that have not executed the step yet
  output,        \* what each worker reported in the step
  sent,          \* KVOutputAggregator: workers that reported the request sent
  \* KVCacheStoreSendingThread of each worker
  stored,        \* stored_requests
  queue,         \* request_queue
  pc, cur,       \* where _handle_request is, and with which ReqMeta
  finished,      \* finished_requests
  completed      \* completed_events

engineVars == <<status, life, own, refs, saved, delayedFree, eventId,
                sendingEvents, sendingBlocks, phase, meta, toRun, output, sent>>
threadVars == <<stored, queue, pc, cur, finished, completed>>
vars == <<engineVars, threadVars>>

NoEvent == -1    \* req_meta.event_id is None
Absent  == -1    \* stored_requests.get(req_id, -1)

Elems(s) == {s[i] : i \in 1..Len(s)}
NoMeta   == [saves |-> << >>, preempted |-> {}, delayed |-> {}]
NoReport == [w \in Worker |-> [done |-> {}, events |-> {}]]

\* A save handed to the sending threads: the part of ReqMeta they act upon.
Job(r, l, e) == [req |-> r, life |-> l, event |-> e]
Jobs == [req : Request, life : Nat, event : Nat \cup {NoEvent}]
Idle == "idle"

-----------------------------------------------------------------------------
(* Scheduler side *)

\* Distinct requests of S, in the order build_connector_meta visits them.
Orders(S) == {s \in UNION {[1..n -> S] : n \in 0..MaxBatch} :
                \A i, j \in DOMAIN s : s[i] = s[j] => i = j}

\* External, vLLM's allocator: a scheduled request keeps its state block or
\* moves to one nobody references.
BlockChoices(S) ==
  IF ~Hybrid THEN {[r \in S |-> NoBlock]}
  ELSE {f \in [S -> Block] :
          /\ \A r \in S : f[r] = own[r] \/ refs[f[r]] = 0
          /\ \A r1, r2 \in S : f[r1] = f[r2] => r1 = r2}

\* How many requests reference block b under ownership o.
Owners(o, b) == Cardinality({r \in Request : o[r] = b})

\* Mutant: every save of a step gets the same event.
NewJobSharesEvent(r, i) == Job(r, life[r], IF Hybrid THEN eventId ELSE NoEvent)

\* ReqMeta of the i-th save: touch_sending_mamba_blocks gives it a fresh event.
NewJob(r, i) == Job(r, life[r], IF Hybrid THEN eventId + i - 1 ELSE NoEvent)

\* build_connector_meta, with the preemptions and allocations of the vLLM
\* step that calls it.  scheduled are the requests with new blocks in the
\* step, saves those whose ReqMeta can_save.
Schedule(preempted, scheduled, saves, blocks) ==
  LET dropped == preempted \cup {r \in Request : status[r] \in {"delayed", "done"}}
      fresh   == eventId..(eventId + Len(saves) - 1)
  IN
  /\ phase = "schedule"
  /\ \A r \in Elems(saves) : saved[r] < MaxSaves
  /\ status' = [r \in Request |-> IF r \in preempted THEN "waiting"
                                  ELSE IF r \in scheduled THEN "running"
                                  ELSE status[r]]
  /\ life' = [r \in Request |-> IF r \in preempted THEN life[r] + 1 ELSE life[r]]
  /\ own' = [r \in Request |-> IF r \in preempted THEN NoBlock
                               ELSE IF r \in scheduled THEN blocks[r]
                               ELSE own[r]]
  /\ saved' = [r \in Request |-> IF r \in dropped THEN 0
                                 ELSE IF r \in Elems(saves) THEN saved[r] + 1
                                 ELSE saved[r]]
  /\ delayedFree' = delayedFree \ preempted
  /\ meta' = [saves |-> [i \in 1..Len(saves) |-> NewJob(saves[i], i)],
              preempted |-> preempted,
              delayed |-> delayedFree']
  /\ IF Hybrid
     THEN /\ eventId' = eventId + Len(saves)
          /\ sendingEvents' = [e \in DOMAIN sendingEvents \cup fresh |->
                                 IF e \in fresh THEN 0 ELSE sendingEvents[e]]
          /\ sendingBlocks' = [e \in DOMAIN sendingEvents \cup fresh |->
                                 IF e \in fresh THEN {blocks[saves[e - eventId + 1]]}
                                 ELSE sendingBlocks[e]]
          /\ refs' = [b \in Block |-> refs[b] - Owners(own, b) + Owners(own', b)
                        + Cardinality({e \in fresh : b \in sendingBlocks'[e]})]
     ELSE UNCHANGED <<eventId, sendingEvents, sendingBlocks, refs>>
  /\ phase' = "execute"
  /\ toRun' = Worker
  /\ UNCHANGED <<output, sent>>
  /\ UNCHANGED threadVars

\* Preempted requests are resumed by a later step at the earliest.
Preemptible == {r \in Request : status[r] = "running" /\ life[r] < MaxPreempts}
Schedulable == {r \in Request : status[r] \in {"waiting", "running"}}

ScheduleStep ==
  \E preempted \in SUBSET Preemptible :
  \E scheduled \in SUBSET (Schedulable \ preempted) :
  \E saves \in Orders(scheduled) :
  \E blocks \in BlockChoices(scheduled) :
    Schedule(preempted, scheduled, saves, blocks)

\* Mutant: a request saved once is taken for one that saved nothing.
DelaysFreeOffByOne(r) == saved[r] > 1

\* tracker.num_saved_tokens > 0, with blocks to keep: a waiting request has
\* neither a tracker nor blocks.
DelaysFree(r) == saved[r] > 0

\* request_finished and request_finished_all_groups: free now, or keep the
\* blocks until every worker has reported the request sent.
RequestFinished(r) ==
  /\ phase = "schedule"
  /\ status[r] \in {"waiting", "running"}
  /\ IF DelaysFree(r)
     THEN /\ status' = [status EXCEPT ![r] = "delayed"]
          /\ delayedFree' = delayedFree \cup {r}
          /\ UNCHANGED <<own, refs>>
     ELSE /\ status' = [status EXCEPT ![r] = "done"]
          /\ delayedFree' = delayedFree \ {r}
          /\ own' = [own EXCEPT ![r] = NoBlock]
          /\ refs' = [b \in Block |-> IF b = own[r] THEN refs[b] - 1 ELSE refs[b]]
  /\ UNCHANGED <<life, saved, eventId, sendingEvents, sendingBlocks, phase, meta,
                 toRun, output, sent>>
  /\ UNCHANGED threadVars

\* update_connector_output: the events whose workers have all reported.
ReportCount(e) == Cardinality({w \in Worker : e \in output[w].events})

\* Mutant: one worker less is enough.
CompleteEventsEarly ==
  {e \in DOMAIN sendingEvents :
     /\ ReportCount(e) > 0
     /\ sendingEvents[e] + ReportCount(e) >= Cardinality(Worker) - 1}

CompleteEvents == {e \in DOMAIN sendingEvents :
                     /\ ReportCount(e) > 0
                     /\ sendingEvents[e] + ReportCount(e) >= Cardinality(Worker)}

\* Mutant: blocks go back with every report.
FreedByEachReport(b) ==
  Cardinality({e \in DOMAIN sendingEvents : ReportCount(e) > 0 /\ b \in sendingBlocks[e]})

\* free_blocks of the complete events.
Freed(b) == Cardinality({e \in CompleteEvents : b \in sendingBlocks[e]})

\* External, KVOutputAggregator: the workers that have reported r sent.
Reported(r) == sent[r] \cup {w \in Worker : r \in output[w].done}

\* finished_sending: the requests reported by all workers.
Released == {r \in Request : Reported(r) = Worker}

\* The end of a step: update_connector_output, then update_finished_sending,
\* after which vLLM frees the blocks of the released requests.
Update ==
  LET kept == DOMAIN sendingEvents \ CompleteEvents IN
  /\ phase = "execute"
  /\ toRun = {}
  /\ sendingEvents' = [e \in kept |-> sendingEvents[e] + ReportCount(e)]
  /\ sendingBlocks' = [e \in kept |-> sendingBlocks[e]]
  /\ sent' = [r \in Request |-> IF r \in Released THEN {} ELSE Reported(r)]
  /\ delayedFree' = delayedFree \ Released
  /\ status' = [r \in Request |-> IF r \in Released THEN "done" ELSE status[r]]
  /\ own' = [r \in Request |-> IF r \in Released THEN NoBlock ELSE own[r]]
  /\ refs' = [b \in Block |-> refs[b] - Owners(own, b) + Owners(own', b) - Freed(b)]
  /\ phase' = "schedule"
  /\ meta' = NoMeta
  /\ output' = NoReport
  /\ UNCHANGED <<life, saved, eventId, toRun>>
  /\ UNCHANGED threadVars

-----------------------------------------------------------------------------
(* Worker side *)

\* add_stored_request for every save of the step, after the preempted
\* requests were deleted.
Registered(w) ==
  LET kept == [r \in Request |-> IF r \in meta.preempted THEN Absent ELSE stored[w][r]]
      adds(r) == Cardinality({i \in DOMAIN meta.saves : meta.saves[i].req = r})
  IN  [r \in Request |-> IF adds(r) = 0 THEN kept[r]
                         ELSE adds(r) + (IF kept[r] = Absent THEN 0 ELSE kept[r])]

\* discard_finished_requests: always for the preempted requests; a careful
\* worker also drops the older report of a request it saves again.
Discarded == meta.preempted \cup
  (IF DiscardsOnRegister THEN {meta.saves[i].req : i \in DOMAIN meta.saves} ELSE {})

\* finished_requests without the discarded ones.
Known(w) == finished[w] \ Discarded

\* Mutant: collecting clears the reports that nobody asked for.
UncollectedCleared(w) == {}

\* get_and_clear_finished_requests with the delayed requests of the step:
\* reports of other requests stay.
Uncollected(w) == Known(w) \ meta.delayed

\* External, pool_worker.py: worker w executes the step.  It applies the
\* preemptions, registers and enqueues the saves, and collects the finished
\* requests whose free is delayed and the completed events.
Execute(w) ==
  /\ phase = "execute"
  /\ w \in toRun
  /\ toRun' = toRun \ {w}
  /\ stored' = [stored EXCEPT ![w] = Registered(w)]
  /\ queue' = [queue EXCEPT ![w] = @ \o meta.saves]
  /\ output' = [output EXCEPT ![w] = [done |-> Known(w) \cap meta.delayed,
                                      events |-> completed[w]]]
  /\ finished' = [finished EXCEPT ![w] = Uncollected(w)]
  /\ completed' = [completed EXCEPT ![w] = {}]
  /\ UNCHANGED <<status, life, own, refs, saved, delayedFree, eventId,
                 sendingEvents, sendingBlocks, phase, meta, sent, pc, cur>>

\* mark_completed_events: nothing to mark without an event.
Marked(w, e) == IF e = NoEvent THEN completed[w] ELSE completed[w] \cup {e}

\* The handler is left and run() asks the queue for the next request.
Return(w) ==
  /\ pc' = [pc EXCEPT ![w] = Idle]
  /\ cur' = [cur EXCEPT ![w] = NoJob]

\* run / _handle_request up to the copy.  A request that is not registered is
\* skipped, its event marked by the finally clause all the same.
Take(w) ==
  /\ pc[w] = Idle
  /\ queue[w] # << >>
  /\ queue' = [queue EXCEPT ![w] = Tail(@)]
  /\ IF stored[w][Head(queue[w]).req] = Absent
     THEN /\ completed' = [completed EXCEPT ![w] = Marked(w, Head(queue[w]).event)]
          /\ UNCHANGED <<pc, cur>>
     ELSE /\ pc' = [pc EXCEPT ![w] = "put"]
          /\ cur' = [cur EXCEPT ![w] = Head(queue[w])]
          /\ UNCHANGED completed
  /\ UNCHANGED <<stored, finished>>
  /\ UNCHANGED engineVars

\* Key selection, lookup and put return; the finally clause marks the event.
PutDone(w) ==
  /\ pc[w] = "put"
  /\ completed' = [completed EXCEPT ![w] = Marked(w, cur[w].event)]
  /\ pc' = [pc EXCEPT ![w] = "dec"]
  /\ UNCHANGED <<stored, queue, cur, finished>>
  /\ UNCHANGED engineVars

\* Mutant: no finally clause.
PutRaisesUnmarked(w) ==
  /\ StoreMayFail
  /\ pc[w] = "put"
  /\ Return(w)
  /\ UNCHANGED <<stored, queue, finished, completed>>
  /\ UNCHANGED engineVars

\* Something in the try block raises: the finally clause runs, the rest of
\* the handler does not, and run() logs the error and goes on.
PutRaises(w) ==
  /\ StoreMayFail
  /\ pc[w] = "put"
  /\ completed' = [completed EXCEPT ![w] = Marked(w, cur[w].event)]
  /\ Return(w)
  /\ UNCHANGED <<stored, queue, finished>>
  /\ UNCHANGED engineVars

\* Mutant: decrements a request that is not registered any more.
DecrementUnregistered(w) ==
  /\ pc[w] = "dec"
  /\ stored' = [stored EXCEPT ![w][cur[w].req] = @ - 1]
  /\ pc' = [pc EXCEPT ![w] = "check"]
  /\ UNCHANGED <<queue, cur, finished, completed>>
  /\ UNCHANGED engineVars

\* dec_stored_request, under its lock.
Decrement(w) ==
  /\ pc[w] = "dec"
  /\ stored' = [stored EXCEPT ![w][cur[w].req] = IF @ = Absent THEN Absent ELSE @ - 1]
  /\ pc' = [pc EXCEPT ![w] = "check"]
  /\ UNCHANGED <<queue, cur, finished, completed>>
  /\ UNCHANGED engineVars

\* stored_requests.get(req_id, -1) == 0, read without the lock.
CheckZero(w) ==
  /\ pc[w] = "check"
  /\ IF stored[w][cur[w].req] = 0
     THEN pc' = [pc EXCEPT ![w] = "delete"] /\ UNCHANGED cur
     ELSE Return(w)
  /\ UNCHANGED <<stored, queue, finished, completed>>
  /\ UNCHANGED engineVars

\* delete_finished_stored_request, whatever the count is by now.
Delete(w) ==
  /\ pc[w] = "delete"
  /\ stored' = [stored EXCEPT ![w][cur[w].req] = Absent]
  /\ pc' = [pc EXCEPT ![w] = "report"]
  /\ UNCHANGED <<queue, cur, finished, completed>>
  /\ UNCHANGED engineVars

\* set_finished_request.
Report(w) ==
  /\ pc[w] = "report"
  /\ finished' = [finished EXCEPT ![w] = @ \cup {cur[w].req}]
  /\ Return(w)
  /\ UNCHANGED <<stored, queue, completed>>
  /\ UNCHANGED engineVars

PutReturns(w) == PutDone(w) \/ PutRaises(w)
Thread(w) == Take(w) \/ PutReturns(w) \/ Decrement(w) \/ CheckZero(w) \/ Delete(w) \/ Report(w)

-----------------------------------------------------------------------------
Init ==
  /\ status = [r \in Request |-> "waiting"]
  /\ life = [r \in Request |-> 0]
  /\ own = [r \in Request |-> NoBlock]
  /\ refs = [b \in Block |-> 0]
  /\ saved = [r \in Request |-> 0]
  /\ delayedFree = {}
  /\ eventId = 0
  /\ sendingEvents = [e \in {} |-> 0]
  /\ sendingBlocks = [e \in {} |-> {}]
  /\ phase = "schedule"
  /\ meta = NoMeta
  /\ toRun = {}
  /\ output = NoReport
  /\ sent = [r \in Request |-> {}]
  /\ stored = [w \in Worker |-> [r \in Request |-> Absent]]
  /\ queue = [w \in Worker |-> << >>]
  /\ pc = [w \in Worker |-> Idle]
  /\ cur = [w \in Worker |-> NoJob]
  /\ finished = [w \in Worker |-> {}]
  /\ completed = [w \in Worker |-> {}]

Next ==
  \/ ScheduleStep
  \/ \E r \in Request : RequestFinished(r)
  \/ Update
  \/ \E w \in Worker : Execute(w) \/ Thread(w)

\* The engine keeps stepping (traffic goes on) and no thread is starved: run()
\* is an endless loop that only leaves an item when the handler returns.
Fairness ==
  /\ WF_vars(ScheduleStep)
  /\ WF_vars(Update)
  /\ \A w \in Worker : WF_vars(Execute(w)) /\ WF_vars(Thread(w))

Spec == Init /\ [][Next]_vars
FairSpec == Spec /\ Fairness

-----------------------------------------------------------------------------
(* Properties *)

\* The variables have their types (all modules' one type invariant).
TypeOK ==
  /\ status \in [Request -> {"waiting", "running", "delayed", "done"}]
  /\ life \in [Request -> Nat]
  /\ own \in [Request -> Block \cup {NoBlock}]
  /\ refs \in [Block -> Int]
  /\ saved \in [Request -> Nat]
  /\ delayedFree \in SUBSET Request
  /\ eventId \in Nat
  /\ DOMAIN sendingEvents \subseteq 0..(eventId - 1)
  /\ sendingEvents \in [DOMAIN sendingEvents -> Nat]
  /\ sendingBlocks \in [DOMAIN sendingEvents -> SUBSET Block]
  /\ phase \in {"schedule", "execute"}
  /\ meta \in [saves : Seq(Jobs), preempted : SUBSET Request, delayed : SUBSET Request]
  /\ toRun \in SUBSET Worker
  /\ output \in [Worker -> [done : SUBSET Request, events : SUBSET Nat]]
  /\ sent \in [Request -> SUBSET Worker]
  /\ stored \in [Worker -> [Request -> Nat \cup {Absent}]]
  /\ queue \in [Worker -> Seq(Jobs)]
  /\ pc \in [Worker -> {Idle, "put", "dec", "check", "delete", "report"}]
  /\ cur \in [Worker -> Jobs \cup {NoJob}]
  /\ finished \in [Worker -> SUBSET Request]
  /\ completed \in [Worker -> SUBSET Nat]

\* Jobs of worker w whose copy is not over: in its queue or still in the
\* metadata it has to execute, or in the handler before the finally clause.
Backlog(w)  == queue[w] \o (IF w \in toRun THEN meta.saves ELSE << >>)
Copying(w)  == IF pc[w] = "put" THEN {cur[w]} ELSE {}
Unmarked(w) == {j.event : j \in Elems(Backlog(w)) \cup Copying(w)} \ {NoEvent}

\* Events the scheduler has not heard of from worker w.
Unreported(w) == Unmarked(w) \cup completed[w] \cup output[w].events

\* A worker that has not finished copying a save keeps the event of the save
\* alive: no order of reports from the other workers, no skipped or failed
\* job, no preemption makes update_connector_output free the state blocks of
\* an event early (touch_sending_mamba_blocks: "keep the reference of all
\* non-null mamba blocks that will send to external kv store").
EventsHeldUntilCopied == \A w \in Worker : Unmarked(w) \subseteq DOMAIN sendingEvents

\* sending_events counts every worker exactly once: the count of an event is
\* the number of workers with nothing left to report for it, and never that of
\* all workers, for then the event is popped.
EventCountExact ==
  /\ \A w \in Worker : Unreported(w) \subseteq DOMAIN sendingEvents
  /\ \A e \in DOMAIN sendingEvents :
       /\ sendingEvents[e] = Cardinality({w \in Worker : e \notin Unreported(w)})
       /\ sendingEvents[e] < Cardinality(Worker)

\* The reference count of a state block is exactly the requests and the
\* events that hold it: what touch adds, one free per event takes away.
RefCountsExact ==
  \A b \in Block :
    refs[b] = Owners(own, b) + Cardinality({e \in DOMAIN sendingEvents : b \in sendingBlocks[e]})

\* No worker copies a request whose blocks were freed at its finish: the
\* blocks "will be sent asynchronously and freed later" (request_finished).
\* Copies left over from an earlier life are vLLM's to stop.
NoCopyAfterFree ==
  \A w \in Worker : \A j \in Copying(w) :
    j.life = life[j.req] => status[j.req] # "done"

\* Whatever fails, every event is eventually completed and popped: the
\* finally clause of _handle_request, "always free blocks".
EventsReleased ==
  \A e \in 0..(Cardinality(Request) * (MaxPreempts + 1) * MaxSaves - 1) :
    e \in DOMAIN sendingEvents ~> e \notin DOMAIN sendingEvents

\* A finished request whose blocks were kept is released: "freed later".
DelayedFreed == \A r \in Request : status[r] = "delayed" ~> status[r] = "done"

\* The events of the store path behave as BlockHold says: a worker holds an
\* event until it has copied the job that carries it.
Hold == INSTANCE BlockHold WITH
  issued  <- eventId,
  holders <- [e \in DOMAIN sendingEvents |-> {w \in Worker : e \in Unmarked(w)}]

HoldSpec == Hold!Spec
=============================================================================
