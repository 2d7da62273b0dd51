---------------------------- MODULE LayerTransfer ----------------------------
(***************************************************************************)
(* The layerwise transfer threads of kv_transfer.py.  The model runner     *)
(* computes one layer after the other; a receiving thread brings the KV of *)
(* a layer in before the runner attends to it, a sending thread takes it   *)
(* out afterwards.  They meet in one load event and one save event per     *)
(* layer: a load may name a save it has to wait for, and whoever waits for *)
(* an event also clears it.                                                *)
(*                                                                         *)
(* kind = "key" is the KeyLayer pair of threads (one store key per layer), *)
(* kind = "gva" the Layer pair (batch_copy between addresses, leases on    *)
(* what is loaded, batch_write_finish on what was saved).                  *)
(*                                                                         *)
(* External: the runner (pool_worker.py).  It submits one load per layer,  *)
(* Ahead layers before it computes; the load of layer l waits for the save *)
(* of layer l - Ahead and, as its gate, for the start of the layer before  *)
(* its own; the saves no load waits for are awaited at the end of a step.  *)
(* Assumed of it: it names no save in a task without block ranges, whose   *)
(* handler returns before it would wait.                                   *)
(*                                                                         *)
(* A handler may raise wherever it prepares addresses, waits for the       *)
(* device or calls the store.  run() logs that and takes the next task:    *)
(* the event of the layer is never set, and the step never ends.           *)
(***************************************************************************)
EXTENDS Integers, Sequences, FiniteSets, SequencesExt

CONSTANTS
  Request,      \* request ids
  NumLayers,    \* final_layer_id + 1
  Ahead,        \* how far loads run ahead of the computation
  MaxSteps      \* bound: engine steps

ASSUME LayerAssumption ==
  /\ IsFiniteSet(Request)
  /\ NumLayers \in Nat /\ Ahead \in 2..NumLayers
  /\ MaxSteps \in Nat

VARIABLES
  kind,           \* which pair of threads
  step, batch,    \* engine step and what it moves
  runner, layer,  \* "idle", "load", "attend", "drain"; the runner's layer
  computed,       \* layers the device has finished: those below this number
  gates,          \* attention_start_gate: layers whose attention has started
  loadEvent, saveEvent,  \* layers whose layer_load/save_finished_events is set
  loadQueue, saveQueue,  \* request_queue of the two threads
  recv, load,     \* where _handle_request of the receiving thread is; its task
  send, save,     \* the same for the sending thread
  stored,         \* stored_requests of the sending thread
  saved, loaded,  \* finished_requests of the two threads
  results,        \* write_results: the requests whose keys have a failed copy
  finishes,       \* batch_write_finish calls of the step: <<request, succeeded>>
  leases,         \* requests whose load_keys are leased
  raised,         \* some assertion of a handler has failed
  lost,           \* history: requests with a failed return code in this step
  brokenLoads, brokenSaves   \* history: layers of the step whose handler has raised

runnerVars == <<kind, step, batch, runner, layer, computed, gates>>
recvVars   == <<loadQueue, recv, load, loadEvent, loaded, leases, brokenLoads>>
sendVars   == <<saveQueue, send, save, stored, saved, results, finishes, lost, brokenSaves>>
vars == <<runnerVars, recvVars, sendVars, saveEvent, raised>>

Layers     == 0..NumLayers - 1
FinalLayer == NumLayers - 1
NoLayer    == -1
Absent     == -1

\* A step: requests it loads and saves, those in their last chunk, and
\* whether there are task lists at all.
Batches == [loads : SUBSET Request, saves : SUBSET Request, last : SUBSET Request,
            loadTasks : BOOLEAN, saveTasks : BOOLEAN]
Task == [layer : Layers, step : 1..MaxSteps, wait : Layers \cup {NoLayer}, batch : Batches]
NoBatch == [loads |-> {}, saves |-> {}, last |-> {}, loadTasks |-> FALSE, saveTasks |-> FALSE]

\* Load tasks without block ranges.
Bare(b) == b.loadTasks /\ b.loads = {}

\* Mutant: the first loads name a save as well.
TaskForAlwaysWaits(l, b, n) ==
  [layer |-> l, step |-> n, batch |-> b,
   wait |-> IF b.saveTasks THEN l - Ahead ELSE NoLayer]

TaskFor(l, b, n) ==
  [layer |-> l, step |-> n, batch |-> b,
   wait |-> IF b.saveTasks /\ l >= Ahead /\ ~Bare(b) THEN l - Ahead ELSE NoLayer]
NoTask == [TaskFor(0, NoBatch, 1) EXCEPT !.layer = NoLayer]

-----------------------------------------------------------------------------
(* The model runner *)

\* A step begins: its saves are counted once per layer, its first loads queued.
BeginStep(b) ==
  /\ runner = "idle" /\ step < MaxSteps
  /\ b.loads # {} => b.loadTasks
  /\ b.saves # {} => b.saveTasks
  /\ b.last \in {b.loads, b.saves \ b.loads}     \* bound: the first or the last chunks
  /\ step' = step + 1 /\ batch' = b
  /\ runner' = "load" /\ layer' = 0 /\ computed' = 0 /\ gates' = {}
  /\ loadQueue' = loadQueue \o [i \in 1..Ahead |-> TaskFor(i - 1, b, step + 1)]
  /\ leases' = IF kind = "gva" THEN b.loads ELSE {}
  /\ stored' = [r \in Request |-> IF r \notin b.saves THEN stored[r]
                                  ELSE IF stored[r] = Absent THEN NumLayers
                                  ELSE stored[r] + NumLayers]
  /\ finishes' = {} /\ lost' = {}
  /\ UNCHANGED <<kind, recv, load, loadEvent, loaded, saveQueue, send, save,
                 saved, results, saveEvent, raised, brokenLoads, brokenSaves>>

\* wait_for_layer_load: the layer's KV is there, attention starts.
LayerLoaded ==
  /\ runner = "load" /\ layer \in loadEvent
  /\ loadEvent' = loadEvent \ {layer}
  /\ gates' = gates \cup {layer}
  /\ runner' = "attend"
  /\ UNCHANGED <<kind, step, batch, layer, computed, loadQueue, recv, load, loaded,
                 leases, brokenLoads, sendVars, saveEvent, raised>>

\* save_kv_layer: the layer is on the device's stream, its save is queued
\* and so is the load that has to wait for that save.
LayerIssued ==
  LET next == layer + Ahead IN
  /\ runner = "attend"
  /\ saveQueue' = Append(saveQueue, TaskFor(layer, batch, step))
  /\ loadQueue' = IF next \in Layers THEN Append(loadQueue, TaskFor(next, batch, step))
                  ELSE loadQueue
  /\ layer' = layer + 1
  /\ runner' = IF layer = FinalLayer THEN "drain" ELSE "load"
  /\ UNCHANGED <<kind, step, batch, computed, gates, recv, load, loadEvent, loaded,
                 leases, send, save, stored, saved, results, finishes, lost,
                 saveEvent, raised, brokenLoads, brokenSaves>>

\* The device reaches the event recorded after a layer.
LayerComputed ==
  /\ computed < layer
  /\ computed' = computed + 1
  /\ UNCHANGED <<kind, step, batch, runner, layer, gates, recvVars, sendVars, saveEvent, raised>>

\* Mutant: the saves of the GVA path are not awaited.
EndStepUndrained ==
  LET named   == {TaskFor(l, batch, step).wait : l \in Layers}
      awaited == IF batch.saveTasks /\ kind = "key" THEN Layers \ named ELSE {} IN
  /\ runner = "drain" /\ computed = NumLayers
  /\ awaited \subseteq saveEvent
  /\ saveEvent' = saveEvent \ awaited
  /\ saved' = {} /\ loaded' = {}
  /\ runner' = "idle"
  /\ UNCHANGED <<kind, step, batch, layer, computed, gates, loadQueue, recv, load,
                 loadEvent, leases, saveQueue, send, save, stored, results, finishes, lost,
                 raised, brokenLoads, brokenSaves>>

\* The step is over: all computed, the last saves awaited, the finished
\* requests collected (get_and_clear_finished_requests).
EndStep ==
  LET named   == {TaskFor(l, batch, step).wait : l \in Layers}
      awaited == IF batch.saveTasks THEN Layers \ named ELSE {} IN
  /\ runner = "drain" /\ computed = NumLayers
  /\ awaited \subseteq saveEvent
  /\ saveEvent' = saveEvent \ awaited
  /\ saved' = {} /\ loaded' = {}
  /\ runner' = "idle"
  /\ UNCHANGED <<kind, step, batch, layer, computed, gates, loadQueue, recv, load,
                 loadEvent, leases, saveQueue, send, save, stored, results, finishes, lost,
                 raised, brokenLoads, brokenSaves>>

-----------------------------------------------------------------------------
(* The sending thread *)

\* Where a save goes after its counts are taken off: it copies, unless there
\* is nothing to save (has_any_save) or, per key, nothing missing.
CopiesSave(b) == b.saves # {}

\* dec_stored_request
CountOff(requests) ==
  [r \in Request |-> IF r \in requests /\ stored[r] # Absent THEN stored[r] - 1 ELSE stored[r]]

\* Mutant: a task with nothing to save is dropped like an empty list.
TakeSaveDropsBare ==
  /\ send = "idle" /\ saveQueue # << >>
  /\ saveQueue' = Tail(saveQueue)
  /\ LET task == Head(saveQueue)  b == task.batch IN
       IF b.saves = {} THEN UNCHANGED <<send, save, stored>>
       ELSE /\ save' = task
            /\ stored' = CountOff(b.saves)
            /\ send' = "sync"
  /\ UNCHANGED <<runnerVars, recvVars, saved, results, finishes, lost, saveEvent, raised,
                 brokenSaves>>

\* _handle_request up to the copy.  An empty task list is dropped, event and all.
TakeSave ==
  /\ send = "idle" /\ saveQueue # << >>
  /\ saveQueue' = Tail(saveQueue)
  /\ LET task == Head(saveQueue)  b == task.batch IN
       IF ~b.saveTasks THEN UNCHANGED <<send, save, stored>>
       ELSE /\ save' = task
            /\ stored' = CountOff(b.saves)
            /\ send' \in IF ~CopiesSave(b) THEN {"signal"}
                         ELSE IF kind = "key" THEN {"sync", "finish"}
                         ELSE {"sync"}
  /\ UNCHANGED <<runnerVars, recvVars, saved, results, finishes, lost, saveEvent, raised,
                 brokenSaves>>

\* Its addresses cannot be prepared, as when the GVAs do not cover a range:
\* the handler raises with none, some or all of the counts taken off.
UnpreparedSave ==
  /\ send = "idle" /\ saveQueue # << >>
  /\ saveQueue' = Tail(saveQueue)
  /\ LET task == Head(saveQueue)  b == task.batch IN
       /\ b.saves # {}
       /\ \E counted \in SUBSET b.saves :
            /\ kind = "key" => counted \in {{}, b.saves}
            /\ stored' = CountOff(counted)
       /\ brokenSaves' = brokenSaves \cup {task.layer}
  /\ UNCHANGED <<runnerVars, recvVars, send, save, saved, results, finishes, lost,
                 saveEvent, raised>>

\* Mutant: the event of the layer before is taken.
SyncSaveOneBefore ==
  /\ send = "sync" /\ computed >= save.layer
  /\ send' = "copy"
  /\ UNCHANGED <<runnerVars, recvVars, saveQueue, save, stored, saved, results,
                 finishes, lost, saveEvent, raised, brokenSaves>>

\* sync_save_events[layer].synchronize()
SyncSave ==
  /\ send = "sync" /\ computed > save.layer
  /\ send' = "copy"
  /\ UNCHANGED <<runnerVars, recvVars, saveQueue, save, stored, saved, results,
                 finishes, lost, saveEvent, raised, brokenSaves>>

\* Mutant: the last layer's return code alone decides.
FailedKeysLastCode(failed) == IF failed THEN save.batch.saves ELSE {}

\* write_results[key] = write_results.get(key, 0) or res
FailedKeys(failed) == IF failed THEN results \cup save.batch.saves ELSE results

\* Key path: put, whose result nobody reads.  GVA path: one batch_copy for all
\* groups; a code other than 0 is kept per key and given to batch_write_finish
\* with the final layer.
CopySave(failed) ==
  LET final == save.layer = FinalLayer /\ kind = "gva" IN
  /\ send = "copy"
  /\ send' = "finish"
  /\ results' = IF kind = "key" THEN results
                ELSE IF final THEN FailedKeys(failed) \ save.batch.saves
                ELSE FailedKeys(failed)
  /\ finishes' = IF final THEN finishes \cup {<<r, r \notin FailedKeys(failed)>> : r \in save.batch.saves}
                 ELSE finishes
  /\ lost' = IF failed THEN lost \cup save.batch.saves ELSE lost
  /\ UNCHANGED <<runnerVars, recvVars, saveQueue, save, stored, saved, saveEvent, raised,
                 brokenSaves>>

\* synchronize, put, batch_copy or, with the final layer and its codes taken
\* out, batch_write_finish raises.  No code of such a copy is kept: with the
\* final layer the store hears of the others only.
RaiseSave ==
  /\ send \in {"sync", "copy"}
  /\ send' = "idle" /\ save' = NoTask
  /\ brokenSaves' = brokenSaves \cup {save.layer}
  /\ \/ results' = results
     \/ /\ send = "copy" /\ kind = "gva" /\ save.layer = FinalLayer
        /\ results' = results \ save.batch.saves
  /\ UNCHANGED <<runnerVars, recvVars, saveQueue, stored, saved, finishes, lost, saveEvent, raised>>

\* Mutant: the layers still on their way are not counted.
FinishedNowUncounted ==
  {r \in save.batch.saves : kind = "key" => save.layer = FinalLayer /\ r \in save.batch.last}

\* try_finish_and_delete_stored_request: which requests are finished now.
FinishedNow ==
  {r \in save.batch.saves :
     /\ stored[r] = 0
     /\ kind = "key" => save.layer = FinalLayer /\ r \in save.batch.last}

FinishSave ==
  /\ send = "finish"
  /\ saved' = saved \cup FinishedNow
  /\ stored' = [r \in Request |-> IF r \in FinishedNow THEN Absent ELSE stored[r]]
  /\ send' = "signal"
  /\ UNCHANGED <<runnerVars, recvVars, saveQueue, save, results, finishes, lost, saveEvent,
                 raised, brokenSaves>>

\* The event must not be set yet; a failing assertion ends the handler, and
\* run() goes on with the next task.
SignalSave ==
  /\ send = "signal"
  /\ raised' = (raised \/ save.layer \in saveEvent)
  /\ saveEvent' = saveEvent \cup {save.layer}
  /\ send' = "idle" /\ save' = NoTask
  /\ UNCHANGED <<runnerVars, recvVars, saveQueue, stored, saved, results, finishes, lost,
                 brokenSaves>>

\* The handler, and run() around it.
Sender ==
  \/ TakeSave \/ SyncSave \/ (\E failed \in BOOLEAN : CopySave(failed)) \/ FinishSave \/ SignalSave
  \/ UnpreparedSave \/ RaiseSave

-----------------------------------------------------------------------------
(* The receiving thread *)

\* Mutant: an empty task list returns in the same early branch.
ReturnsEarlyWhenEmpty(b) == kind = "gva" /\ b.loads = {}

\* GVA tasks without block ranges: the handler returns before it waits.
ReturnsEarly(b) == kind = "gva" /\ Bare(b)

TakeLoad ==
  /\ recv = "idle" /\ loadQueue # << >>
  /\ load' = Head(loadQueue) /\ loadQueue' = Tail(loadQueue)
  /\ recv' = IF ReturnsEarly(Head(loadQueue).batch) THEN "signal" ELSE "save"
  /\ UNCHANGED <<runnerVars, loadEvent, loaded, leases, brokenLoads, sendVars, saveEvent, raised>>

\* GVA path: the addresses are prepared before the handler waits for the save,
\* whose event stays set when that raises.
UnpreparedLoad ==
  /\ recv = "idle" /\ loadQueue # << >>
  /\ kind = "gva" /\ Head(loadQueue).batch.loads # {}
  /\ loadQueue' = Tail(loadQueue)
  /\ brokenLoads' = brokenLoads \cup {Head(loadQueue).layer}
  /\ UNCHANGED <<runnerVars, recv, load, loadEvent, loaded, leases, sendVars, saveEvent, raised>>

\* Mutant: the wait has a timeout.
AwaitSaveTimesOut ==
  /\ recv = "save"
  /\ saveEvent' = saveEvent \ {load.wait}
  /\ recv' = IF kind = "gva" /\ ~load.batch.loadTasks THEN "signal" ELSE "gate"
  /\ UNCHANGED <<runnerVars, loadQueue, load, loadEvent, loaded, leases, brokenLoads, sendVars,
                 raised>>

\* Wait for the save the task names, and clear its event.
AwaitSave ==
  /\ recv = "save"
  /\ load.wait # NoLayer => load.wait \in saveEvent
  /\ saveEvent' = saveEvent \ {load.wait}
  /\ recv' = IF kind = "gva" /\ ~load.batch.loadTasks THEN "signal" ELSE "gate"
  /\ UNCHANGED <<runnerVars, loadQueue, load, loadEvent, loaded, leases, brokenLoads, sendVars,
                 raised>>

\* attention_start_gate: none for the loads a step begins with.
AwaitGate ==
  /\ recv = "gate"
  /\ load.layer >= Ahead => load.layer - 1 \in gates
  /\ recv' = IF load.batch.loads = {} THEN "finish" ELSE "copy"
  /\ UNCHANGED <<runnerVars, loadQueue, load, loadEvent, loaded, leases, brokenLoads, sendVars,
                 saveEvent, raised>>

\* get or batch_copy; what it returns is at most logged.
CopyLoad ==
  /\ recv = "copy"
  /\ recv' = "finish"
  /\ UNCHANGED <<runnerVars, loadQueue, load, loadEvent, loaded, leases, brokenLoads, sendVars,
                 saveEvent, raised>>

\* Mutant: the leases end with every layer.
FinishLoadEachLayer ==
  LET final == load.layer = FinalLayer IN
  /\ recv = "finish"
  /\ leases' = leases \ load.batch.loads
  /\ loaded' = IF final THEN loaded \cup (load.batch.loads \cap load.batch.last) ELSE loaded
  /\ recv' = "signal"
  /\ UNCHANGED <<runnerVars, loadQueue, load, loadEvent, brokenLoads, sendVars, saveEvent, raised>>

\* The preparation of the keys, get, batch_copy or, with the final layer,
\* batch_remove_lease raises.
RaiseLoad ==
  /\ \/ recv = "copy" /\ leases' = leases
     \/ /\ recv = "finish" /\ kind = "gva" /\ load.layer = FinalLayer
        /\ leases' \in {leases, leases \ load.batch.loads}
  /\ recv' = "idle" /\ load' = NoTask
  /\ brokenLoads' = brokenLoads \cup {load.layer}
  /\ UNCHANGED <<runnerVars, loadQueue, loadEvent, loaded, sendVars, saveEvent, raised>>

\* With the final layer the leases end and the last chunks are finished.
FinishLoad ==
  LET final == load.layer = FinalLayer IN
  /\ recv = "finish"
  /\ leases' = IF final THEN leases \ load.batch.loads ELSE leases
  /\ loaded' = IF final THEN loaded \cup (load.batch.loads \cap load.batch.last) ELSE loaded
  /\ recv' = "signal"
  /\ UNCHANGED <<runnerVars, loadQueue, load, loadEvent, brokenLoads, sendVars, saveEvent, raised>>

SignalLoad ==
  /\ recv = "signal"
  /\ raised' = (raised \/ load.layer \in loadEvent)
  /\ loadEvent' = loadEvent \cup {load.layer}
  /\ recv' = "idle" /\ load' = NoTask
  /\ UNCHANGED <<runnerVars, loadQueue, loaded, leases, brokenLoads, sendVars, saveEvent>>

Receiver ==
  \/ TakeLoad \/ AwaitSave \/ AwaitGate \/ CopyLoad \/ FinishLoad \/ SignalLoad
  \/ UnpreparedLoad \/ RaiseLoad

-----------------------------------------------------------------------------
Init ==
  /\ kind \in {"key", "gva"}
  /\ step = 0 /\ batch = NoBatch
  /\ runner = "idle" /\ layer = 0 /\ computed = 0 /\ gates = {}
  /\ loadQueue = << >> /\ recv = "idle" /\ load = NoTask
  /\ loadEvent = {} /\ loaded = {} /\ leases = {}
  /\ saveQueue = << >> /\ send = "idle" /\ save = NoTask
  /\ stored = [r \in Request |-> Absent]
  /\ saved = {} /\ results = {} /\ finishes = {} /\ lost = {}
  /\ saveEvent = {} /\ raised = FALSE
  /\ brokenLoads = {} /\ brokenSaves = {}

Runner == LayerLoaded \/ LayerIssued \/ LayerComputed \/ EndStep

Next ==
  \/ \E b \in Batches : BeginStep(b)
  \/ Runner \/ Sender \/ Receiver

Spec == Init /\ [][Next]_vars

\* The runner and the device keep going, and so do the two daemon threads.
FairSpec == Spec /\ WF_vars(LayerLoaded) /\ WF_vars(LayerIssued) /\ WF_vars(LayerComputed)
                 /\ WF_vars(EndStep) /\ WF_vars(Sender) /\ WF_vars(Receiver)
-----------------------------------------------------------------------------
(* Properties *)

\* Every variable has its type; the counts stay within what was added.
TypeOK ==
  /\ kind \in {"key", "gva"} /\ step \in 0..MaxSteps /\ batch \in Batches
  /\ runner \in {"idle", "load", "attend", "drain"}
  /\ layer \in 0..NumLayers /\ computed \in 0..NumLayers
  /\ gates \subseteq Layers /\ loadEvent \subseteq Layers /\ saveEvent \subseteq Layers
  /\ loadQueue \in Seq(Task) /\ saveQueue \in Seq(Task)
  /\ recv \in {"idle", "save", "gate", "copy", "finish", "signal"}
  /\ send \in {"idle", "sync", "copy", "finish", "signal"}
  /\ load \in Task \cup {NoTask} /\ save \in Task \cup {NoTask}
  /\ stored \in [Request -> {Absent} \cup 0..(NumLayers * MaxSteps)]
  /\ saved \subseteq Request /\ loaded \subseteq Request /\ leases \subseteq Request
  /\ results \subseteq Request /\ lost \subseteq Request
  /\ finishes \subseteq Request \X BOOLEAN
  /\ raised \in BOOLEAN
  /\ brokenLoads \subseteq Layers /\ brokenSaves \subseteq Layers

\* The saves that are queued or being handled.
OpenSaves == Range(saveQueue) \cup (IF send = "idle" THEN {} ELSE {save})
OpenLoads == Range(loadQueue) \cup (IF recv = "idle" THEN {} ELSE {load})

\* A load that names a save moves data only when that save, of the same step,
\* has been handled to the end: an event left over from an earlier step must
\* never let it through.
LoadWaitsForSave ==
  recv = "copy" /\ load.wait # NoLayer =>
    \A s \in OpenSaves : ~(s.layer = load.wait /\ s.step = load.step)

\* A layer is read for its save only after the device has computed it.
SaveAfterCompute == send = "copy" => save.step = step /\ save.layer < computed

\* Every event is consumed before it is set again: no handler meets its
\* assertion that the event is not set (1148, 1252, 1395, 1410, 1514, 1532, 1597).
AssertionsHold == ~raised

\* A request is reported finished only when none of its layers is still on
\* its way, in either direction.
FinishedMeansMoved ==
  /\ \A r \in saved : \A s \in OpenSaves : r \in s.batch.saves => s = save /\ send = "signal"
  /\ \A r \in loaded : \A l \in OpenLoads : r \in l.batch.loads => l = load /\ recv = "signal"

\* batch_write_finish tells the store of a success exactly when no copy of the
\* step returned a failure, and of every request the step saved.  This is about
\* return codes: a copy that raises leaves none (see RaiseSave), and a later
\* final layer may report a success without it.
FinishTruthful ==
  /\ \A f \in finishes : f[2] = (f[1] \notin lost)
  /\ runner = "idle" /\ kind = "gva" => {f[1] : f \in finishes} = batch.saves

\* What is being loaded is leased, and no lease outlives its step.
LeasesCoverLoads ==
  /\ recv = "copy" /\ kind = "gva" => load.batch.loads \subseteq leases
  /\ runner = "idle" => leases = {}

\* The block lists of a GVA task are views of the builder's buffers
\* (_ensure_buf, 89-95), which the next call of build_shared fills anew.  As
\* far as that call belongs to a later step: no task with lists outlives the
\* step it was made in.  (Calls within one step are the runner's affair.)
SharedDataFresh ==
  /\ \A s \in OpenSaves : s.batch.saves # {} => s.step = step
  /\ \A l \in OpenLoads : l.batch.loads # {} => l.step = step

\* Every step the runner begins comes to its end, unless a handler raised in
\* it: run() sets no event for such a handler, and the runner waits for ever.
StepsEnd ==
  (runner # "idle") ~> (runner = "idle" \/ brokenLoads \cup brokenSaves # {})
=============================================================================
