------------------------- MODULE LayerTransferProofs -------------------------
(***************************************************************************)
(* Proofs about LayerTransfer, for every number of requests, layers and    *)
(* steps and every distance the loads run ahead.  The queues are first in, *)
(* first out, so that three numbers say where a step is: how many of its   *)
(* loads and of its saves have been handled, and how many loads have       *)
(* passed the save they name.  The inductive invariant LayerInv writes the *)
(* rest of the state down as a function of these: what each queue holds,   *)
(* which events may be set, what each count, lease and code is.  A handler *)
(* that raised counts as done; its layer is in a broken set, the runner    *)
(* never gets past it, and what depends on that handler is left open.      *)
(***************************************************************************)
EXTENDS LayerTransfer, TLAPS

Busy(place) == IF place = "idle" THEN 0 ELSE 1

\* Of the loads of the step: those submitted, taken by the thread, and done.
LoadsSent  == IF layer + Ahead <= NumLayers THEN layer + Ahead ELSE NumLayers
LoadsTaken == LoadsSent - Len(loadQueue)
LoadsDone  == LoadsTaken - Busy(recv)

\* Loads the runner has consumed, and loads that are past the save they name.
Consumed == IF runner = "load" THEN layer ELSE IF runner = "attend" THEN layer + 1 ELSE NumLayers
Passed   == IF recv \in {"idle", "save"} THEN LoadsDone ELSE LoadsTaken

\* Saves of the step taken, and done; in front of them may be stale ones.
SavesTaken == IF Len(saveQueue) <= layer THEN layer - Len(saveQueue) ELSE 0
SavesDone  == SavesTaken - Busy(send)

\* An empty task list, which the thread will drop.
Stale(task) == ~task.batch.saveTasks /\ task.batch.saves = {}

\* The runner's place bounds the layer and the device.
Progress ==
  /\ runner \in {"load", "attend"} => layer < NumLayers
  /\ runner = "drain" => layer = NumLayers
  /\ runner # "idle" => step >= 1
  /\ computed <= layer
  /\ batch.loads # {} => batch.loadTasks
  /\ batch.saves # {} => batch.saveTasks

\* Between two steps both threads are idle, nothing is set, and only empty
\* task lists may wait.
AtRest ==
  runner = "idle" =>
    /\ loadQueue = << >> /\ recv = "idle" /\ send = "idle"
    /\ loadEvent = {} /\ saveEvent = {}
    /\ saved = {} /\ loaded = {} /\ leases = {} /\ results = {}
    /\ brokenLoads = {} /\ brokenSaves = {}
    /\ \A r \in Request : stored[r] \in {Absent, 0}
    /\ \A i \in 1..Len(saveQueue) : Stale(saveQueue[i]) /\ saveQueue[i].step <= step
    /\ kind = "gva" => {f[1] : f \in finishes} = batch.saves

\* The loads are handled in the order of their layers; the events set are
\* those of the loads done that the runner has not consumed, but for the
\* broken ones, which the runner never gets past.
LoadOrder ==
  runner # "idle" =>
    /\ \A i \in 1..Len(loadQueue) : loadQueue[i] = TaskFor(LoadsTaken + i - 1, batch, step)
    /\ recv # "idle" => load = TaskFor(LoadsDone, batch, step)
    /\ recv = "copy" => batch.loads # {}
    /\ Consumed <= LoadsDone
    /\ gates = 0..Consumed - 1
    /\ loadEvent = (Consumed..LoadsDone - 1) \ brokenLoads
    /\ brokenLoads \subseteq Consumed..LoadsDone - 1

\* So are the saves, behind stale ones of earlier steps.
SaveOrder ==
  runner # "idle" =>
    /\ \A i \in 1..Len(saveQueue) :
         LET l == layer - 1 - (Len(saveQueue) - i) IN
           IF l >= 0 THEN saveQueue[i] = TaskFor(l, batch, step)
           ELSE Stale(saveQueue[i]) /\ saveQueue[i].step < step
    /\ send # "idle" => /\ batch.saveTasks
                        /\ Len(saveQueue) < layer
                        /\ save = TaskFor(SavesDone, batch, step)
    /\ send \in {"sync", "copy", "finish"} => batch.saves # {}
    /\ send = "copy" => save.layer < computed

\* A save event set is that of a save done, not broken, that no load has passed;
\* no load is past a save that is not done, unless it broke before the wait; and
\* no load but a broken one is past a broken save.
EventOrder ==
  runner # "idle" =>
    IF batch.saveTasks
    THEN /\ \A s \in saveEvent :
              /\ s \in 0..SavesDone - 1 /\ s \notin brokenSaves
              /\ Bare(batch) \/ s + Ahead >= Passed \/ s + Ahead \in brokenLoads
         /\ ~Bare(batch) =>
              \A l \in Ahead..Passed - 1 : l \in brokenLoads \/ l - Ahead < SavesDone
         /\ \A s \in brokenSaves :
              /\ s \in 0..SavesDone - 1
              /\ Bare(batch) \/ s + Ahead >= Passed \/ s + Ahead \in brokenLoads
    ELSE saveEvent = {} /\ brokenSaves = {}

\* Leases are held, and nothing is reported, until the last load has ended.
LoadResults ==
  runner # "idle" =>
    LET ended == LoadsTaken = NumLayers /\ recv \in {"signal", "idle"} IN
    /\ FinalLayer \notin brokenLoads =>
         leases = IF kind = "gva" /\ ~ended THEN batch.loads ELSE {}
    /\ loaded # {} => ended
    /\ loaded \subseteq batch.loads

\* A count is the number of layers whose save has not been taken, or more if
\* a handler raised before it took off its own.
Counts ==
  runner # "idle" =>
    LET ended == SavesTaken = NumLayers /\ send \in {"signal", "idle"} IN
    /\ \A r \in Request :
         IF r \in batch.saves
         THEN \/ /\ stored[r] \in NumLayers - SavesTaken..NumLayers
                 /\ brokenSaves = {} => stored[r] = NumLayers - SavesTaken
              \/ ended /\ stored[r] = Absent
         ELSE stored[r] \in {Absent, 0}
    /\ saved # {} => ended
    /\ saved \subseteq batch.saves

\* write_results holds what was lost until batch_write_finish reports it.  If
\* the final save broke, nothing is reported.
Codes ==
  runner # "idle" =>
    LET ended == SavesTaken = NumLayers /\ send \notin {"sync", "copy"} IN
    /\ lost \subseteq batch.saves
    /\ FinalLayer \notin brokenSaves =>
         results = IF kind = "gva" /\ ~ended THEN lost ELSE {}
    /\ finishes = IF kind = "gva" /\ ended /\ FinalLayer \notin brokenSaves
                  THEN {<<r, r \notin lost>> : r \in batch.saves} ELSE {}

LayerInv ==
  /\ TypeOK /\ Progress /\ AtRest
  /\ LoadOrder /\ SaveOrder /\ EventOrder
  /\ LoadResults /\ Counts /\ Codes
  /\ ~raised
  /\ \A f \in finishes : f[2] = (f[1] \notin lost)

-----------------------------------------------------------------------------
(* Helpers *)

\* The constants are numbers.
LEMMA Numbers ==
  /\ NumLayers \in Nat /\ Ahead \in Nat /\ MaxSteps \in Nat
  /\ 2 <= Ahead /\ Ahead <= NumLayers
BY LayerAssumption

\* The counts of one step fit in those of all steps.
LEMMA Product ==
  /\ NumLayers * MaxSteps \in Nat
  /\ MaxSteps >= 1 => NumLayers <= NumLayers * MaxSteps
BY Numbers

\* What TaskFor builds.
LEMMA TaskForFields ==
  ASSUME NEW l \in Int, NEW b, NEW n
  PROVE  /\ TaskFor(l, b, n).layer = l
         /\ TaskFor(l, b, n).step = n
         /\ TaskFor(l, b, n).batch = b
         /\ TaskFor(l, b, n).wait = IF b.saveTasks /\ l >= Ahead /\ ~Bare(b) THEN l - Ahead
                                    ELSE NoLayer
BY DEF TaskFor

\* It is a task for a layer, a batch and a step.
LEMMA TaskForType ==
  ASSUME NEW l \in Layers, NEW b \in Batches, NEW n \in 1..MaxSteps
  PROVE  TaskFor(l, b, n) \in Task
<1>1. l \in Int BY Numbers DEF Layers
<1>2. (IF b.saveTasks /\ l >= Ahead /\ ~Bare(b) THEN l - Ahead ELSE NoLayer)
        \in Layers \cup {NoLayer}
  BY <1>1, Numbers DEF Layers
<1>. QED BY <1>1, <1>2 DEF TaskFor, Task

\* The queue without its head.
LEMMA TailFacts ==
  ASSUME NEW S, NEW q \in Seq(S), q # << >>
  PROVE  /\ Head(q) = q[1] /\ Head(q) \in S
         /\ Tail(q) \in Seq(S) /\ Len(Tail(q)) = Len(q) - 1 /\ Len(q) >= 1
         /\ \A i \in 1..Len(Tail(q)) : Tail(q)[i] = q[i + 1]
OBVIOUS

\* The queue with one more.
LEMMA AppendFacts ==
  ASSUME NEW S, NEW q \in Seq(S), NEW x \in S
  PROVE  /\ Append(q, x) \in Seq(S) /\ Len(Append(q, x)) = Len(q) + 1
         /\ \A i \in 1..Len(q) : Append(q, x)[i] = q[i]
         /\ Append(q, x)[Len(q) + 1] = x
OBVIOUS

\* What EventOrder depends on.
LEMMA EventOrderStays ==
  ASSUME EventOrder, runner' # "idle" => runner # "idle",
         UNCHANGED <<batch, saveEvent, brokenLoads, brokenSaves, SavesDone, Passed>>
  PROVE  EventOrder'
BY DEF EventOrder, Bare

\* A step begins: nothing is set, nothing is on its way but stale saves.
LEMMA BeginStepKeeps ==
  ASSUME NEW b \in Batches, LayerInv, BeginStep(b)
  PROVE  LayerInv'
<1>. USE Numbers DEF LayerInv
<1>t. TypeOK OBVIOUS
<1>n. step \in Nat /\ step + 1 \in 1..MaxSteps /\ Len(saveQueue) \in Nat
  BY <1>t DEF TypeOK, BeginStep
<1>0. /\ runner = "idle" /\ runner' = "load" /\ layer' = 0 /\ computed' = 0 /\ gates' = {}
      /\ step' = step + 1 /\ batch' = b /\ finishes' = {} /\ lost' = {}
      /\ leases' = IF kind = "gva" THEN b.loads ELSE {}
      /\ UNCHANGED <<kind, recv, load, loadEvent, loaded, saveQueue, send, save,
                     saved, results, saveEvent, raised, brokenLoads, brokenSaves>>
  BY DEF BeginStep
<1>a. /\ loadQueue = << >> /\ recv = "idle" /\ send = "idle"
      /\ loadEvent = {} /\ saveEvent = {}
      /\ saved = {} /\ loaded = {} /\ leases = {} /\ results = {}
      /\ brokenLoads = {} /\ brokenSaves = {}
      /\ \A r \in Request : stored[r] \in {Absent, 0}
      /\ \A i \in 1..Len(saveQueue) : Stale(saveQueue[i]) /\ saveQueue[i].step <= step
  BY <1>0 DEF AtRest
<1>q. /\ loadQueue' \in Seq(Task) /\ Len(loadQueue') = Ahead
      /\ \A i \in 1..Ahead : loadQueue'[i] = TaskFor(i - 1, b, step + 1)
  <2>. DEFINE new == [i \in 1..Ahead |-> TaskFor(i - 1, b, step + 1)]
  <2>1. \A i \in 1..Ahead : TaskFor(i - 1, b, step + 1) \in Task
    <3>. SUFFICES ASSUME NEW i \in 1..Ahead PROVE TaskFor(i - 1, b, step + 1) \in Task
      OBVIOUS
    <3>1. i - 1 \in Layers
      BY DEF Layers
    <3>. QED BY <3>1, <1>n, TaskForType
  <2>2. new \in Seq(Task) /\ Len(new) = Ahead
    BY <2>1
  <2>3. loadQueue' = << >> \o new
    BY <1>a DEF BeginStep
  <2>4. loadQueue' = new
    BY <2>2, <2>3
  <2>. QED BY <2>2, <2>4
<1>c. LoadsTaken' = 0 /\ LoadsDone' = 0 /\ SavesTaken' = 0 /\ SavesDone' = 0
      /\ Consumed' = 0 /\ Passed' = 0
  BY <1>0, <1>a, <1>q, <1>n DEF LoadsTaken, LoadsDone, LoadsSent, SavesTaken, SavesDone, Busy,
     Consumed, Passed
<1>s. \A r \in Request : stored'[r] = IF r \in b.saves THEN NumLayers ELSE stored[r]
  BY <1>a DEF BeginStep, Absent
<1>1. TypeOK'
  <2>1. stored' \in [Request -> {Absent} \cup 0..(NumLayers * MaxSteps)]
    <3>. DEFINE most == NumLayers * MaxSteps
    <3>1. MaxSteps >= 1
      BY <1>n
    <3>2. most \in Nat /\ NumLayers <= most
      BY <3>1, Product
    <3>. HIDE DEF most
    <3>3. \A r \in Request : stored'[r] \in {Absent} \cup 0..most
      BY <1>s, <1>a, <3>2 DEF Absent
    <3>4. stored' = [r \in Request |-> stored'[r]]
      BY DEF BeginStep
    <3>5. stored' \in [Request -> {Absent} \cup 0..most]
      BY <3>3, <3>4
    <3>. QED BY <3>5 DEF most
  <2>2. leases' \subseteq Request
    BY <1>0 DEF Batches
  <2>. QED BY <2>1, <2>2, <1>t, <1>0, <1>q, <1>n DEF TypeOK, Layers
<1>2. Progress'
  BY <1>0, <1>n DEF Progress, BeginStep
<1>3. AtRest'
  BY <1>0 DEF AtRest
<1>4. LoadOrder'
  BY <1>0, <1>a, <1>q, <1>c DEF LoadOrder
<1>5. SaveOrder'
  <2>1. ASSUME NEW i \in 1..Len(saveQueue)
        PROVE  /\ ~(layer' - 1 - (Len(saveQueue) - i) >= 0)
               /\ Stale(saveQueue[i]) /\ saveQueue[i].step < step + 1
    <3>1. saveQueue[i].step \in Int
      <4>1. saveQueue[i] \in Task
        BY <1>t DEF TypeOK
      <4>. QED BY <4>1 DEF Task
    <3>. QED BY <3>1, <1>0, <1>a, <1>n
  <2>. QED BY <2>1, <1>0, <1>a DEF SaveOrder
<1>6. EventOrder'
  BY <1>0, <1>a, <1>c DEF EventOrder
<1>7. LoadResults'
  BY <1>0, <1>a, <1>c DEF LoadResults
<1>8. Counts'
  BY <1>0, <1>a, <1>c, <1>s DEF Counts
<1>9. Codes'
  BY <1>0, <1>a, <1>c DEF Codes
<1>. QED
  BY <1>0, <1>1, <1>2, <1>3, <1>4, <1>5, <1>6, <1>7, <1>8, <1>9

\* The runner takes the event of its layer.
LEMMA LayerLoadedKeeps ==
  LayerInv /\ LayerLoaded => LayerInv'
<1>. SUFFICES ASSUME LayerInv, LayerLoaded PROVE LayerInv'
  OBVIOUS
<1>. USE Numbers DEF LayerInv
<1>t. TypeOK OBVIOUS
<1>n. layer \in Nat /\ layer <= NumLayers /\ step \in Nat /\ LoadsDone \in Int
  BY <1>t DEF TypeOK, LoadsDone, LoadsTaken, LoadsSent, Busy
<1>0. /\ runner = "load" /\ runner' = "attend" /\ layer \in loadEvent
      /\ loadEvent' = loadEvent \ {layer} /\ gates' = gates \cup {layer}
      /\ UNCHANGED <<kind, step, batch, layer, computed, loadQueue, recv, load, loaded,
                     leases, brokenLoads, sendVars, saveEvent, raised>>
  BY DEF LayerLoaded
<1>c. UNCHANGED <<LoadsTaken, LoadsDone, SavesTaken, SavesDone, Passed>>
  BY <1>0 DEF LoadsTaken, LoadsDone, LoadsSent, SavesTaken, SavesDone, Passed, Busy, sendVars
<1>1. TypeOK'
  BY <1>t, <1>0 DEF TypeOK, sendVars
<1>2. Progress'
  BY <1>0 DEF Progress
<1>3. AtRest'
  BY <1>0 DEF AtRest
<1>4. LoadOrder'
  <2>1. /\ Consumed = layer /\ Consumed' = layer + 1 /\ gates = 0..layer - 1
        /\ loadEvent = (layer..LoadsDone - 1) \ brokenLoads
        /\ brokenLoads \subseteq layer..LoadsDone - 1
    BY <1>0 DEF LoadOrder, Consumed
  <2>2. /\ gates' = 0..layer /\ layer + 1 <= LoadsDone
        /\ loadEvent' = (layer + 1..LoadsDone - 1) \ brokenLoads
        /\ brokenLoads \subseteq layer + 1..LoadsDone - 1
    BY <2>1, <1>0, <1>n
  <2>. QED BY <2>1, <2>2, <1>0, <1>c, <1>n DEF LoadOrder
<1>5. SaveOrder'
  BY <1>0, <1>c DEF SaveOrder, sendVars
<1>6. EventOrder'
  BY <1>0, <1>c, EventOrderStays DEF runnerVars, recvVars, sendVars
<1>7. LoadResults'
  BY <1>0, <1>c DEF LoadResults
<1>8. Counts'
  BY <1>0, <1>c DEF Counts, sendVars
<1>9. Codes'
  BY <1>0, <1>c DEF Codes, sendVars
<1>. QED
  BY <1>0, <1>1, <1>2, <1>3, <1>4, <1>5, <1>6, <1>7, <1>8, <1>9 DEF sendVars

\* A layer is issued: its save and the load that waits for it are the next
\* of each queue.
LEMMA LayerIssuedKeeps ==
  LayerInv /\ LayerIssued => LayerInv'
<1>. SUFFICES ASSUME LayerInv, LayerIssued PROVE LayerInv'
  OBVIOUS
<1>. USE Numbers DEF LayerInv
<1>t. TypeOK OBVIOUS
<1>0. /\ runner = "attend" /\ layer' = layer + 1
      /\ runner' = IF layer = FinalLayer THEN "drain" ELSE "load"
      /\ saveQueue' = Append(saveQueue, TaskFor(layer, batch, step))
      /\ loadQueue' = IF layer + Ahead \in Layers
                      THEN Append(loadQueue, TaskFor(layer + Ahead, batch, step)) ELSE loadQueue
      /\ UNCHANGED <<kind, step, batch, computed, gates, recv, load, loadEvent, loaded,
                     leases, send, save, stored, saved, results, finishes, lost,
                     saveEvent, raised, brokenLoads, brokenSaves>>
  BY DEF LayerIssued
<1>n. /\ layer \in Nat /\ layer < NumLayers /\ step \in 1..MaxSteps /\ batch \in Batches
      /\ Len(saveQueue) \in Nat /\ Len(loadQueue) \in Nat
  BY <1>t, <1>0 DEF TypeOK, Progress
<1>q. /\ saveQueue' \in Seq(Task) /\ Len(saveQueue') = Len(saveQueue) + 1
      /\ \A i \in 1..Len(saveQueue) : saveQueue'[i] = saveQueue[i]
      /\ saveQueue'[Len(saveQueue) + 1] = TaskFor(layer, batch, step)
  <2>1. TaskFor(layer, batch, step) \in Task
    BY <1>n, TaskForType DEF Layers
  <2>. QED BY <2>1, <1>0, <1>t, AppendFacts DEF TypeOK
<1>l. /\ loadQueue' \in Seq(Task) /\ LoadsTaken' = LoadsTaken
      /\ \A i \in 1..Len(loadQueue') :
           loadQueue'[i] = IF i <= Len(loadQueue) THEN loadQueue[i]
                           ELSE TaskFor(LoadsTaken + i - 1, batch, step)
  <2>1. CASE layer + Ahead < NumLayers
    <3>1. layer + Ahead \in Layers
      BY <2>1, <1>n DEF Layers
    <3>2. TaskFor(layer + Ahead, batch, step) \in Task
      BY <3>1, <1>n, TaskForType
    <3>3. /\ loadQueue' \in Seq(Task) /\ Len(loadQueue') = Len(loadQueue) + 1
          /\ \A i \in 1..Len(loadQueue) : loadQueue'[i] = loadQueue[i]
          /\ loadQueue'[Len(loadQueue) + 1] = TaskFor(layer + Ahead, batch, step)
      BY <3>1, <3>2, <1>0, <1>t, AppendFacts DEF TypeOK
    <3>4. LoadsTaken = layer + Ahead - Len(loadQueue) /\ LoadsTaken' = LoadsTaken
      BY <2>1, <3>3, <1>n, <1>0 DEF LoadsTaken, LoadsSent
    <3>5. ASSUME NEW i \in 1..Len(loadQueue')
          PROVE  loadQueue'[i] = IF i <= Len(loadQueue) THEN loadQueue[i]
                                 ELSE TaskFor(LoadsTaken + i - 1, batch, step)
      <4>1. CASE i <= Len(loadQueue)
        BY <4>1, <3>3, <1>n
      <4>2. CASE ~(i <= Len(loadQueue))
        <5>1. i = Len(loadQueue) + 1 /\ LoadsTaken + i - 1 = layer + Ahead
          BY <4>2, <3>3, <3>4, <1>n
        <5>. QED BY <5>1, <4>2, <3>3
      <4>. QED BY <4>1, <4>2
    <3>6. loadQueue' \in Seq(Task) /\ LoadsTaken' = LoadsTaken
      BY <3>3, <3>4
    <3>. QED BY <3>5, <3>6
  <2>2. CASE layer + Ahead >= NumLayers
    <3>1. loadQueue' = loadQueue
      BY <2>2, <1>n, <1>0 DEF Layers
    <3>2. LoadsTaken' = LoadsTaken
      BY <2>2, <3>1, <1>n, <1>0 DEF LoadsTaken, LoadsSent
    <3>. QED BY <3>1, <3>2, <1>t, <1>n DEF TypeOK
  <2>3. layer + Ahead < NumLayers \/ layer + Ahead >= NumLayers
    BY <1>n
  <2>. QED BY <2>1, <2>2, <2>3, Zenon
<1>c. UNCHANGED <<LoadsDone, SavesTaken, SavesDone, Passed, Consumed>>
  BY <1>0, <1>l, <1>q, <1>n DEF LoadsDone, SavesTaken, SavesDone, Passed, Busy, Consumed, FinalLayer
<1>1. TypeOK'
  BY <1>t, <1>0, <1>q, <1>l, <1>n DEF TypeOK
<1>2. Progress'
  BY <1>0, <1>n, <1>t DEF Progress, FinalLayer, TypeOK
<1>3. AtRest'
  BY <1>0 DEF AtRest
<1>4. LoadOrder'
  <2>1. \A i \in 1..Len(loadQueue') : loadQueue'[i] = TaskFor(LoadsTaken + i - 1, batch, step)
    BY <1>0, <1>l, <1>n DEF LoadOrder
  <2>. QED BY <2>1, <1>0, <1>l, <1>c DEF LoadOrder
<1>5. SaveOrder'
  <2>1. ASSUME NEW i \in 1..Len(saveQueue')
        PROVE  LET l == layer' - 1 - (Len(saveQueue') - i) IN
                 IF l >= 0 THEN saveQueue'[i] = TaskFor(l, batch, step)
                 ELSE Stale(saveQueue'[i]) /\ saveQueue'[i].step < step
    <3>1. CASE i = Len(saveQueue) + 1
      BY <3>1, <1>q, <1>0, <1>n
    <3>2. CASE i # Len(saveQueue) + 1
      <4>1. i \in 1..Len(saveQueue)
        BY <3>2, <1>q, <1>n
      <4>2. layer' - 1 - (Len(saveQueue') - i) = layer - 1 - (Len(saveQueue) - i)
        <5>1. Len(saveQueue') = Len(saveQueue) + 1 /\ layer' = layer + 1 /\ i \in Int
          BY <4>1, <1>q, <1>0
        <5>. QED BY <5>1, <1>n
      <4>. QED BY <4>1, <4>2, <1>q, <1>0 DEF SaveOrder
    <3>. QED BY <3>1, <3>2
  <2>. QED BY <2>1, <1>0, <1>c, <1>q, <1>n DEF SaveOrder
<1>6. EventOrder'
  BY <1>0, <1>c, EventOrderStays DEF runnerVars, recvVars, sendVars
<1>7. LoadResults'
  BY <1>0, <1>c, <1>l DEF LoadResults
<1>8. Counts'
  BY <1>0, <1>c DEF Counts
<1>9. Codes'
  BY <1>0, <1>c DEF Codes
<1>. QED
  BY <1>0, <1>1, <1>2, <1>3, <1>4, <1>5, <1>6, <1>7, <1>8, <1>9

\* The device goes on: a save that copies has its layer behind it.
LEMMA LayerComputedKeeps ==
  LayerInv /\ LayerComputed => LayerInv'
<1>. SUFFICES ASSUME LayerInv, LayerComputed PROVE LayerInv'
  OBVIOUS
<1>. USE Numbers DEF LayerInv
<1>t. TypeOK OBVIOUS
<1>0. /\ computed < layer /\ computed' = computed + 1
      /\ UNCHANGED <<kind, step, batch, runner, layer, gates, recvVars, sendVars, saveEvent, raised>>
  BY DEF LayerComputed
<1>n. layer \in Nat /\ layer <= NumLayers /\ computed \in Nat
  BY <1>t DEF TypeOK
<1>c. UNCHANGED <<LoadsTaken, LoadsDone, SavesTaken, SavesDone, Passed, Consumed>>
  BY <1>0 DEF LoadsTaken, LoadsDone, LoadsSent, SavesTaken, SavesDone, Passed, Busy, Consumed,
     sendVars, recvVars
<1>1. TypeOK'
  BY <1>t, <1>0, <1>n DEF TypeOK, sendVars, recvVars
<1>2. Progress'
  BY <1>0, <1>n DEF Progress
<1>3. AtRest'
  BY <1>0 DEF AtRest, sendVars, recvVars
<1>4. LoadOrder'
  BY <1>0, <1>c DEF LoadOrder, recvVars
<1>5. SaveOrder'
  <2>1. runner # "idle" /\ send = "copy" => save.layer < computed + 1
    <3>. SUFFICES ASSUME runner # "idle", send = "copy" PROVE save.layer < computed + 1
      OBVIOUS
    <3>1. save.layer \in Int
      <4>1. save = TaskFor(SavesDone, batch, step) /\ SavesDone \in Int
        BY <1>n, <1>t DEF SaveOrder, SavesDone, SavesTaken, Busy, TypeOK
      <4>. QED BY <4>1, TaskForFields
    <3>. QED BY <3>1, <1>n DEF SaveOrder
  <2>. QED BY <2>1, <1>0, <1>c DEF SaveOrder, sendVars
<1>6. EventOrder'
  BY <1>0, <1>c, EventOrderStays DEF runnerVars, recvVars, sendVars
<1>7. LoadResults'
  BY <1>0, <1>c DEF LoadResults, recvVars
<1>8. Counts'
  BY <1>0, <1>c DEF Counts, sendVars
<1>9. Codes'
  BY <1>0, <1>c DEF Codes, sendVars
<1>. QED
  BY <1>0, <1>1, <1>2, <1>3, <1>4, <1>5, <1>6, <1>7, <1>8, <1>9 DEF sendVars

\* A save is taken.
LEMMA TakeSaveKeeps ==
  LayerInv /\ TakeSave => LayerInv'
<1>. SUFFICES ASSUME LayerInv, TakeSave PROVE LayerInv'
  OBVIOUS
<1>. USE Numbers DEF LayerInv
<1>t. TypeOK OBVIOUS
<1>q. /\ Head(saveQueue) = saveQueue[1] /\ Head(saveQueue) \in Task
      /\ saveQueue' \in Seq(Task) /\ Len(saveQueue') = Len(saveQueue) - 1 
      /\ Len(saveQueue) \in Nat /\ Len(saveQueue) >= 1
      /\ \A i \in 1..Len(saveQueue') : saveQueue'[i] = saveQueue[i + 1]
  BY <1>t, TailFacts DEF TakeSave, TypeOK
<1>n. layer \in Nat /\ layer <= NumLayers /\ step \in Nat
  BY <1>t DEF TypeOK
<1>0. UNCHANGED <<runnerVars, recvVars, saved, results, finishes, lost, saveEvent, raised,
                    brokenSaves>>
  BY DEF TakeSave
<1>1. Progress'
  BY <1>0 DEF Progress, runnerVars
<1>2. LoadOrder'
  BY <1>0 DEF LoadOrder, LoadsTaken, LoadsDone, LoadsSent, Consumed, Busy, runnerVars, recvVars
<1>3. LoadResults'
  BY <1>0 DEF LoadResults, LoadsTaken, LoadsSent, runnerVars, recvVars
<1>4. CASE ~Head(saveQueue).batch.saveTasks
  <2>1. UNCHANGED <<send, save, stored>>
    BY <1>4 DEF TakeSave
  <2>2. TypeOK'
    BY <1>t, <1>0, <1>q, <2>1 DEF TypeOK, runnerVars, recvVars
  <2>3. AtRest'
    <3>. SUFFICES ASSUME runner = "idle" PROVE AtRest'
      BY <1>0 DEF AtRest, runnerVars
    <3>1. ASSUME NEW i \in 1..Len(saveQueue')
          PROVE  Stale(saveQueue'[i]) /\ saveQueue'[i].step <= step
      <4>1. i + 1 \in 1..Len(saveQueue)
        BY <1>q
      <4>. QED BY <4>1, <1>q DEF AtRest
    <3>. QED BY <3>1, <1>0, <2>1 DEF AtRest, runnerVars, recvVars
  <2>4. runner # "idle" =>
          \/ ~batch.saveTasks /\ batch.saves = {}
          \/ SavesTaken = 0 /\ SavesTaken' = 0
    <3>. SUFFICES ASSUME runner # "idle", batch.saveTasks \/ batch.saves # {}
                  PROVE  SavesTaken = 0 /\ SavesTaken' = 0
      OBVIOUS
    <3>1. batch.saveTasks
      BY DEF Progress
    <3>2. layer < Len(saveQueue)
      <4>. SUFFICES ASSUME layer >= Len(saveQueue) PROVE FALSE
        BY <1>n, <1>q
      <4>1. saveQueue[1] = TaskFor(layer - Len(saveQueue), batch, step)
        BY <1>n, <1>q DEF SaveOrder
      <4>. QED BY <4>1, <3>1, <1>4, <1>q DEF TaskFor
    <3>. QED BY <3>2, <1>n, <1>q, <1>0 DEF SavesTaken, runnerVars
  <2>5. SaveOrder'
    <3>. SUFFICES ASSUME runner # "idle" PROVE SaveOrder'
      BY <1>0 DEF SaveOrder, runnerVars
    <3>1. send = "idle"
      BY DEF TakeSave
    <3>2. ASSUME NEW i \in 1..Len(saveQueue')
          PROVE  LET l == layer - 1 - (Len(saveQueue') - i) IN
                   IF l >= 0 THEN saveQueue'[i] = TaskFor(l, batch, step)
                   ELSE Stale(saveQueue'[i]) /\ saveQueue'[i].step < step
      <4>1. i + 1 \in 1..Len(saveQueue) /\ Len(saveQueue') - i = Len(saveQueue) - (i + 1)
        BY <1>q
      <4>. QED BY <4>1, <1>q, <3>2 DEF SaveOrder
    <3>. QED BY <3>1, <3>2, <2>1, <1>0 DEF SaveOrder, runnerVars
  <2>6. EventOrder'
    BY <1>0, <2>1, <2>4 DEF EventOrder, SavesDone, Passed, LoadsDone, LoadsTaken, LoadsSent,
       Busy, Bare, runnerVars, recvVars
  <2>7. Counts'
    BY <1>0, <2>1, <2>4 DEF Counts, runnerVars
  <2>8. Codes'
    BY <1>0, <2>1, <2>4 DEF Codes, runnerVars
  <2>. QED BY <1>0, <1>1, <1>2, <1>3, <2>2, <2>3, <2>5, <2>6, <2>7, <2>8
<1>5. CASE Head(saveQueue).batch.saveTasks
  <2>1. runner # "idle"
    BY <1>5, <1>q DEF AtRest, Stale
  <2>2. /\ layer >= Len(saveQueue)
        /\ Head(saveQueue) = TaskFor(layer - Len(saveQueue), batch, step)
    BY <2>1, <1>5, <1>q, <1>n DEF SaveOrder, Stale
  <2>3. batch.saveTasks
    BY <2>2, <1>5 DEF TaskFor
  <2>4. SavesTaken = layer - Len(saveQueue) /\ SavesTaken' = SavesTaken + 1 
        /\ SavesTaken \in Nat /\ SavesTaken < NumLayers
    BY <2>2, <1>n, <1>q, <1>0 DEF SavesTaken, runnerVars
  <2>5. /\ send = "idle" /\ send' \in {"signal", "sync", "finish"}
        /\ send' \in {"sync", "finish"} => batch.saves # {}
        /\ send' = "signal" => batch.saves = {}
        /\ send' = "finish" => kind = "key"
        /\ save' = TaskFor(SavesTaken, batch, step)
        /\ stored' = [r \in Request |-> IF r \in batch.saves /\ stored[r] # Absent
                                        THEN stored[r] - 1 ELSE stored[r]]
    BY <1>5, <2>2, <2>4, TaskForFields, <1>n, <1>q DEF TakeSave, CopiesSave, CountOff
  <2>6. SavesDone = SavesTaken /\ SavesDone' = SavesTaken
    BY <2>4, <2>5 DEF SavesDone, Busy
  <2>7. Counts'
    <3>. DEFINE taken == SavesTaken
    <3>1. taken \in Nat /\ taken < NumLayers /\ SavesTaken = taken /\ SavesTaken' = taken + 1
      BY <2>4
    <3>. HIDE DEF taken
    <3>2. saved = {} /\ saved' = {}
      BY <1>0, <2>1, <3>1 DEF Counts
    <3>3. ASSUME NEW r \in Request
          PROVE  IF r \in batch.saves
                 THEN /\ stored'[r] \in NumLayers - (taken + 1)..NumLayers
                      /\ brokenSaves = {} => stored'[r] = NumLayers - (taken + 1)
                 ELSE stored'[r] \in {Absent, 0}
      <4>1. IF r \in batch.saves
            THEN /\ stored[r] \in NumLayers - taken..NumLayers
                 /\ brokenSaves = {} => stored[r] = NumLayers - taken
            ELSE stored[r] \in {Absent, 0}
        BY <2>1, <3>1 DEF Counts
      <4>. QED BY <4>1, <2>5, <3>1 DEF Absent
    <3>. QED BY <3>1, <3>2, <3>3, <1>0 DEF Counts, runnerVars
  <2>8. TypeOK'
    <3>. DEFINE most == NumLayers * MaxSteps
    <3>0. most \in Nat /\ stored \in [Request -> {Absent} \cup 0..most]
      BY <1>t DEF TypeOK
    <3>. HIDE DEF most
    <3>1. ASSUME NEW r \in Request, r \in batch.saves, stored[r] # Absent
          PROVE  stored[r] - 1 \in 0..most
      <4>1. stored[r] \in NumLayers - SavesTaken..NumLayers
        BY <3>1, <2>1, <2>4 DEF Counts
      <4>2. stored[r] \in 0..most /\ stored[r] >= 1
        BY <4>1, <3>0, <3>1, <2>4 DEF Absent
      <4>. QED BY <4>2, <3>0
    <3>3. stored' \in [Request -> {Absent} \cup 0..most]
      BY <3>0, <3>1, <2>5
    <3>2. save' \in Task
      BY <2>2, <2>4, <2>5, <1>q
    <3>. QED BY <1>t, <1>0, <1>q, <2>5, <3>3, <3>2 DEF TypeOK, most, runnerVars, recvVars
  <2>9. AtRest'
    BY <2>1, <1>0 DEF AtRest, runnerVars
  <2>10. SaveOrder'
    <3>2. ASSUME NEW i \in 1..Len(saveQueue')
          PROVE  LET l == layer - 1 - (Len(saveQueue') - i) IN
                   IF l >= 0 THEN saveQueue'[i] = TaskFor(l, batch, step)
                   ELSE Stale(saveQueue'[i]) /\ saveQueue'[i].step < step
      <4>1. i + 1 \in 1..Len(saveQueue) /\ Len(saveQueue') - i = Len(saveQueue) - (i + 1)
        BY <1>q
      <4>. QED BY <4>1, <1>q, <3>2, <2>1 DEF SaveOrder
    <3>. QED BY <3>2, <2>2, <2>3, <2>5, <2>6, <1>q, <1>0, <1>n DEF SaveOrder, runnerVars
  <2>11. EventOrder'
    BY <1>0, <2>6, <2>1 DEF EventOrder, Passed, LoadsDone, LoadsTaken, LoadsSent,
       Busy, Bare, runnerVars, recvVars
  <2>12. Codes'
    BY <1>0, <2>1, <2>3, <2>4, <2>5 DEF Codes, runnerVars
  <2>. QED BY <1>0, <1>1, <1>2, <1>3, <2>7, <2>8, <2>9, <2>10, <2>11, <2>12
<1>. QED
  BY <1>4, <1>5

\* The layer after those saved breaks: no load is past it but a broken one.
LEMMA SaveBreaks ==
  ASSUME LayerInv, runner # "idle", runner' = runner, batch.saveTasks, SavesDone \in Nat,
         SavesDone' = SavesDone + 1, brokenSaves' = brokenSaves \cup {SavesDone},
         UNCHANGED <<batch, saveEvent, brokenLoads, Passed>>
  PROVE  EventOrder'
<1>. USE Numbers DEF LayerInv
<1>p. Passed \in Int
  BY DEF Passed, LoadsDone, LoadsTaken, LoadsSent, Busy, TypeOK
<1>e. /\ \A s \in saveEvent \cup brokenSaves :
           s \in 0..SavesDone - 1 /\ (Bare(batch) \/ s + Ahead >= Passed \/ s + Ahead \in brokenLoads)
      /\ \A s \in saveEvent : s \notin brokenSaves
      /\ ~Bare(batch) => \A l \in Ahead..Passed - 1 : l \in brokenLoads \/ l - Ahead < SavesDone
  BY DEF EventOrder
<1>1. Bare(batch) \/ SavesDone + Ahead >= Passed \/ SavesDone + Ahead \in brokenLoads
  <2>. SUFFICES ASSUME ~Bare(batch), SavesDone + Ahead < Passed
                PROVE  SavesDone + Ahead \in brokenLoads
    BY <1>p
  <2>1. SavesDone + Ahead \in Ahead..Passed - 1 /\ ~(SavesDone + Ahead - Ahead < SavesDone)
    BY <1>p
  <2>. QED BY <2>1, <1>e
<1>2. \A s \in brokenSaves' :
        /\ s \in 0..SavesDone
        /\ Bare(batch) \/ s + Ahead >= Passed \/ s + Ahead \in brokenLoads
  BY <1>1, <1>e
<1>3. \A s \in saveEvent :
        /\ s \in 0..SavesDone /\ s \notin brokenSaves'
        /\ Bare(batch) \/ s + Ahead >= Passed \/ s + Ahead \in brokenLoads
  BY <1>e
<1>4. ~Bare(batch) => \A l \in Ahead..Passed - 1 : l \in brokenLoads \/ l - Ahead < SavesDone + 1
  BY <1>e, <1>p
<1>5. SavesDone' - 1 = SavesDone
  OBVIOUS
<1>. QED BY <1>2, <1>3, <1>4, <1>5 DEF EventOrder, Bare

\* A save whose addresses cannot be prepared is done, and broken.
LEMMA UnpreparedSaveKeeps ==
  LayerInv /\ UnpreparedSave => LayerInv'
<1>. SUFFICES ASSUME LayerInv, UnpreparedSave PROVE LayerInv'
  OBVIOUS
<1>. USE Numbers DEF LayerInv
<1>t. TypeOK OBVIOUS
<1>q. /\ Head(saveQueue) = saveQueue[1] /\ Head(saveQueue) \in Task
      /\ saveQueue' \in Seq(Task) /\ Len(saveQueue') = Len(saveQueue) - 1
      /\ Len(saveQueue) \in Nat /\ Len(saveQueue) >= 1
      /\ \A i \in 1..Len(saveQueue') : saveQueue'[i] = saveQueue[i + 1]
  BY <1>t, TailFacts DEF UnpreparedSave, TypeOK
<1>n. layer \in Nat /\ layer <= NumLayers /\ step \in Nat
  BY <1>t DEF TypeOK
<1>0. /\ send = "idle" /\ Head(saveQueue).batch.saves # {}
      /\ brokenSaves' = brokenSaves \cup {Head(saveQueue).layer}
      /\ UNCHANGED <<runnerVars, recvVars, send, save, saved, results, finishes, lost,
                     saveEvent, raised>>
  BY DEF UnpreparedSave
<1>1. runner # "idle"
  BY <1>0, <1>q DEF AtRest, Stale
<1>2. layer >= Len(saveQueue) /\ Head(saveQueue) = TaskFor(layer - Len(saveQueue), batch, step)
  BY <1>0, <1>1, <1>q, <1>n DEF SaveOrder, Stale
<1>3. /\ SavesTaken = layer - Len(saveQueue) /\ SavesTaken' = SavesTaken + 1
      /\ SavesTaken \in Nat /\ SavesTaken < NumLayers
      /\ SavesDone = SavesTaken /\ SavesDone' = SavesTaken + 1
  BY <1>0, <1>2, <1>n, <1>q DEF SavesTaken, SavesDone, Busy, runnerVars
<1>4. /\ Head(saveQueue).layer = SavesTaken /\ Head(saveQueue).batch = batch
      /\ batch.saves # {} /\ batch.saveTasks
  BY <1>0, <1>2, <1>3, <1>n, <1>q, TaskForFields DEF Progress
<1>c. UNCHANGED <<LoadsTaken, LoadsDone, Passed, Consumed>>
  BY <1>0 DEF LoadsTaken, LoadsDone, LoadsSent, Passed, Busy, Consumed, runnerVars, recvVars
<1>5. PICK counted \in SUBSET batch.saves : stored' = CountOff(counted)
  BY <1>4 DEF UnpreparedSave
<1>6. Counts'
  <2>. DEFINE taken == SavesTaken
  <2>1. taken \in Nat /\ taken < NumLayers /\ SavesTaken = taken /\ SavesTaken' = taken + 1
    BY <1>3
  <2>. HIDE DEF taken
  <2>2. saved = {} /\ saved' = {}
    BY <1>0, <1>1, <2>1 DEF Counts
  <2>3. brokenSaves' # {}
    BY <1>0
  <2>4. ASSUME NEW r \in Request
        PROVE  IF r \in batch.saves THEN stored'[r] \in NumLayers - (taken + 1)..NumLayers
               ELSE stored'[r] \in {Absent, 0}
    <3>1. IF r \in batch.saves THEN stored[r] \in NumLayers - taken..NumLayers
          ELSE stored[r] \in {Absent, 0}
      BY <1>1, <2>1 DEF Counts
    <3>2. stored'[r] = IF r \in counted /\ stored[r] # Absent THEN stored[r] - 1 ELSE stored[r]
      BY <1>5 DEF CountOff
    <3>. QED BY <3>1, <3>2, <2>1 DEF Absent
  <2>. QED BY <2>1, <2>2, <2>3, <2>4, <1>0 DEF Counts, runnerVars
<1>7. TypeOK'
  <2>. DEFINE most == NumLayers * MaxSteps
  <2>0. most \in Nat /\ stored \in [Request -> {Absent} \cup 0..most]
    BY <1>t DEF TypeOK
  <2>. HIDE DEF most
  <2>1. ASSUME NEW r \in Request, r \in counted, stored[r] # Absent
        PROVE  stored[r] - 1 \in 0..most
    <3>1. stored[r] \in NumLayers - SavesTaken..NumLayers
      BY <2>1, <1>1, <1>3 DEF Counts
    <3>2. stored[r] \in 0..most /\ stored[r] >= 1
      BY <3>1, <2>0, <2>1, <1>3 DEF Absent
    <3>. QED BY <3>2, <2>0
  <2>2. stored' \in [Request -> {Absent} \cup 0..most]
    BY <2>0, <2>1, <1>5 DEF CountOff
  <2>3. brokenSaves' \subseteq Layers
    <3>1. SavesTaken \in Layers
      BY <1>3 DEF Layers
    <3>2. brokenSaves \subseteq Layers
      BY <1>t DEF TypeOK
    <3>. QED BY <3>1, <3>2, <1>0, <1>4
  <2>. QED BY <1>t, <1>0, <1>q, <2>2, <2>3 DEF TypeOK, most, runnerVars, recvVars
<1>8. Progress' /\ AtRest'
  BY <1>0, <1>1 DEF Progress, AtRest, runnerVars
<1>9. LoadOrder' /\ LoadResults'
  BY <1>0, <1>c DEF LoadOrder, LoadResults, runnerVars, recvVars
<1>10. SaveOrder'
  <2>1. ASSUME NEW i \in 1..Len(saveQueue')
        PROVE  LET l == layer - 1 - (Len(saveQueue') - i) IN
                 IF l >= 0 THEN saveQueue'[i] = TaskFor(l, batch, step)
                 ELSE Stale(saveQueue'[i]) /\ saveQueue'[i].step < step
    <3>1. i + 1 \in 1..Len(saveQueue) /\ Len(saveQueue') - i = Len(saveQueue) - (i + 1)
      BY <1>q
    <3>. QED BY <3>1, <1>q, <2>1, <1>1 DEF SaveOrder
  <2>. QED BY <2>1, <1>0 DEF SaveOrder, runnerVars
<1>11. EventOrder'
  <2>1. /\ runner' = runner /\ SavesDone \in Nat /\ SavesDone' = SavesDone + 1
        /\ brokenSaves' = brokenSaves \cup {SavesDone}
        /\ UNCHANGED <<batch, saveEvent, brokenLoads, Passed>>
    BY <1>0, <1>3, <1>4, <1>c DEF runnerVars, recvVars
  <2>. QED BY <2>1, <1>1, <1>4, SaveBreaks
<1>12. Codes'
  <2>1. SavesTaken # NumLayers /\ FinalLayer \notin brokenSaves
    BY <1>1, <1>3, <1>4 DEF EventOrder, FinalLayer
  <2>2. SavesTaken' = NumLayers => FinalLayer \in brokenSaves'
    BY <1>0, <1>3, <1>4 DEF FinalLayer
  <2>. QED BY <2>1, <2>2, <1>0, <1>1 DEF Codes, runnerVars
<1>. QED BY <1>0, <1>6, <1>7, <1>8, <1>9, <1>10, <1>11, <1>12

\* A step ends: the events awaited say that every task with lists is through.
LEMMA EndStepKeeps ==
  LayerInv /\ EndStep => LayerInv'
<1>. SUFFICES ASSUME LayerInv, EndStep PROVE LayerInv'
  OBVIOUS
<1>. USE Numbers DEF LayerInv
<1>t. TypeOK OBVIOUS
<1>0. /\ runner = "drain" /\ runner' = "idle" /\ saved' = {} /\ loaded' = {}
      /\ UNCHANGED <<kind, step, batch, layer, computed, gates, loadQueue, recv, load,
                     loadEvent, leases, saveQueue, send, save, stored, results, finishes,
                     lost, raised, brokenLoads, brokenSaves>>
  BY DEF EndStep
<1>n. layer = NumLayers /\ Len(saveQueue) \in Nat /\ Len(loadQueue) \in Nat
  BY <1>t, <1>0 DEF TypeOK, Progress
<1>w. /\ \A l \in Layers : TaskFor(l, batch, step).wait =
           IF batch.saveTasks /\ l >= Ahead /\ ~Bare(batch) THEN l - Ahead ELSE NoLayer
  BY TaskForFields DEF Layers
<1>d. LoadsDone = NumLayers /\ Len(loadQueue) = 0 /\ recv = "idle"
      /\ LoadsTaken = NumLayers
  <2>1. NumLayers <= LoadsDone
    BY <1>0 DEF LoadOrder, Consumed
  <2>. QED BY <2>1, <1>n DEF LoadsDone, LoadsTaken, LoadsSent, Busy
<1>s. batch.saveTasks =>
        /\ SavesDone = NumLayers /\ SavesTaken = NumLayers /\ Len(saveQueue) = 0
        /\ send = "idle"
  <2>. SUFFICES ASSUME batch.saveTasks
                PROVE  /\ SavesDone = NumLayers /\ SavesTaken = NumLayers
                       /\ Len(saveQueue) = 0 /\ send = "idle"
    OBVIOUS
  <2>. DEFINE last == NumLayers - 1
  <2>1. last \in Layers /\ last \notin {TaskFor(l, batch, step).wait : l \in Layers}
    BY <1>w DEF Layers, NoLayer
  <2>2. last \in saveEvent
    BY <2>1 DEF EndStep
  <2>3. last <= SavesDone - 1
    BY <2>2, <1>0 DEF EventOrder
  <2>. QED BY <2>3, <1>n DEF SavesDone, SavesTaken, Busy
<1>i. ~batch.saveTasks => send = "idle"
  BY <1>0 DEF SaveOrder
<1>b. brokenLoads = {} /\ brokenSaves = {}
  <2>1. brokenLoads = {}
    BY <1>0, <1>d DEF LoadOrder, Consumed
  <2>2. ASSUME NEW s \in brokenSaves PROVE FALSE
    <3>1. batch.saveTasks /\ s \in 0..NumLayers - 1 /\ (Bare(batch) \/ s + Ahead >= NumLayers)
      BY <2>1, <2>2, <1>0, <1>s, <1>d DEF EventOrder, Passed
    <3>2. s \in Layers \ {TaskFor(l, batch, step).wait : l \in Layers}
      BY <3>1, <1>w DEF Layers, NoLayer
    <3>3. s \in saveEvent
      BY <3>1, <3>2 DEF EndStep
    <3>. QED BY <2>2, <3>1, <3>3, <1>0 DEF EventOrder
  <2>. QED BY <2>1, <2>2
<1>f. FinalLayer \notin brokenLoads /\ FinalLayer \notin brokenSaves
  BY <1>b
<1>1. TypeOK'
  BY <1>t, <1>0 DEF TypeOK, EndStep
<1>2. Progress'
  BY <1>0 DEF Progress
<1>3. AtRest'
  <2>1. loadQueue' = << >> /\ recv' = "idle" /\ send' = "idle"
    BY <1>d, <1>s, <1>i, <1>0, <1>t DEF TypeOK
  <2>2. loadEvent' = {}
    BY <1>0, <1>d DEF LoadOrder, Consumed
  <2>3. saveEvent' = {}
    <3>1. CASE ~batch.saveTasks
      BY <3>1, <1>0 DEF EventOrder, EndStep
    <3>2. CASE batch.saveTasks
      <4>1. \A s \in saveEvent : s \in 0..NumLayers - 1 /\ (Bare(batch) \/ s + Ahead >= NumLayers)
        BY <3>2, <1>0, <1>s, <1>d, <1>b DEF EventOrder, Passed
      <4>. DEFINE named == {TaskFor(l, batch, step).wait : l \in Layers}
      <4>2. ASSUME NEW s \in saveEvent PROVE s \in Layers \ named
        <5>1. s \in 0..NumLayers - 1 /\ (Bare(batch) \/ s + Ahead >= NumLayers)
          BY <4>1
        <5>. QED BY <5>1, <1>w DEF Layers, NoLayer
      <4>3. saveEvent' = saveEvent \ (Layers \ named)
        BY <3>2 DEF EndStep
      <4>. QED BY <4>2, <4>3
    <3>. QED BY <3>1, <3>2
  <2>4. leases' = {}
    BY <1>0, <1>d, <1>f DEF LoadResults
  <2>5. results' = {}
    <3>1. CASE ~batch.saveTasks
      BY <3>1, <1>0, <1>f DEF Codes, Progress
    <3>2. CASE batch.saveTasks
      BY <3>2, <1>s, <1>0, <1>f DEF Codes
    <3>. QED BY <3>1, <3>2
  <2>6. \A r \in Request : stored'[r] \in {Absent, 0}
    <3>1. CASE ~batch.saveTasks
      BY <3>1, <1>0 DEF Counts, Progress
    <3>2. CASE batch.saveTasks
      BY <3>2, <1>s, <1>0, <1>b DEF Counts
    <3>. QED BY <3>1, <3>2
  <2>7. \A i \in 1..Len(saveQueue') : Stale(saveQueue'[i]) /\ saveQueue'[i].step <= step'
    <3>1. CASE ~batch.saveTasks
      <4>. SUFFICES ASSUME NEW i \in 1..Len(saveQueue)
                    PROVE  Stale(saveQueue[i]) /\ saveQueue[i].step <= step
        BY <1>0
      <4>. DEFINE l == layer - 1 - (Len(saveQueue) - i)
      <4>1. l \in Int /\ step \in Int
        BY <1>n, <1>t DEF TypeOK
      <4>2. saveQueue[i] \in Task
        BY <1>t DEF TypeOK
      <4>3. saveQueue[i].step \in Int
        BY <4>2 DEF Task
      <4>4. IF l >= 0 THEN saveQueue[i] = TaskFor(l, batch, step)
            ELSE Stale(saveQueue[i]) /\ saveQueue[i].step < step
        BY <1>0 DEF SaveOrder
      <4>. HIDE DEF l
      <4>5. CASE l >= 0
        BY <4>5, <4>1, <4>4, <3>1, TaskForFields DEF Stale, Progress
      <4>6. CASE ~(l >= 0)
        BY <4>6, <4>1, <4>3, <4>4
      <4>. QED BY <4>5, <4>6
    <3>2. CASE batch.saveTasks
      BY <3>2, <1>s, <1>0
    <3>. QED BY <3>1, <3>2
  <2>8. kind' = "gva" => {f[1] : f \in finishes'} = batch'.saves
    <3>. SUFFICES ASSUME kind = "gva" PROVE {f[1] : f \in finishes} = batch.saves
      BY <1>0
    <3>0. kind = "gva"
      OBVIOUS
    <3>1. CASE batch.saves = {}
      <4>1. finishes = {}
        BY <3>1, <1>0 DEF Codes
      <4>. QED BY <4>1, <3>1
    <3>2. CASE batch.saves # {}
      <4>1. batch.saveTasks
        BY <3>2 DEF Progress
      <4>2. finishes = {<<r, r \notin lost>> : r \in batch.saves}
        BY <4>1, <1>s, <1>0, <1>f, <3>0 DEF Codes
      <4>3. ASSUME NEW r \in batch.saves PROVE r \in {f[1] : f \in finishes}
        <5>. DEFINE f == <<r, r \notin lost>>
        <5>1. f \in finishes
          BY <4>2
        <5>2. f[1] = r
          OBVIOUS
        <5>. HIDE DEF f
        <5>. QED BY <5>1, <5>2
      <4>4. ASSUME NEW f \in finishes PROVE f[1] \in batch.saves
        <5>1. PICK r \in batch.saves : f = <<r, r \notin lost>>
          BY <4>2
        <5>. QED BY <5>1
      <4>. QED BY <4>3, <4>4
    <3>. QED BY <3>1, <3>2
  <2>. QED BY <2>1, <2>2, <2>3, <2>4, <2>5, <2>6, <2>7, <2>8, <1>0, <1>b DEF AtRest
<1>4. LoadOrder' /\ SaveOrder' /\ EventOrder' /\ LoadResults' /\ Counts' /\ Codes'
  BY <1>0 DEF LoadOrder, SaveOrder, EventOrder, LoadResults, Counts, Codes
<1>. QED
  BY <1>0, <1>1, <1>2, <1>3, <1>4

\* What a save that is being handled is: the layer after those done.
LEMMA SaveFacts ==
  ASSUME LayerInv, send # "idle"
  PROVE  /\ runner # "idle" /\ batch.saveTasks /\ Len(saveQueue) \in Nat
         /\ layer \in Nat /\ layer <= NumLayers /\ Len(saveQueue) < layer
         /\ SavesTaken \in Nat /\ SavesTaken = layer - Len(saveQueue)
         /\ SavesDone = SavesTaken - 1 /\ SavesDone \in Layers
         /\ save = TaskFor(SavesDone, batch, step)
         /\ save.layer = SavesDone /\ save.batch = batch /\ save.step = step
         /\ save.layer = FinalLayer <=> SavesTaken = NumLayers
<1>. USE Numbers DEF LayerInv
<1>1. runner # "idle" /\ layer \in Nat /\ layer <= NumLayers /\ Len(saveQueue) \in Nat
  BY DEF AtRest, TypeOK
<1>2. batch.saveTasks /\ Len(saveQueue) < layer /\ save = TaskFor(SavesDone, batch, step)
  BY <1>1 DEF SaveOrder
<1>3. /\ SavesTaken \in Nat /\ SavesTaken = layer - Len(saveQueue)
      /\ SavesDone = SavesTaken - 1 /\ SavesDone \in Layers
  BY <1>1, <1>2 DEF SavesTaken, SavesDone, Busy, Layers
<1>4. save.layer = SavesDone /\ save.batch = batch /\ save.step = step
  <2>1. SavesDone \in Int
    BY <1>3
  <2>. QED BY <2>1, <1>2, TaskForFields
<1>. QED BY <1>1, <1>2, <1>3, <1>4 DEF FinalLayer

\* The layer of a save that copies is computed.
LEMMA SyncSaveKeeps ==
  LayerInv /\ SyncSave => LayerInv'
<1>. SUFFICES ASSUME LayerInv, SyncSave PROVE LayerInv'
  OBVIOUS
<1>. USE Numbers DEF LayerInv
<1>t. TypeOK OBVIOUS
<1>0. /\ send = "sync" /\ send' = "copy" /\ computed > save.layer
      /\ UNCHANGED <<runnerVars, recvVars, saveQueue, save, stored, saved, results,
                     finishes, lost, saveEvent, raised, brokenSaves>>
  BY DEF SyncSave
<1>f. /\ runner # "idle" /\ batch.saveTasks /\ Len(saveQueue) < layer /\ save.layer \in Int
      /\ computed \in Int
  <2>1. computed \in Int
    BY <1>t DEF TypeOK
  <2>2. /\ runner # "idle" /\ batch.saveTasks /\ Len(saveQueue) < layer
        /\ save.layer \in Layers
    BY <1>0, SaveFacts
  <2>. QED BY <2>1, <2>2 DEF Layers
<1>c. UNCHANGED <<LoadsTaken, LoadsDone, SavesTaken, SavesDone, Passed, Consumed>>
  BY <1>0 DEF LoadsTaken, LoadsDone, LoadsSent, SavesTaken, SavesDone, Passed, Busy, Consumed,
     runnerVars, recvVars
<1>1. TypeOK'
  BY <1>t, <1>0 DEF TypeOK, runnerVars, recvVars
<1>2. Progress'
  BY <1>0 DEF Progress, runnerVars
<1>3. AtRest'
  BY <1>0, <1>f DEF AtRest, runnerVars
<1>4. LoadOrder'
  BY <1>0, <1>c DEF LoadOrder, runnerVars, recvVars
<1>5. SaveOrder'
  BY <1>0, <1>c, <1>f DEF SaveOrder, runnerVars
<1>6. EventOrder'
  BY <1>0, <1>c, EventOrderStays DEF runnerVars, recvVars, sendVars
<1>7. LoadResults'
  BY <1>0, <1>c DEF LoadResults, runnerVars, recvVars
<1>8. Counts'
  BY <1>0, <1>c, <1>f DEF Counts, runnerVars
<1>9. Codes'
  BY <1>0, <1>c DEF Codes, runnerVars
<1>. QED
  BY <1>0, <1>1, <1>2, <1>3, <1>4, <1>5, <1>6, <1>7, <1>8, <1>9

\* The copy of a layer keeps its code, that of the last layer reports all.
LEMMA CopySaveKeeps ==
  ASSUME NEW failed \in BOOLEAN, LayerInv, CopySave(failed)
  PROVE  LayerInv'
<1>. USE Numbers DEF LayerInv
<1>t. TypeOK OBVIOUS
<1>0. /\ send = "copy" /\ send' = "finish"
      /\ UNCHANGED <<runnerVars, recvVars, saveQueue, save, stored, saved, saveEvent, raised,
                     brokenSaves>>
  BY DEF CopySave
<1>f. /\ runner # "idle" /\ batch.saveTasks /\ save.batch = batch
      /\ save.layer = FinalLayer <=> SavesTaken = NumLayers
  BY <1>0, SaveFacts
<1>b. batch.saves # {} /\ batch.saves \subseteq Request
  BY <1>0, <1>f, <1>t DEF SaveOrder, TypeOK, Batches
<1>c. UNCHANGED <<LoadsTaken, LoadsDone, SavesTaken, SavesDone, Passed, Consumed>>
  BY <1>0 DEF LoadsTaken, LoadsDone, LoadsSent, SavesTaken, SavesDone, Passed, Busy, Consumed,
     runnerVars, recvVars
<1>r. /\ lost \subseteq batch.saves
      /\ results = IF kind = "gva" THEN lost ELSE {}
      /\ finishes = {} /\ FinalLayer \notin brokenSaves
  <2>1. FinalLayer \notin brokenSaves
    <3>1. SavesDone \in Layers /\ (FinalLayer \in brokenSaves => FinalLayer \in 0..SavesDone - 1)
      BY <1>0, <1>f, SaveFacts DEF EventOrder
    <3>. QED BY <3>1 DEF Layers, FinalLayer
  <2>. QED BY <2>1, <1>0, <1>f DEF Codes
<1>l. lost' = (IF failed THEN lost \cup batch.saves ELSE lost) /\ lost' \subseteq batch.saves
  BY <1>f, <1>r DEF CopySave
<1>k. kind = "gva" => FailedKeys(failed) = lost'
  BY <1>f, <1>r, <1>l DEF FailedKeys
<1>9. Codes' /\ results' \subseteq Request /\ finishes' \subseteq Request \X BOOLEAN
  <2>1. CASE kind # "gva"
    <3>1. results' = {} /\ finishes' = {}
      BY <2>1, <1>r, <1>t DEF CopySave, TypeOK
    <3>. QED BY <2>1, <3>1, <1>0, <1>l DEF Codes, runnerVars
  <2>2. CASE kind = "gva" /\ SavesTaken # NumLayers
    <3>1. results' = lost' /\ finishes' = {}
      BY <2>2, <1>r, <1>f, <1>k DEF CopySave
    <3>. QED BY <2>2, <3>1, <1>0, <1>l, <1>b, <1>c DEF Codes, runnerVars
  <2>3. CASE kind = "gva" /\ SavesTaken = NumLayers
    <3>1. results' = {}
      BY <2>3, <1>l, <1>f, <1>k DEF CopySave
    <3>2. finishes' = {<<r, r \notin lost'>> : r \in batch.saves}
      <4>1. finishes' = finishes \cup {<<r, r \notin FailedKeys(failed)>> : r \in batch.saves}
        BY <2>3, <1>f DEF CopySave
      <4>. QED BY <4>1, <1>k, <2>3, <1>r
    <3>3. finishes' \subseteq Request \X BOOLEAN
      <4>1. ASSUME NEW f \in finishes' PROVE f \in Request \X BOOLEAN
        <5>1. PICK r \in batch.saves : f = <<r, r \notin lost'>>
          BY <3>2
        <5>2. r \in Request /\ (r \notin lost') \in BOOLEAN
          BY <1>b
        <5>. QED BY <5>1, <5>2
      <4>. QED BY <4>1
    <3>4. FinalLayer \notin brokenSaves'
      BY <1>0, <1>r
    <3>. QED BY <2>3, <3>1, <3>2, <3>3, <3>4, <1>0, <1>l, <1>c DEF Codes, runnerVars
  <2>. QED BY <2>1, <2>2, <2>3
<1>1. TypeOK'
  BY <1>t, <1>0, <1>9, <1>l, <1>b DEF TypeOK, runnerVars, recvVars
<1>2. Progress'
  BY <1>0 DEF Progress, runnerVars
<1>3. AtRest'
  BY <1>0, <1>f DEF AtRest, runnerVars
<1>4. LoadOrder'
  BY <1>0, <1>c DEF LoadOrder, runnerVars, recvVars
<1>5. SaveOrder'
  BY <1>0, <1>c DEF SaveOrder, runnerVars
<1>6. EventOrder'
  BY <1>0, <1>c, EventOrderStays DEF runnerVars, recvVars, sendVars
<1>7. LoadResults'
  BY <1>0, <1>c DEF LoadResults, runnerVars, recvVars
<1>8. Counts'
  BY <1>0, <1>c DEF Counts, runnerVars
<1>10. \A f \in finishes' : f[2] = (f[1] \notin lost')
  <2>1. finishes' = {} \/ finishes' = {<<r, r \notin lost'>> : r \in batch.saves}
    BY <1>9, <1>0, <1>f DEF Codes, runnerVars
  <2>. SUFFICES ASSUME NEW f \in finishes', finishes' # {} PROVE f[2] = (f[1] \notin lost')
    OBVIOUS
  <2>2. PICK r \in batch.saves : f = <<r, r \notin lost'>>
    BY <2>1
  <2>. QED BY <2>2
<1>. QED
  BY <1>0, <1>1, <1>2, <1>3, <1>4, <1>5, <1>6, <1>7, <1>8, <1>9, <1>10

\* A request is finished with its last count.
LEMMA FinishSaveKeeps ==
  LayerInv /\ FinishSave => LayerInv'
<1>. SUFFICES ASSUME LayerInv, FinishSave PROVE LayerInv'
  OBVIOUS
<1>. USE Numbers DEF LayerInv
<1>t. TypeOK OBVIOUS
<1>0. /\ send = "finish" /\ send' = "signal"
      /\ saved' = saved \cup FinishedNow
      /\ stored' = [r \in Request |-> IF r \in FinishedNow THEN Absent ELSE stored[r]]
      /\ UNCHANGED <<runnerVars, recvVars, saveQueue, save, results, finishes, lost,
                     saveEvent, raised, brokenSaves>>
  BY DEF FinishSave
<1>f. /\ runner # "idle" /\ batch.saveTasks /\ save.batch = batch
      /\ SavesTaken \in Nat /\ SavesTaken <= NumLayers
  BY <1>0, SaveFacts
<1>c. UNCHANGED <<LoadsTaken, LoadsDone, SavesTaken, SavesDone, Passed, Consumed>>
  BY <1>0 DEF LoadsTaken, LoadsDone, LoadsSent, SavesTaken, SavesDone, Passed, Busy, Consumed,
     runnerVars, recvVars
<1>s. /\ \A r \in Request : IF r \in batch.saves
                             THEN /\ stored[r] \in NumLayers - SavesTaken..NumLayers
                                  /\ brokenSaves = {} => stored[r] = NumLayers - SavesTaken
                             ELSE stored[r] \in {Absent, 0}
      /\ saved = {}
  BY <1>0, <1>f DEF Counts
<1>g. /\ FinishedNow \subseteq batch.saves /\ FinishedNow \subseteq Request
      /\ FinishedNow # {} => SavesTaken = NumLayers
  <2>1. ASSUME NEW r \in FinishedNow
        PROVE  r \in batch.saves /\ r \in Request /\ SavesTaken = NumLayers
    <3>1. r \in batch.saves /\ stored[r] = 0
      BY <1>f DEF FinishedNow
    <3>2. r \in Request
      BY <3>1, <1>t DEF TypeOK, Batches
    <3>. QED BY <3>1, <3>2, <1>s, <1>f
  <2>. QED BY <2>1
<1>1. TypeOK'
  <2>. DEFINE most == NumLayers * MaxSteps
  <2>1. stored \in [Request -> {Absent} \cup 0..most]
    BY <1>t DEF TypeOK
  <2>. HIDE DEF most
  <2>2. stored' \in [Request -> {Absent} \cup 0..most]
    BY <2>1, <1>0
  <2>. QED BY <2>2, <1>t, <1>0, <1>g DEF TypeOK, most, runnerVars, recvVars
<1>2. Progress'
  BY <1>0 DEF Progress, runnerVars
<1>3. AtRest'
  BY <1>0, <1>f DEF AtRest, runnerVars
<1>4. LoadOrder'
  BY <1>0, <1>c DEF LoadOrder, runnerVars, recvVars
<1>5. SaveOrder'
  BY <1>0, <1>c DEF SaveOrder, runnerVars
<1>6. EventOrder'
  BY <1>0, <1>c, EventOrderStays DEF runnerVars, recvVars, sendVars
<1>7. LoadResults'
  BY <1>0, <1>c DEF LoadResults, runnerVars, recvVars
<1>8. Counts'
  <2>1. ASSUME NEW r \in Request
        PROVE  IF r \in batch.saves
               THEN \/ /\ stored'[r] \in NumLayers - SavesTaken..NumLayers
                       /\ brokenSaves = {} => stored'[r] = NumLayers - SavesTaken
                    \/ SavesTaken = NumLayers /\ stored'[r] = Absent
               ELSE stored'[r] \in {Absent, 0}
    BY <1>s, <1>g, <1>0
  <2>. QED BY <2>1, <1>0, <1>c, <1>g, <1>s DEF Counts, runnerVars
<1>9. Codes'
  BY <1>0, <1>c DEF Codes, runnerVars
<1>. QED
  BY <1>0, <1>1, <1>2, <1>3, <1>4, <1>5, <1>6, <1>7, <1>8, <1>9

\* The event of the layer after those done is not set.
LEMMA SignalSaveKeeps ==
  LayerInv /\ SignalSave => LayerInv'
<1>. SUFFICES ASSUME LayerInv, SignalSave PROVE LayerInv'
  OBVIOUS
<1>. USE Numbers DEF LayerInv
<1>t. TypeOK OBVIOUS
<1>0. /\ send = "signal" /\ send' = "idle" /\ save' = NoTask
      /\ raised' = (raised \/ save.layer \in saveEvent)
      /\ saveEvent' = saveEvent \cup {save.layer}
      /\ UNCHANGED <<runnerVars, recvVars, saveQueue, stored, saved, results, finishes, lost,
                     brokenSaves>>
  BY DEF SignalSave
<1>f. /\ runner # "idle" /\ batch.saveTasks /\ save.layer = SavesDone
      /\ SavesDone \in Nat /\ SavesDone < NumLayers /\ SavesDone = SavesTaken - 1
      /\ SavesTaken \in Nat
  BY <1>0, SaveFacts DEF Layers
<1>c. UNCHANGED <<LoadsTaken, LoadsDone, SavesTaken, Passed, Consumed>>
  BY <1>0 DEF LoadsTaken, LoadsDone, LoadsSent, SavesTaken, Passed, Busy, Consumed,
     runnerVars, recvVars
<1>d. SavesDone' = SavesDone + 1
  BY <1>c, <1>0, <1>f DEF SavesDone, Busy
<1>e. /\ \A s \in saveEvent \cup brokenSaves :
           s \in 0..SavesDone - 1 /\ (Bare(batch) \/ s + Ahead >= Passed \/ s + Ahead \in brokenLoads)
      /\ \A s \in saveEvent : s \notin brokenSaves
      /\ ~Bare(batch) => \A l \in Ahead..Passed - 1 : l \in brokenLoads \/ l - Ahead < SavesDone
  BY <1>f DEF EventOrder
<1>p. Passed \in Int
  BY <1>t DEF Passed, LoadsDone, LoadsTaken, LoadsSent, Busy, TypeOK
<1>r. raised' = FALSE
  <2>1. save.layer \notin saveEvent
    BY <1>e, <1>f
  <2>. QED BY <2>1, <1>0
<1>1. TypeOK'
  BY <1>t, <1>0, <1>f, <1>r DEF TypeOK, runnerVars, recvVars, Layers
<1>2. Progress'
  BY <1>0 DEF Progress, runnerVars
<1>3. AtRest'
  BY <1>0, <1>f DEF AtRest, runnerVars
<1>4. LoadOrder'
  BY <1>0, <1>c DEF LoadOrder, runnerVars, recvVars
<1>5. SaveOrder'
  BY <1>0, <1>c DEF SaveOrder, runnerVars
<1>6. EventOrder'
  <2>1. ASSUME NEW s \in saveEvent'
        PROVE  /\ s \in 0..SavesDone /\ s \notin brokenSaves
               /\ Bare(batch) \/ s + Ahead >= Passed \/ s + Ahead \in brokenLoads
    <3>1. CASE s = SavesDone
      <4>1. s \notin brokenSaves
        BY <3>1, <1>e, <1>f
      <4>2. ASSUME ~Bare(batch), s + Ahead < Passed PROVE s + Ahead \in brokenLoads
        <5>. DEFINE l == s + Ahead
        <5>1. l \in Ahead..Passed - 1 /\ ~(l - Ahead < SavesDone)
          BY <4>2, <3>1, <1>f, <1>p
        <5>. HIDE DEF l
        <5>2. l \in brokenLoads
          BY <5>1, <4>2, <1>e
        <5>. QED BY <5>2 DEF l
      <4>. QED BY <4>1, <4>2, <3>1, <1>f, <1>p
    <3>2. CASE s # SavesDone
      <4>1. s \in saveEvent
        BY <3>2, <1>0, <1>f
      <4>. QED BY <4>1, <1>e, <1>f
    <3>. QED BY <3>1, <3>2
  <2>2. ASSUME ~Bare(batch), NEW l \in Ahead..Passed - 1
        PROVE  l \in brokenLoads \/ l - Ahead < SavesDone + 1
    BY <2>2, <1>e, <1>f, <1>p
  <2>3. ASSUME NEW s \in brokenSaves
        PROVE  /\ s \in 0..SavesDone
               /\ Bare(batch) \/ s + Ahead >= Passed \/ s + Ahead \in brokenLoads
    BY <1>e, <1>f
  <2>4. /\ batch' = batch /\ brokenLoads' = brokenLoads /\ brokenSaves' = brokenSaves
        /\ Passed' = Passed /\ SavesDone' - 1 = SavesDone /\ SavesDone' = SavesDone + 1
    BY <1>0, <1>c, <1>d, <1>f DEF runnerVars, recvVars
  <2>5. batch.saveTasks
    BY <1>f
  <2>. QED BY <2>1, <2>2, <2>3, <2>4, <2>5 DEF EventOrder, Bare
<1>7. LoadResults'
  BY <1>0, <1>c DEF LoadResults, runnerVars, recvVars
<1>8. Counts'
  BY <1>0, <1>c DEF Counts, runnerVars
<1>9. Codes'
  BY <1>0, <1>c DEF Codes, runnerVars
<1>. QED
  BY <1>0, <1>r, <1>1, <1>2, <1>3, <1>4, <1>5, <1>6, <1>7, <1>8, <1>9

\* A save whose handler raises is done, and broken.
LEMMA RaiseSaveKeeps ==
  LayerInv /\ RaiseSave => LayerInv'
<1>. SUFFICES ASSUME LayerInv, RaiseSave PROVE LayerInv'
  OBVIOUS
<1>. USE Numbers DEF LayerInv
<1>t. TypeOK OBVIOUS
<1>0. /\ send \in {"sync", "copy"} /\ send' = "idle" /\ save' = NoTask
      /\ brokenSaves' = brokenSaves \cup {save.layer}
      /\ (results' = results
           \/ (save.layer = FinalLayer /\ results' = results \ save.batch.saves))
      /\ UNCHANGED <<runnerVars, recvVars, saveQueue, stored, saved, finishes, lost, saveEvent,
                     raised>>
  BY DEF RaiseSave
<1>f. /\ runner # "idle" /\ batch.saveTasks /\ save.layer = SavesDone /\ save.batch = batch
      /\ SavesDone \in Layers /\ SavesDone = SavesTaken - 1 /\ SavesTaken \in Nat
      /\ save.layer = FinalLayer <=> SavesTaken = NumLayers
  BY <1>0, SaveFacts
<1>c. UNCHANGED <<LoadsTaken, LoadsDone, SavesTaken, Passed, Consumed>>
  BY <1>0 DEF LoadsTaken, LoadsDone, LoadsSent, SavesTaken, Passed, Busy, Consumed,
     runnerVars, recvVars
<1>d. SavesDone' = SavesDone + 1
  BY <1>c, <1>0, <1>f DEF SavesDone, Busy
<1>1. TypeOK'
  BY <1>t, <1>0, <1>f DEF TypeOK, runnerVars, recvVars
<1>2. Progress' /\ AtRest'
  BY <1>0, <1>f DEF Progress, AtRest, runnerVars
<1>3. LoadOrder' /\ LoadResults'
  BY <1>0, <1>c DEF LoadOrder, LoadResults, runnerVars, recvVars
<1>4. SaveOrder'
  BY <1>0, <1>c DEF SaveOrder, runnerVars
<1>5. EventOrder'
  <2>1. /\ runner' = runner /\ SavesDone \in Nat
        /\ brokenSaves' = brokenSaves \cup {SavesDone}
        /\ UNCHANGED <<batch, saveEvent, brokenLoads, Passed>>
    BY <1>0, <1>f, <1>c, Numbers DEF runnerVars, recvVars, Layers
  <2>. QED BY <2>1, <1>f, <1>d, SaveBreaks
<1>6. Counts'
  <2>1. brokenSaves' # {}
    BY <1>0
  <2>2. /\ saved = {}
        /\ \A r \in Request : IF r \in batch.saves THEN stored[r] \in NumLayers - SavesTaken..NumLayers
                               ELSE stored[r] \in {Absent, 0}
    BY <1>0, <1>f DEF Counts
  <2>. QED BY <2>1, <2>2, <1>0, <1>c, <1>f DEF Counts, runnerVars
<1>7. Codes'
  <2>1. FinalLayer \notin brokenSaves
    <3>1. FinalLayer \in brokenSaves => FinalLayer \in 0..SavesDone - 1
      BY <1>f DEF EventOrder
    <3>. QED BY <3>1, <1>f DEF Layers, FinalLayer
  <2>2. lost \subseteq batch.saves /\ finishes = {} /\ results = IF kind = "gva" THEN lost ELSE {}
    BY <2>1, <1>0, <1>f DEF Codes
  <2>3. CASE SavesTaken = NumLayers
    <3>1. FinalLayer \in brokenSaves'
      BY <2>3, <1>0, <1>f
    <3>. QED BY <3>1, <2>2, <2>3, <1>0, <1>c DEF Codes, runnerVars
  <2>4. CASE SavesTaken # NumLayers
    <3>1. results' = results
      BY <2>4, <1>0, <1>f
    <3>. QED BY <3>1, <2>2, <2>4, <1>0, <1>c DEF Codes, runnerVars
  <2>. QED BY <2>3, <2>4
<1>. QED BY <1>0, <1>1, <1>2, <1>3, <1>4, <1>5, <1>6, <1>7

\* The next load is taken.
LEMMA TakeLoadKeeps ==
  LayerInv /\ TakeLoad => LayerInv'
<1>. SUFFICES ASSUME LayerInv, TakeLoad PROVE LayerInv'
  OBVIOUS
<1>. USE Numbers DEF LayerInv
<1>t. TypeOK OBVIOUS
<1>0. /\ recv = "idle" /\ loadQueue # << >> /\ load' = Head(loadQueue)
      /\ recv' = IF ReturnsEarly(Head(loadQueue).batch) THEN "signal" ELSE "save"
      /\ UNCHANGED <<runnerVars, loadEvent, loaded, leases, brokenLoads, sendVars, saveEvent, raised>>
  BY DEF TakeLoad
<1>q. /\ Head(loadQueue) = loadQueue[1] /\ Head(loadQueue) \in Task
      /\ loadQueue' \in Seq(Task) /\ Len(loadQueue') = Len(loadQueue) - 1
      /\ Len(loadQueue) \in Nat /\ Len(loadQueue) >= 1
      /\ \A i \in 1..Len(loadQueue') : loadQueue'[i] = loadQueue[i + 1]
  BY <1>t, TailFacts DEF TakeLoad, TypeOK
<1>f. runner # "idle"
  BY <1>0 DEF AtRest
<1>n. /\ layer \in Nat /\ layer <= NumLayers /\ LoadsTaken \in Int /\ LoadsDone = LoadsTaken
      /\ LoadsTaken <= NumLayers - Len(loadQueue)
  BY <1>t, <1>0, <1>q DEF TypeOK, LoadsTaken, LoadsSent, LoadsDone, Busy
<1>h. Head(loadQueue) = TaskFor(LoadsTaken, batch, step) /\ Head(loadQueue).batch = batch
  <2>1. loadQueue[1] = TaskFor(LoadsTaken + 1 - 1, batch, step)
    BY <1>f, <1>q DEF LoadOrder
  <2>2. LoadsTaken + 1 - 1 = LoadsTaken
    BY <1>n
  <2>. QED BY <2>1, <2>2, <1>q, <1>n, TaskForFields
<1>c. /\ LoadsTaken' = LoadsTaken + 1 /\ LoadsDone' = LoadsDone
      /\ UNCHANGED <<SavesTaken, SavesDone, Consumed>>
  BY <1>0, <1>q, <1>n DEF LoadsTaken, LoadsDone, LoadsSent, SavesTaken, SavesDone, Busy, Consumed,
     runnerVars, sendVars
<1>e. ~ReturnsEarly(batch) => Passed' = Passed
  BY <1>0, <1>h, <1>c, <1>n DEF Passed
<1>1. TypeOK'
  BY <1>t, <1>0, <1>q DEF TypeOK, runnerVars, sendVars
<1>2. Progress'
  BY <1>0 DEF Progress, runnerVars
<1>3. AtRest'
  BY <1>0, <1>f DEF AtRest, runnerVars
<1>4. LoadOrder'
  <2>1. ASSUME NEW i \in 1..Len(loadQueue')
        PROVE  loadQueue'[i] = TaskFor(LoadsTaken + 1 + i - 1, batch, step)
    <3>1. i + 1 \in 1..Len(loadQueue) /\ LoadsTaken + (i + 1) - 1 = LoadsTaken + 1 + i - 1
      BY <1>q, <1>n
    <3>2. loadQueue[i + 1] = TaskFor(LoadsTaken + (i + 1) - 1, batch, step)
      BY <3>1, <1>f DEF LoadOrder
    <3>. QED BY <3>1, <3>2, <1>q
  <2>2. recv' # "copy"
    BY <1>0
  <2>. QED BY <2>1, <2>2, <1>0, <1>c, <1>h, <1>f, <1>n DEF LoadOrder, runnerVars
<1>5. SaveOrder'
  BY <1>0, <1>c DEF SaveOrder, runnerVars, sendVars
<1>6. EventOrder'
  <2>1. CASE ReturnsEarly(batch)
    BY <2>1, <1>0, <1>c, <1>f DEF EventOrder, ReturnsEarly, Bare, runnerVars, sendVars
  <2>2. CASE ~ReturnsEarly(batch)
    BY <2>2, <1>e, <1>0, <1>c, <1>f DEF EventOrder, Bare, runnerVars, sendVars
  <2>. QED BY <2>1, <2>2
<1>7. LoadResults'
  <2>1. LoadsTaken # NumLayers
    BY <1>n, <1>q
  <2>2. /\ loaded = {}
        /\ FinalLayer \notin brokenLoads => leases = IF kind = "gva" THEN batch.loads ELSE {}
    BY <2>1, <1>f DEF LoadResults
  <2>3. recv' = "signal" => batch.loads = {}
    BY <1>0, <1>h DEF ReturnsEarly, Bare
  <2>4. recv' \in {"signal", "save"}
    BY <1>0
  <2>. QED BY <2>2, <2>3, <2>4, <1>0 DEF LoadResults, runnerVars
<1>8. Counts'
  BY <1>0, <1>c DEF Counts, runnerVars, sendVars
<1>9. Codes'
  BY <1>0, <1>c DEF Codes, runnerVars, sendVars
<1>. QED
  BY <1>0, <1>1, <1>2, <1>3, <1>4, <1>5, <1>6, <1>7, <1>8, <1>9 DEF sendVars

\* A load that breaks before it waits is done, and past the save it names.
LEMMA UnpreparedLoadKeeps ==
  LayerInv /\ UnpreparedLoad => LayerInv'
<1>. SUFFICES ASSUME LayerInv, UnpreparedLoad PROVE LayerInv'
  OBVIOUS
<1>. USE Numbers DEF LayerInv
<1>t. TypeOK OBVIOUS
<1>q. /\ Head(loadQueue) = loadQueue[1] /\ Head(loadQueue) \in Task
      /\ loadQueue' \in Seq(Task) /\ Len(loadQueue') = Len(loadQueue) - 1
      /\ Len(loadQueue) \in Nat /\ Len(loadQueue) >= 1
      /\ \A i \in 1..Len(loadQueue') : loadQueue'[i] = loadQueue[i + 1]
  BY <1>t, TailFacts DEF UnpreparedLoad, TypeOK
<1>0. /\ recv = "idle" /\ loadQueue # << >> /\ kind = "gva"
      /\ brokenLoads' = brokenLoads \cup {Head(loadQueue).layer}
      /\ UNCHANGED <<runnerVars, recv, load, loadEvent, loaded, leases, sendVars, saveEvent, raised>>
  BY DEF UnpreparedLoad
<1>f. runner # "idle"
  BY <1>0 DEF AtRest
<1>n. /\ layer \in Nat /\ layer <= NumLayers /\ LoadsTaken \in Int /\ LoadsDone = LoadsTaken
      /\ LoadsTaken <= NumLayers - Len(loadQueue) /\ Passed = LoadsTaken
  BY <1>t, <1>0, <1>q DEF TypeOK, LoadsTaken, LoadsSent, LoadsDone, Passed, Busy
<1>o. /\ loadEvent = (Consumed..LoadsTaken - 1) \ brokenLoads
      /\ brokenLoads \subseteq Consumed..LoadsTaken - 1
      /\ Consumed <= LoadsTaken /\ Consumed \in Nat /\ gates = 0..Consumed - 1
  BY <1>f, <1>n, <1>t DEF LoadOrder, Consumed, TypeOK
<1>h. Head(loadQueue).layer = LoadsTaken
  <2>1. loadQueue[1] = TaskFor(LoadsTaken + 1 - 1, batch, step)
    BY <1>f, <1>q DEF LoadOrder
  <2>2. LoadsTaken + 1 - 1 = LoadsTaken
    BY <1>n
  <2>3. TaskFor(LoadsTaken, batch, step).layer = LoadsTaken
    BY <1>n, TaskForFields
  <2>4. Head(loadQueue) = TaskFor(LoadsTaken, batch, step)
    BY <2>1, <2>2, <1>q
  <2>. QED BY <2>3, <2>4
<1>c. /\ LoadsTaken' = LoadsTaken + 1 /\ LoadsDone' = LoadsTaken + 1 /\ Passed' = LoadsTaken + 1
      /\ UNCHANGED <<SavesTaken, SavesDone, Consumed>>
  BY <1>0, <1>q, <1>n DEF LoadsTaken, LoadsDone, LoadsSent, SavesTaken, SavesDone, Passed, Busy,
     Consumed, runnerVars, sendVars
<1>b. brokenLoads' = brokenLoads \cup {LoadsTaken}
  BY <1>0, <1>h
<1>1. TypeOK'
  <2>1. LoadsTaken \in Layers
    BY <1>n, <1>o, <1>q DEF Layers
  <2>. QED BY <2>1, <1>b, <1>t, <1>0, <1>q DEF TypeOK, runnerVars, sendVars
<1>2. Progress' /\ AtRest'
  BY <1>0, <1>f DEF Progress, AtRest, runnerVars
<1>4. LoadOrder'
  <2>1. ASSUME NEW i \in 1..Len(loadQueue')
        PROVE  loadQueue'[i] = TaskFor(LoadsTaken + 1 + i - 1, batch, step)
    <3>1. i + 1 \in 1..Len(loadQueue) /\ LoadsTaken + (i + 1) - 1 = LoadsTaken + 1 + i - 1
      BY <1>q, <1>n
    <3>2. loadQueue[i + 1] = TaskFor(LoadsTaken + (i + 1) - 1, batch, step)
      BY <3>1, <1>f DEF LoadOrder
    <3>. QED BY <3>1, <3>2, <1>q
  <2>2. /\ loadEvent = (Consumed..LoadsTaken) \ brokenLoads'
        /\ brokenLoads' \subseteq Consumed..LoadsTaken /\ Consumed <= LoadsTaken + 1
    BY <1>o, <1>b, <1>n
  <2>3. LoadsDone' - 1 = LoadsTaken
    BY <1>c, <1>n
  <2>. QED BY <2>1, <2>2, <2>3, <1>0, <1>c, <1>o, <1>n DEF LoadOrder, runnerVars
<1>5. SaveOrder' /\ Counts' /\ Codes'
  BY <1>0, <1>c DEF SaveOrder, Counts, Codes, runnerVars, sendVars
<1>6. EventOrder'
  <2>1. CASE ~batch.saveTasks
    BY <2>1, <1>0, <1>f DEF EventOrder, runnerVars, sendVars
  <2>2. CASE batch.saveTasks
    <3>e. /\ \A s \in saveEvent \cup brokenSaves :
               /\ s \in 0..SavesDone - 1
               /\ Bare(batch) \/ s + Ahead >= LoadsTaken \/ s + Ahead \in brokenLoads
          /\ \A s \in saveEvent : s \notin brokenSaves
          /\ ~Bare(batch) => \A l \in Ahead..LoadsTaken - 1 : l \in brokenLoads \/ l - Ahead < SavesDone
      BY <2>2, <1>f, <1>n DEF EventOrder
    <3>s. SavesDone \in Int
      BY <1>t DEF SavesDone, SavesTaken, Busy, TypeOK
    <3>1. \A s \in saveEvent \cup brokenSaves :
            /\ s \in 0..SavesDone - 1
            /\ Bare(batch) \/ s + Ahead >= LoadsTaken + 1 \/ s + Ahead \in brokenLoads'
      <4>. SUFFICES ASSUME NEW s \in saveEvent \cup brokenSaves
                    PROVE  /\ s \in 0..SavesDone - 1
                           /\ \/ Bare(batch) \/ s + Ahead >= LoadsTaken + 1
                              \/ s + Ahead \in brokenLoads'
        OBVIOUS
      <4>1. /\ s \in 0..SavesDone - 1
            /\ Bare(batch) \/ s + Ahead >= LoadsTaken \/ s + Ahead \in brokenLoads
        BY <3>e
      <4>2. s + Ahead >= LoadsTaken => s + Ahead = LoadsTaken \/ s + Ahead >= LoadsTaken + 1
        BY <4>1, <1>n
      <4>. QED BY <4>1, <4>2, <1>b
    <3>2. ASSUME ~Bare(batch), NEW l \in Ahead..LoadsTaken
          PROVE  l \in brokenLoads' \/ l - Ahead < SavesDone
      <4>1. CASE l = LoadsTaken
        BY <4>1, <1>b
      <4>2. CASE l # LoadsTaken
        BY <4>2, <3>2, <3>e, <1>n, <1>b
      <4>. QED BY <4>1, <4>2
    <3>3. /\ batch' = batch /\ runner' = runner /\ saveEvent' = saveEvent
          /\ brokenSaves' = brokenSaves /\ SavesDone' = SavesDone
          /\ Passed' = LoadsTaken + 1 /\ Passed' - 1 = LoadsTaken
      BY <1>0, <1>c, <1>n DEF runnerVars, sendVars
    <3>. QED BY <3>1, <3>2, <3>3, <3>e, <2>2 DEF EventOrder, Bare
  <2>. QED BY <2>1, <2>2
<1>7. LoadResults'
  <2>1. LoadsTaken # NumLayers /\ FinalLayer \notin brokenLoads
    BY <1>n, <1>q, <1>o DEF FinalLayer
  <2>2. loaded = {} /\ leases = IF kind = "gva" THEN batch.loads ELSE {}
    BY <2>1, <1>f DEF LoadResults
  <2>3. LoadsTaken' = NumLayers => FinalLayer \in brokenLoads'
    BY <1>b, <1>c, <1>n DEF FinalLayer
  <2>. QED BY <2>2, <2>3, <1>0 DEF LoadResults, runnerVars
<1>. QED BY <1>0, <1>1, <1>2, <1>4, <1>5, <1>6, <1>7 DEF sendVars

\* What a load that is being handled is: the layer after those done.
LEMMA LoadFacts ==
  ASSUME LayerInv, recv # "idle"
  PROVE  /\ runner # "idle" /\ Len(loadQueue) \in Nat
         /\ LoadsTaken \in Nat /\ LoadsTaken <= NumLayers
         /\ LoadsDone = LoadsTaken - 1 /\ LoadsDone \in Layers
         /\ load = TaskFor(LoadsDone, batch, step)
         /\ load.layer = LoadsDone /\ load.batch = batch /\ load.step = step
         /\ load.wait = IF batch.saveTasks /\ LoadsDone >= Ahead /\ ~Bare(batch)
                        THEN LoadsDone - Ahead ELSE NoLayer
         /\ load.layer = FinalLayer <=> LoadsTaken = NumLayers
<1>. USE Numbers DEF LayerInv
<1>1. runner # "idle" /\ layer \in Nat /\ layer <= NumLayers /\ Len(loadQueue) \in Nat
  BY DEF AtRest, TypeOK
<1>2. load = TaskFor(LoadsDone, batch, step) /\ Consumed <= LoadsDone
  BY <1>1 DEF LoadOrder
<1>3. LoadsTaken \in Int /\ LoadsTaken <= NumLayers /\ LoadsDone = LoadsTaken - 1
  BY <1>1 DEF LoadsTaken, LoadsDone, LoadsSent, Busy
<1>4. LoadsTaken \in Nat /\ LoadsDone \in Layers
  <2>1. Consumed \in Nat
    BY <1>1 DEF Consumed
  <2>. QED BY <2>1, <1>2, <1>3 DEF Layers
<1>5. /\ load.layer = LoadsDone /\ load.batch = batch /\ load.step = step
      /\ load.wait = IF batch.saveTasks /\ LoadsDone >= Ahead /\ ~Bare(batch)
                     THEN LoadsDone - Ahead ELSE NoLayer
  <2>1. LoadsDone \in Int
    BY <1>3
  <2>. QED BY <2>1, <1>2, TaskForFields
<1>. QED BY <1>1, <1>2, <1>3, <1>4, <1>5 DEF FinalLayer

\* Passing the save it names, a load clears that event and no other.
LEMMA AwaitSaveKeeps ==
  LayerInv /\ AwaitSave => LayerInv'
<1>. SUFFICES ASSUME LayerInv, AwaitSave PROVE LayerInv'
  OBVIOUS
<1>. USE Numbers DEF LayerInv
<1>t. TypeOK OBVIOUS
<1>0. /\ recv = "save" /\ saveEvent' = saveEvent \ {load.wait}
      /\ load.wait # NoLayer => load.wait \in saveEvent
      /\ recv' = IF kind = "gva" /\ ~load.batch.loadTasks THEN "signal" ELSE "gate"
      /\ UNCHANGED <<runnerVars, loadQueue, load, loadEvent, loaded, leases, brokenLoads,
                     sendVars, raised>>
  BY DEF AwaitSave
<1>f. /\ runner # "idle" /\ load.batch = batch
      /\ LoadsTaken \in Nat /\ LoadsDone = LoadsTaken - 1 /\ LoadsDone \in Nat
      /\ load.wait = IF batch.saveTasks /\ LoadsDone >= Ahead /\ ~Bare(batch)
                     THEN LoadsDone - Ahead ELSE NoLayer
  BY <1>0, LoadFacts DEF Layers
<1>c. UNCHANGED <<LoadsTaken, LoadsDone, SavesTaken, SavesDone, Consumed>>
  BY <1>0 DEF LoadsTaken, LoadsDone, LoadsSent, SavesTaken, SavesDone, Busy, Consumed,
     runnerVars, sendVars
<1>p. Passed = LoadsDone /\ Passed' = LoadsDone + 1
  BY <1>0, <1>c, <1>f DEF Passed
<1>s. SavesDone \in Int
  BY <1>t DEF SavesDone, SavesTaken, Busy, TypeOK
<1>1. TypeOK'
  BY <1>t, <1>0 DEF TypeOK, runnerVars, sendVars
<1>2. Progress'
  BY <1>0 DEF Progress, runnerVars
<1>3. AtRest'
  BY <1>0, <1>f DEF AtRest, runnerVars
<1>4. LoadOrder'
  BY <1>0, <1>c DEF LoadOrder, runnerVars
<1>5. SaveOrder'
  BY <1>0, <1>c DEF SaveOrder, runnerVars, sendVars
<1>6. EventOrder'
  <2>1. CASE ~batch.saveTasks
    BY <2>1, <1>0, <1>f DEF EventOrder, runnerVars, sendVars
  <2>2. CASE batch.saveTasks
    <3>e. /\ \A s \in saveEvent \cup brokenSaves :
               /\ s \in 0..SavesDone - 1
               /\ Bare(batch) \/ s + Ahead >= LoadsDone \/ s + Ahead \in brokenLoads
          /\ \A s \in saveEvent : s \notin brokenSaves
          /\ ~Bare(batch) => \A l \in Ahead..LoadsDone - 1 : l \in brokenLoads \/ l - Ahead < SavesDone
      BY <2>2, <1>f, <1>p DEF EventOrder
    <3>w. ~Bare(batch) /\ LoadsDone >= Ahead => load.wait = LoadsDone - Ahead /\ load.wait \in saveEvent
      BY <2>2, <1>0, <1>f DEF NoLayer
    <3>1. ASSUME NEW s \in saveEvent' \cup brokenSaves, ~Bare(batch), s + Ahead < LoadsDone + 1
          PROVE  s + Ahead \in brokenLoads
      <4>1. s \in 0..SavesDone - 1 /\ (s + Ahead >= LoadsDone \/ s + Ahead \in brokenLoads)
        BY <3>e, <3>1, <1>0
      <4>2. CASE s + Ahead = LoadsDone
        <5>1. LoadsDone >= Ahead /\ s = LoadsDone - Ahead
          BY <4>1, <4>2, <1>f, <1>s
        <5>2. s = load.wait /\ s \in saveEvent
          BY <5>1, <3>w, <3>1
        <5>. QED BY <5>2, <3>e, <3>1, <1>0
      <4>. QED BY <4>1, <4>2, <3>1, <1>f, <1>s
    <3>2. ASSUME ~Bare(batch), NEW l \in Ahead..LoadsDone
          PROVE  l \in brokenLoads \/ l - Ahead < SavesDone
      <4>1. CASE l = LoadsDone
        <5>1. load.wait = LoadsDone - Ahead /\ load.wait \in saveEvent
          BY <4>1, <3>2, <3>w
        <5>2. load.wait \in 0..SavesDone - 1
          BY <5>1, <3>e
        <5>. QED BY <5>1, <5>2, <4>1, <1>f, <1>s
      <4>2. CASE l # LoadsDone
        BY <4>2, <3>2, <3>e, <1>f
      <4>. QED BY <4>1, <4>2
    <3>3. /\ batch' = batch /\ runner' = runner /\ brokenLoads' = brokenLoads
          /\ brokenSaves' = brokenSaves /\ SavesDone' = SavesDone
          /\ Passed' = LoadsDone + 1 /\ Passed' - 1 = LoadsDone
      BY <1>0, <1>c, <1>p, <1>f DEF runnerVars, sendVars
    <3>4. \A s \in saveEvent' : s \in saveEvent
      BY <1>0
    <3>5. \A s \in 0..SavesDone - 1 : s + Ahead < LoadsDone + 1 \/ s + Ahead >= LoadsDone + 1
      BY <1>f, <1>s
    <3>6. \A s \in saveEvent' :
            /\ s \in 0..SavesDone - 1 /\ s \notin brokenSaves
            /\ Bare(batch) \/ s + Ahead >= LoadsDone + 1 \/ s + Ahead \in brokenLoads
      BY <3>1, <3>4, <3>5, <3>e
    <3>7. \A s \in brokenSaves :
            /\ s \in 0..SavesDone - 1
            /\ Bare(batch) \/ s + Ahead >= LoadsDone + 1 \/ s + Ahead \in brokenLoads
      BY <3>1, <3>5, <3>e
    <3>. QED BY <3>2, <3>3, <3>6, <3>7, <2>2 DEF EventOrder, Bare
  <2>. QED BY <2>1, <2>2
<1>7. LoadResults'
  <2>1. /\ loaded = {}
        /\ FinalLayer \notin brokenLoads => leases = IF kind = "gva" THEN batch.loads ELSE {}
    BY <1>f, <1>0 DEF LoadResults
  <2>2. recv' = "signal" => batch.loads = {}
    BY <1>0, <1>f DEF Progress
  <2>3. recv' \in {"signal", "gate"}
    BY <1>0
  <2>. QED BY <2>1, <2>2, <2>3, <1>0 DEF LoadResults, runnerVars
<1>8. Counts'
  BY <1>0, <1>c DEF Counts, runnerVars, sendVars
<1>9. Codes'
  BY <1>0, <1>c DEF Codes, runnerVars, sendVars
<1>. QED
  BY <1>0, <1>1, <1>2, <1>3, <1>4, <1>5, <1>6, <1>7, <1>8, <1>9 DEF sendVars

\* The gate and the copy change where the load is.
LEMMA GateAndCopyKeep ==
  LayerInv /\ (AwaitGate \/ CopyLoad) => LayerInv'
<1>. SUFFICES ASSUME LayerInv, AwaitGate \/ CopyLoad PROVE LayerInv'
  OBVIOUS
<1>. USE Numbers DEF LayerInv
<1>t. TypeOK OBVIOUS
<1>0. /\ recv \in {"gate", "copy"} /\ recv' \in {"copy", "finish"}
      /\ recv' = "copy" => load.batch.loads # {}
      /\ UNCHANGED <<runnerVars, loadQueue, load, loadEvent, loaded, leases, brokenLoads,
                     sendVars, saveEvent, raised>>
  BY DEF AwaitGate, CopyLoad
<1>f. runner # "idle" /\ load.batch = batch
  BY <1>0, LoadFacts
<1>c. UNCHANGED <<LoadsTaken, LoadsDone, SavesTaken, SavesDone, Passed, Consumed>>
  BY <1>0 DEF LoadsTaken, LoadsDone, LoadsSent, SavesTaken, SavesDone, Passed, Busy, Consumed,
     runnerVars, sendVars
<1>1. TypeOK'
  BY <1>t, <1>0 DEF TypeOK, runnerVars, sendVars
<1>2. Progress'
  BY <1>0 DEF Progress, runnerVars
<1>3. AtRest'
  BY <1>0, <1>f DEF AtRest, runnerVars
<1>4. LoadOrder'
  BY <1>0, <1>c, <1>f DEF LoadOrder, runnerVars
<1>5. SaveOrder'
  BY <1>0, <1>c DEF SaveOrder, runnerVars, sendVars
<1>6. EventOrder'
  BY <1>0, <1>c, EventOrderStays DEF runnerVars, recvVars, sendVars
<1>7. LoadResults'
  BY <1>0, <1>c, <1>f DEF LoadResults, runnerVars
<1>8. Counts'
  BY <1>0, <1>c DEF Counts, runnerVars, sendVars
<1>9. Codes'
  BY <1>0, <1>c DEF Codes, runnerVars, sendVars
<1>. QED
  BY <1>0, <1>1, <1>2, <1>3, <1>4, <1>5, <1>6, <1>7, <1>8, <1>9 DEF sendVars

\* With the final layer the leases end and the last chunks are loaded.
LEMMA FinishLoadKeeps ==
  LayerInv /\ FinishLoad => LayerInv'
<1>. SUFFICES ASSUME LayerInv, FinishLoad PROVE LayerInv'
  OBVIOUS
<1>. USE Numbers DEF LayerInv
<1>t. TypeOK OBVIOUS
<1>0. /\ recv = "finish" /\ recv' = "signal"
      /\ leases' = (IF load.layer = FinalLayer THEN leases \ load.batch.loads ELSE leases)
      /\ loaded' = (IF load.layer = FinalLayer
                    THEN loaded \cup (load.batch.loads \cap load.batch.last) ELSE loaded)
      /\ UNCHANGED <<runnerVars, loadQueue, load, loadEvent, brokenLoads, sendVars, saveEvent,
                     raised>>
  BY DEF FinishLoad
<1>f. /\ runner # "idle" /\ load.batch = batch
      /\ load.layer = FinalLayer <=> LoadsTaken = NumLayers
  BY <1>0, LoadFacts
<1>c. UNCHANGED <<LoadsTaken, LoadsDone, SavesTaken, SavesDone, Passed, Consumed>>
  BY <1>0 DEF LoadsTaken, LoadsDone, LoadsSent, SavesTaken, SavesDone, Passed, Busy, Consumed,
     runnerVars, sendVars
<1>l. /\ loaded = {}
      /\ FinalLayer \notin brokenLoads => leases = IF kind = "gva" THEN batch.loads ELSE {}
  BY <1>f, <1>0 DEF LoadResults
<1>1. TypeOK'
  <2>1. leases' \subseteq Request /\ loaded' \subseteq Request
    BY <1>t, <1>0, <1>f DEF TypeOK, Batches
  <2>. QED BY <2>1, <1>t, <1>0 DEF TypeOK, runnerVars, sendVars
<1>2. Progress'
  BY <1>0 DEF Progress, runnerVars
<1>3. AtRest'
  BY <1>0, <1>f DEF AtRest, runnerVars
<1>4. LoadOrder'
  BY <1>0, <1>c DEF LoadOrder, runnerVars
<1>5. SaveOrder'
  BY <1>0, <1>c DEF SaveOrder, runnerVars, sendVars
<1>6. EventOrder'
  BY <1>0, <1>c, EventOrderStays DEF runnerVars, recvVars, sendVars
<1>7. LoadResults'
  BY <1>0, <1>c, <1>f, <1>l DEF LoadResults, runnerVars
<1>8. Counts'
  BY <1>0, <1>c DEF Counts, runnerVars, sendVars
<1>9. Codes'
  BY <1>0, <1>c DEF Codes, runnerVars, sendVars
<1>. QED
  BY <1>0, <1>1, <1>2, <1>3, <1>4, <1>5, <1>6, <1>7, <1>8, <1>9 DEF sendVars

\* The event of the layer after those done is not set.
LEMMA SignalLoadKeeps ==
  LayerInv /\ SignalLoad => LayerInv'
<1>. SUFFICES ASSUME LayerInv, SignalLoad PROVE LayerInv'
  OBVIOUS
<1>. USE Numbers DEF LayerInv
<1>t. TypeOK OBVIOUS
<1>0. /\ recv = "signal" /\ recv' = "idle" /\ load' = NoTask
      /\ raised' = (raised \/ load.layer \in loadEvent)
      /\ loadEvent' = loadEvent \cup {load.layer}
      /\ UNCHANGED <<runnerVars, loadQueue, loaded, leases, brokenLoads, sendVars, saveEvent>>
  BY DEF SignalLoad
<1>f. /\ runner # "idle" /\ load.layer = LoadsDone /\ LoadsTaken \in Nat
      /\ LoadsDone \in Nat /\ LoadsDone < NumLayers /\ LoadsDone = LoadsTaken - 1
  BY <1>0, LoadFacts DEF Layers
<1>c. UNCHANGED <<LoadsTaken, SavesTaken, SavesDone, Consumed>>
  BY <1>0 DEF LoadsTaken, LoadsSent, SavesTaken, SavesDone, Busy, Consumed,
     runnerVars, sendVars
<1>d. LoadsDone' = LoadsDone + 1 /\ Passed' = Passed
  BY <1>c, <1>0, <1>f DEF LoadsDone, Busy, Passed
<1>e. /\ loadEvent = (Consumed..LoadsDone - 1) \ brokenLoads
      /\ brokenLoads \subseteq Consumed..LoadsDone - 1
      /\ Consumed <= LoadsDone /\ Consumed \in Nat
  BY <1>f, <1>t DEF LoadOrder, Consumed, TypeOK
<1>r. raised' = FALSE
  <2>1. load.layer \notin loadEvent
    BY <1>e, <1>f
  <2>. QED BY <2>1, <1>0
<1>1. TypeOK'
  BY <1>t, <1>0, <1>f, <1>r DEF TypeOK, runnerVars, sendVars, Layers
<1>2. Progress'
  BY <1>0 DEF Progress, runnerVars
<1>3. AtRest'
  BY <1>0, <1>f DEF AtRest, runnerVars
<1>4. LoadOrder'
  <2>1. /\ loadEvent' = (Consumed..LoadsDone) \ brokenLoads /\ Consumed <= LoadsDone + 1
        /\ brokenLoads \subseteq Consumed..LoadsDone
    BY <1>e, <1>0, <1>f
  <2>2. \A i \in 1..Len(loadQueue) : loadQueue[i] = TaskFor(LoadsTaken + i - 1, batch, step)
    BY <1>f DEF LoadOrder
  <2>3. gates = 0..Consumed - 1
    BY <1>f DEF LoadOrder
  <2>4. /\ loadEvent' = (Consumed'..LoadsDone' - 1) \ brokenLoads' /\ Consumed' <= LoadsDone'
        /\ brokenLoads' \subseteq Consumed'..LoadsDone' - 1
    <3>1. LoadsDone' - 1 = LoadsDone /\ Consumed' = Consumed /\ brokenLoads' = brokenLoads
      BY <1>c, <1>d, <1>f, <1>0
    <3>. QED BY <3>1, <2>1, <1>d
  <2>5. /\ \A i \in 1..Len(loadQueue') : loadQueue'[i] = TaskFor(LoadsTaken' + i - 1, batch', step')
        /\ gates' = 0..Consumed' - 1
    BY <2>2, <2>3, <1>0, <1>c DEF runnerVars
  <2>. QED BY <2>4, <2>5, <1>0 DEF LoadOrder
<1>5. SaveOrder'
  BY <1>0, <1>c DEF SaveOrder, runnerVars, sendVars
<1>6. EventOrder'
  BY <1>0, <1>c, <1>d, EventOrderStays DEF runnerVars, recvVars, sendVars
<1>7. LoadResults'
  BY <1>0, <1>c DEF LoadResults, runnerVars
<1>8. Counts'
  BY <1>0, <1>c DEF Counts, runnerVars, sendVars
<1>9. Codes'
  BY <1>0, <1>c DEF Codes, runnerVars, sendVars
<1>. QED
  BY <1>0, <1>r, <1>1, <1>2, <1>3, <1>4, <1>5, <1>6, <1>7, <1>8, <1>9 DEF sendVars

\* A load whose handler raises is done, and broken.
LEMMA RaiseLoadKeeps ==
  LayerInv /\ RaiseLoad => LayerInv'
<1>. SUFFICES ASSUME LayerInv, RaiseLoad PROVE LayerInv'
  OBVIOUS
<1>. USE Numbers DEF LayerInv
<1>t. TypeOK OBVIOUS
<1>0. /\ recv \in {"copy", "finish"} /\ recv' = "idle" /\ load' = NoTask
      /\ brokenLoads' = brokenLoads \cup {load.layer}
      /\ (leases' = leases
           \/ (load.layer = FinalLayer /\ leases' = leases \ load.batch.loads))
      /\ UNCHANGED <<runnerVars, loadQueue, loadEvent, loaded, sendVars, saveEvent, raised>>
  BY DEF RaiseLoad
<1>f. /\ runner # "idle" /\ load.layer = LoadsDone /\ LoadsTaken \in Nat
      /\ LoadsDone \in Nat /\ LoadsDone < NumLayers /\ LoadsDone = LoadsTaken - 1
      /\ LoadsDone \in Layers /\ (load.layer = FinalLayer <=> LoadsTaken = NumLayers)
  BY <1>0, LoadFacts DEF Layers
<1>c. UNCHANGED <<LoadsTaken, SavesTaken, SavesDone, Consumed>>
  BY <1>0 DEF LoadsTaken, LoadsSent, SavesTaken, SavesDone, Busy, Consumed, runnerVars, sendVars
<1>d. LoadsDone' = LoadsDone + 1 /\ Passed' = Passed /\ Passed = LoadsDone + 1
  BY <1>c, <1>0, <1>f DEF LoadsDone, Busy, Passed
<1>b. brokenLoads' = brokenLoads \cup {LoadsDone}
  BY <1>0, <1>f
<1>e. /\ loadEvent = (Consumed..LoadsDone - 1) \ brokenLoads
      /\ brokenLoads \subseteq Consumed..LoadsDone - 1
      /\ Consumed <= LoadsDone /\ Consumed \in Nat
      /\ gates = 0..Consumed - 1
  BY <1>f, <1>t DEF LoadOrder, Consumed, TypeOK
<1>1. TypeOK'
  <2>1. leases' \subseteq Request
    BY <1>t, <1>0 DEF TypeOK
  <2>. QED BY <2>1, <1>t, <1>0, <1>b, <1>f DEF TypeOK, runnerVars, sendVars
<1>2. Progress' /\ AtRest'
  BY <1>0, <1>f DEF Progress, AtRest, runnerVars
<1>4. LoadOrder'
  <2>1. /\ loadEvent' = (Consumed..LoadsDone) \ brokenLoads' /\ Consumed <= LoadsDone + 1
        /\ brokenLoads' \subseteq Consumed..LoadsDone
    BY <1>e, <1>0, <1>b, <1>f
  <2>2. \A i \in 1..Len(loadQueue) : loadQueue[i] = TaskFor(LoadsTaken + i - 1, batch, step)
    BY <1>f DEF LoadOrder
  <2>3. LoadsDone' - 1 = LoadsDone /\ Consumed' = Consumed /\ LoadsDone' = LoadsDone + 1
    BY <1>c, <1>d, <1>f
  <2>4. /\ \A i \in 1..Len(loadQueue') : loadQueue'[i] = TaskFor(LoadsTaken' + i - 1, batch', step')
        /\ gates' = 0..Consumed' - 1
    BY <2>2, <1>e, <1>0, <1>c DEF runnerVars
  <2>. QED BY <2>1, <2>3, <2>4, <1>0 DEF LoadOrder
<1>5. SaveOrder' /\ Counts' /\ Codes'
  BY <1>0, <1>c DEF SaveOrder, Counts, Codes, runnerVars, sendVars
<1>6. EventOrder'
  <2>1. /\ runner' = runner /\ batch' = batch /\ saveEvent' = saveEvent
        /\ brokenSaves' = brokenSaves /\ SavesDone' = SavesDone /\ Passed' = Passed
        /\ brokenLoads \subseteq brokenLoads'
    BY <1>0, <1>c, <1>d, <1>b DEF runnerVars, sendVars
  <2>. QED BY <2>1, <1>f DEF EventOrder, Bare
<1>7. LoadResults'
  <2>1. FinalLayer \notin brokenLoads
    BY <1>e, <1>f DEF FinalLayer
  <2>2. loaded = {} /\ leases = IF kind = "gva" THEN batch.loads ELSE {}
    BY <2>1, <1>0, <1>f DEF LoadResults
  <2>3. CASE LoadsTaken = NumLayers
    <3>1. FinalLayer \in brokenLoads'
      BY <2>3, <1>0, <1>f
    <3>. QED BY <3>1, <2>2, <1>0, <1>c DEF LoadResults, runnerVars
  <2>4. CASE LoadsTaken # NumLayers
    <3>1. leases' = leases
      BY <2>4, <1>0, <1>f
    <3>. QED BY <3>1, <2>2, <2>4, <1>0, <1>c DEF LoadResults, runnerVars
  <2>. QED BY <2>3, <2>4
<1>. QED BY <1>0, <1>1, <1>2, <1>4, <1>5, <1>6, <1>7 DEF sendVars

-----------------------------------------------------------------------------
(* The theorems *)

\* At the start nothing is on its way.
LEMMA InitInvariant ==
  Init => LayerInv
<1>. SUFFICES ASSUME Init PROVE LayerInv
  OBVIOUS
<1>. USE Numbers
<1>1. TypeOK
  <2>1. stored \in [Request -> {Absent} \cup 0..(NumLayers * MaxSteps)]
    BY DEF Init
  <2>2. batch \in Batches
    BY DEF Init, NoBatch, Batches
  <2>3. 0 \in 0..MaxSteps /\ 0 \in 0..NumLayers /\ << >> \in Seq(Task) /\ FALSE \in BOOLEAN
    OBVIOUS
  <2>. QED BY <2>1, <2>2, <2>3 DEF Init, TypeOK
<1>2. Progress
  BY DEF Init, Progress, NoBatch
<1>3. AtRest
  BY DEF Init, AtRest, NoBatch
<1>4. LoadOrder /\ SaveOrder /\ EventOrder /\ LoadResults /\ Counts /\ Codes
  BY DEF Init, LoadOrder, SaveOrder, EventOrder, LoadResults, Counts, Codes
<1>5. ~raised /\ \A f \in finishes : f[2] = (f[1] \notin lost)
  BY DEF Init
<1>. QED BY <1>1, <1>2, <1>3, <1>4, <1>5 DEF LayerInv

\* Every step keeps the invariant.
LEMMA NextInvariant ==
  LayerInv /\ [Next]_vars => LayerInv'
<1>. SUFFICES ASSUME LayerInv, [Next]_vars PROVE LayerInv'
  OBVIOUS
<1>1. ASSUME NEW b \in Batches, BeginStep(b) PROVE LayerInv'
  BY <1>1, BeginStepKeeps
<1>2. CASE Runner
  BY <1>2, LayerLoadedKeeps, LayerIssuedKeeps, LayerComputedKeeps, EndStepKeeps DEF Runner
<1>3. CASE Sender
  <2>1. ASSUME NEW failed \in BOOLEAN, CopySave(failed) PROVE LayerInv'
    BY <2>1, CopySaveKeeps
  <2>. QED
    BY <1>3, <2>1, TakeSaveKeeps, SyncSaveKeeps, FinishSaveKeeps, SignalSaveKeeps,
       UnpreparedSaveKeeps, RaiseSaveKeeps DEF Sender
<1>4. CASE Receiver
  BY <1>4, TakeLoadKeeps, AwaitSaveKeeps, GateAndCopyKeep, FinishLoadKeeps, SignalLoadKeeps,
     UnpreparedLoadKeeps, RaiseLoadKeeps DEF Receiver
<1>5. CASE UNCHANGED vars
  <2>. USE <1>5 DEF vars, runnerVars, recvVars, sendVars, LayerInv
  <2>1. TypeOK' /\ Progress' /\ AtRest'
    BY DEF TypeOK, Progress, AtRest
  <2>2. UNCHANGED <<LoadsTaken, LoadsDone, SavesTaken, SavesDone, Passed, Consumed>>
    BY DEF LoadsTaken, LoadsDone, LoadsSent, SavesTaken, SavesDone, Passed, Busy, Consumed
  <2>3. LoadOrder'
    BY <2>2 DEF LoadOrder
  <2>4. SaveOrder'
    BY <2>2 DEF SaveOrder
  <2>5. EventOrder'
    BY <2>2 DEF EventOrder, Bare
  <2>6. LoadResults' /\ Counts' /\ Codes'
    BY <2>2 DEF LoadResults, Counts, Codes
  <2>. QED BY <2>1, <2>3, <2>4, <2>5, <2>6
<1>. QED BY <1>1, <1>2, <1>3, <1>4, <1>5 DEF Next

\* LayerInv is an invariant of every behaviour.
THEOREM Invariance ==
  Spec => []LayerInv
BY InitInvariant, NextInvariant, PTL DEF Spec

\* What is queued or being saved is a stale task or one of this step.
LEMMA OpenSaveFacts ==
  ASSUME LayerInv, NEW s \in OpenSaves
  PROVE  \/ s.batch.saves = {} /\ (runner # "idle" => s.step < step)
         \/ /\ runner # "idle" /\ s.step = step /\ s.batch = batch
            /\ s.layer \in Int /\ s.layer >= SavesDone
<1>. USE Numbers DEF LayerInv
<1>t. TypeOK OBVIOUS
<1>1. CASE send # "idle" /\ s = save
  BY <1>1, SaveFacts DEF Layers
<1>2. ASSUME NEW i \in 1..Len(saveQueue), s = saveQueue[i], runner = "idle"
      PROVE  s.batch.saves = {}
  BY <1>2 DEF AtRest, Stale
<1>3. ASSUME NEW i \in 1..Len(saveQueue), s = saveQueue[i], runner # "idle"
      PROVE  \/ s.batch.saves = {} /\ s.step < step
             \/ /\ s.step = step /\ s.batch = batch
                /\ s.layer \in Int /\ s.layer >= SavesDone
  <2>. DEFINE l == layer - 1 - (Len(saveQueue) - i)
  <2>0. layer \in Nat /\ Len(saveQueue) \in Nat /\ l \in Int
    BY <1>t DEF TypeOK
  <2>1. IF l >= 0 THEN s = TaskFor(l, batch, step) ELSE Stale(s) /\ s.step < step
    BY <1>3 DEF SaveOrder
  <2>2. l >= 0 => l >= SavesDone
    <3>1. SavesDone \in Int /\ (l >= 0 => l >= layer - Len(saveQueue) /\ l >= 0)
      BY <2>0 DEF SavesDone, SavesTaken, Busy
    <3>. QED BY <3>1, <2>0 DEF SavesDone, SavesTaken, Busy
  <2>. HIDE DEF l
  <2>3. CASE l >= 0
    BY <2>0, <2>1, <2>2, <2>3, TaskForFields
  <2>4. CASE ~(l >= 0)
    BY <2>1, <2>4 DEF Stale
  <2>. QED BY <2>3, <2>4
<1>4. (send # "idle" /\ s = save) \/ \E i \in 1..Len(saveQueue) : s = saveQueue[i]
  <2>1. \A x \in Range(saveQueue) : \E i \in 1..Len(saveQueue) : x = saveQueue[i]
    BY <1>t DEF Range, TypeOK
  <2>. QED BY <2>1 DEF OpenSaves
<1>. QED BY <1>1, <1>2, <1>3, <1>4

\* What is queued or being loaded belongs to this step.
LEMMA OpenLoadFacts ==
  ASSUME LayerInv, NEW l \in OpenLoads
  PROVE  runner # "idle" /\ l.step = step /\ l.batch = batch
<1>. USE Numbers DEF LayerInv
<1>t. TypeOK OBVIOUS
<1>1. CASE recv # "idle" /\ l = load
  BY <1>1, LoadFacts
<1>2. ASSUME NEW i \in 1..Len(loadQueue), l = loadQueue[i]
      PROVE  runner # "idle" /\ l.step = step /\ l.batch = batch
  <2>1. runner # "idle"
    BY <1>2 DEF AtRest
  <2>2. l = TaskFor(LoadsTaken + i - 1, batch, step) /\ LoadsTaken + i - 1 \in Int
    BY <2>1, <1>2, <1>t DEF LoadOrder, LoadsTaken, LoadsSent, TypeOK
  <2>. QED BY <2>1, <2>2, TaskForFields
<1>3. (recv # "idle" /\ l = load) \/ \E i \in 1..Len(loadQueue) : l = loadQueue[i]
  <2>1. \A x \in Range(loadQueue) : \E i \in 1..Len(loadQueue) : x = loadQueue[i]
    BY <1>t DEF Range, TypeOK
  <2>. QED BY <2>1 DEF OpenLoads
<1>. QED BY <1>1, <1>2, <1>3

\* Every variable keeps its type; the counts stay within what was added.
THEOREM TypeCorrect == Spec => []TypeOK
<1>1. LayerInv => TypeOK
  BY DEF LayerInv
<1>. QED BY <1>1, Invariance, PTL

\* A load that names a save moves data only when that save, of the same step,
\* has been handled to the end.
THEOREM LoadsWait == Spec => []LoadWaitsForSave
<1>1. LayerInv => LoadWaitsForSave
  <2>. SUFFICES ASSUME LayerInv, recv = "copy", load.wait # NoLayer,
                       NEW s \in OpenSaves, s.layer = load.wait, s.step = load.step
                PROVE  FALSE
    BY DEF LoadWaitsForSave
  <2>1. /\ load.step = step /\ LoadsDone = LoadsTaken - 1 /\ LoadsTaken \in Nat
        /\ load.wait = LoadsDone - Ahead /\ batch.saveTasks /\ ~Bare(batch) /\ runner # "idle"
    BY LoadFacts
  <2>2. SavesDone > load.wait
    <3>1. LoadsDone - Ahead < SavesDone
      <4>1. \A l \in Ahead..LoadsTaken - 1 : l \in brokenLoads \/ l - Ahead < SavesDone
        BY <2>1 DEF LayerInv, EventOrder, Passed
      <4>2. LoadsDone \notin brokenLoads
        BY <2>1 DEF LayerInv, LoadOrder
      <4>3. LoadsDone \in Ahead..LoadsTaken - 1
        <5>1. LoadsDone >= Ahead
          BY LoadFacts, <2>1
        <5>. QED BY <5>1, <2>1, Numbers
      <4>. QED BY <4>1, <4>2, <4>3
    <3>2. SavesDone \in Int
      BY DEF SavesDone, SavesTaken, Busy, LayerInv, TypeOK
    <3>. QED BY <3>1, <3>2, <2>1, Numbers
  <2>3. s.step = step /\ step \in Nat
    BY <2>1 DEF LayerInv, TypeOK
  <2>4. s.layer \in Int /\ s.layer >= SavesDone
    BY <2>1, <2>3, OpenSaveFacts
  <2>5. SavesDone \in Int
    BY DEF SavesDone, SavesTaken, Busy, LayerInv, TypeOK
  <2>. QED BY <2>2, <2>4, <2>5
<1>. QED BY <1>1, Invariance, PTL

\* A layer is read for its save only after the device has computed it.
THEOREM SavesFollowCompute == Spec => []SaveAfterCompute
<1>1. LayerInv => SaveAfterCompute
  <2>. SUFFICES ASSUME LayerInv, send = "copy" PROVE save.step = step /\ save.layer < computed
    BY DEF SaveAfterCompute
  <2>1. runner # "idle" /\ save.step = step
    BY SaveFacts
  <2>. QED BY <2>1 DEF LayerInv, SaveOrder
<1>. QED BY <1>1, Invariance, PTL

\* No handler meets its assertion: every event is consumed before it is set
\* again.
THEOREM NoAssertionFails == Spec => []AssertionsHold
<1>1. LayerInv => AssertionsHold
  BY DEF LayerInv, AssertionsHold
<1>. QED BY <1>1, Invariance, PTL

\* A request is reported finished only when none of its layers is still on
\* its way, in either direction.
THEOREM FinishedRequestsMoved == Spec => []FinishedMeansMoved
<1>1. LayerInv => FinishedMeansMoved
  <2>. SUFFICES ASSUME LayerInv PROVE FinishedMeansMoved
    OBVIOUS
  <2>. USE Numbers DEF LayerInv
  <2>t. TypeOK OBVIOUS
  <2>1. ASSUME NEW r \in saved, NEW s \in OpenSaves, r \in s.batch.saves
        PROVE  s = save /\ send = "signal"
    <3>1. runner # "idle"
      BY DEF AtRest
    <3>2. SavesTaken = NumLayers /\ send \in {"signal", "idle"}
      BY <3>1 DEF Counts
    <3>3. layer \in Nat /\ layer <= NumLayers /\ Len(saveQueue) \in Nat
      BY <2>t DEF TypeOK
    <3>4. Len(saveQueue) = 0
      BY <3>2, <3>3 DEF SavesTaken
    <3>5. Range(saveQueue) = {}
      BY <3>4, <2>t DEF Range, TypeOK
    <3>. QED BY <3>2, <3>5 DEF OpenSaves
  <2>2. ASSUME NEW r \in loaded, NEW l \in OpenLoads, r \in l.batch.loads
        PROVE  l = load /\ recv = "signal"
    <3>1. runner # "idle"
      BY DEF AtRest
    <3>2. LoadsTaken = NumLayers /\ recv \in {"signal", "idle"}
      BY <3>1 DEF LoadResults
    <3>3. layer \in Nat /\ Len(loadQueue) \in Nat
      BY <2>t DEF TypeOK
    <3>4. Len(loadQueue) = 0
      BY <3>2, <3>3 DEF LoadsTaken, LoadsSent
    <3>5. Range(loadQueue) = {}
      BY <3>4, <2>t DEF Range, TypeOK
    <3>. QED BY <3>2, <3>5 DEF OpenLoads
  <2>. QED BY <2>1, <2>2 DEF FinishedMeansMoved
<1>. QED BY <1>1, Invariance, PTL

\* batch_write_finish tells the store of a success exactly when no copy of the
\* step returned a failure, and of every request the step saved.
THEOREM FinishesAreTruthful == Spec => []FinishTruthful
<1>1. LayerInv => FinishTruthful
  BY DEF LayerInv, FinishTruthful, AtRest
<1>. QED BY <1>1, Invariance, PTL

\* What is being loaded is leased, and no lease outlives its step.
THEOREM LeasesHold == Spec => []LeasesCoverLoads
<1>1. LayerInv => LeasesCoverLoads
  <2>. SUFFICES ASSUME LayerInv PROVE LeasesCoverLoads
    OBVIOUS
  <2>1. ASSUME recv = "copy", kind = "gva" PROVE load.batch.loads \subseteq leases
    <3>1. runner # "idle" /\ load.batch = batch /\ LoadsDone \in Layers
      BY <2>1, LoadFacts
    <3>2. FinalLayer \notin brokenLoads
      BY <3>1, Numbers DEF LayerInv, LoadOrder, Layers, FinalLayer
    <3>. QED BY <2>1, <3>1, <3>2 DEF LayerInv, LoadResults
  <2>2. runner = "idle" => leases = {}
    BY DEF LayerInv, AtRest
  <2>. QED BY <2>1, <2>2 DEF LeasesCoverLoads
<1>. QED BY <1>1, Invariance, PTL

\* No task with block lists outlives the step it was made in, which is what
\* lets the builder reuse the buffers they are views of.
THEOREM BuffersAreFresh == Spec => []SharedDataFresh
<1>1. LayerInv => SharedDataFresh
  BY OpenSaveFacts, OpenLoadFacts DEF SharedDataFresh
<1>. QED BY <1>1, Invariance, PTL
=============================================================================
