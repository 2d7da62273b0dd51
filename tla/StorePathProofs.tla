--------------------------- MODULE StorePathProofs ---------------------------
(***************************************************************************)
(* Theorems about StorePath for every number of requests, workers, blocks, *)
(* saves and preemptions, whether or not stores fail.  After the types:    *)
(* the events of the store path are counted exactly and outlive the copies *)
(* that need them.  The inductive invariant says where the event of an     *)
(* unfinished job is on a worker: in exactly one of its backlog, its       *)
(* thread, its completed events and its output.  From it follow the exact  *)
(* reference counts of the state blocks and the refinement of BlockHold.   *)
(* The last part is about the copies of requests that are saved once.      *)
(***************************************************************************)
EXTENDS StorePath, FiniteSetTheorems, TLAPS

-----------------------------------------------------------------------------
(* Helpers: counts and orders *)

\* Owners counts a finite set.
LEMMA OwnersNat == ASSUME NEW o, NEW b PROVE Owners(o, b) \in Nat
BY StorePathAssumption, FS_Subset, FS_CardinalityType DEF Owners

\* So does ReportCount.
LEMMA ReportCountNat == ASSUME NEW e PROVE ReportCount(e) \in Nat
BY StorePathAssumption, FS_Subset, FS_CardinalityType DEF ReportCount

\* The outstanding events are finitely many numbers.
LEMMA EventsFinite ==
  ASSUME TypeOK
  PROVE  /\ IsFiniteSet(DOMAIN sendingEvents)
         /\ DOMAIN sendingEvents \subseteq Nat
<1>1. eventId - 1 \in Int /\ DOMAIN sendingEvents \subseteq 0..(eventId - 1)
  BY DEF TypeOK
<1>2. IsFiniteSet(0..(eventId - 1))
  BY <1>1, FS_Interval
<1>3. QED
  BY <1>1, <1>2, FS_Subset

\* An order of S is a sequence over S without repetitions.
LEMMA OrderIsSequence ==
  ASSUME NEW S, NEW s \in Orders(S)
  PROVE  /\ s \in Seq(S)
         /\ Len(s) \in Nat
         /\ \A i \in 1..Len(s) : s[i] \in S
         /\ \A i, j \in 1..Len(s) : s[i] = s[j] => i = j
<1>1. PICK n \in 0..MaxBatch : s \in [1..n -> S]
  BY DEF Orders
<1>2. s \in Seq(S) /\ Len(s) = n
  BY <1>1, StorePathAssumption
<1>3. QED
  BY <1>1, <1>2 DEF Orders

-----------------------------------------------------------------------------
(* Type correctness *)

\* A busy thread has a job in hand.
TypeInv == TypeOK /\ \A w \in Worker : pc[w] # Idle => cur[w] \in Jobs

LEMMA InitTypeInv == Init => TypeInv
BY DEF Init, TypeInv, TypeOK, NoMeta, NoReport, Absent, Idle

LEMMA ScheduleTypeInv == TypeInv /\ ScheduleStep => TypeInv'
<1> SUFFICES ASSUME TypeInv, ScheduleStep PROVE TypeInv'
  OBVIOUS
<1>a. PICK preempted \in SUBSET Preemptible :
        \E scheduled \in SUBSET (Schedulable \ preempted) :
        \E saves \in Orders(scheduled) :
        \E blocks \in BlockChoices(scheduled) :
          Schedule(preempted, scheduled, saves, blocks)
  BY DEF ScheduleStep
<1>b. PICK scheduled \in SUBSET (Schedulable \ preempted) :
        \E saves \in Orders(scheduled) :
        \E blocks \in BlockChoices(scheduled) :
          Schedule(preempted, scheduled, saves, blocks)
  BY <1>a
<1>c. PICK saves \in Orders(scheduled) :
        \E blocks \in BlockChoices(scheduled) :
          Schedule(preempted, scheduled, saves, blocks)
  BY <1>b
<1>1. PICK blocks \in BlockChoices(scheduled) :
        Schedule(preempted, scheduled, saves, blocks)
  BY <1>c
<1>0. preempted \subseteq Request /\ scheduled \subseteq Request
  BY DEF Preemptible, Schedulable
<1>2. /\ Len(saves) \in Nat
      /\ \A i \in 1..Len(saves) : saves[i] \in scheduled
  BY OrderIsSequence
<1> DEFINE fresh == eventId..(eventId + Len(saves) - 1)
<1>3. blocks \in [scheduled -> Block \cup {NoBlock}] /\ (Hybrid => blocks \in [scheduled -> Block])
  BY DEF BlockChoices
<1>4. meta' \in [saves : Seq(Jobs), preempted : SUBSET Request, delayed : SUBSET Request]
  <2>1. \A i \in 1..Len(saves) : NewJob(saves[i], i) \in Jobs
    <3>1. ASSUME NEW i \in 1..Len(saves) PROVE NewJob(saves[i], i) \in Jobs
      <4>1. saves[i] \in Request /\ i \in Nat /\ i >= 1
        BY <1>0, <1>2
      <4>2. life[saves[i]] \in Nat /\ eventId + i - 1 \in Nat
        BY <4>1 DEF TypeInv, TypeOK
      <4>3. QED
        BY <4>1, <4>2 DEF NewJob, Job, Jobs, NoEvent
    <3>2. QED
      BY <3>1
  <2>2. [i \in 1..Len(saves) |-> NewJob(saves[i], i)] \in Seq(Jobs)
    BY <2>1, <1>2
  <2>3. delayedFree' \in SUBSET Request /\ preempted \in SUBSET Request
    BY <1>0, <1>1 DEF Schedule, TypeInv, TypeOK
  <2>4. meta' = [saves |-> [i \in 1..Len(saves) |-> NewJob(saves[i], i)],
                 preempted |-> preempted, delayed |-> delayedFree']
    BY <1>1 DEF Schedule
  <2>5. QED
    BY <2>2, <2>3, <2>4
<1>5. /\ eventId' \in Nat
      /\ DOMAIN sendingEvents' \subseteq 0..(eventId' - 1)
      /\ sendingEvents' \in [DOMAIN sendingEvents' -> Nat]
  BY <1>1, <1>2 DEF Schedule, TypeInv, TypeOK
<1>6. sendingBlocks' \in [DOMAIN sendingEvents' -> SUBSET Block]
  <2>1. CASE Hybrid
    <3>1. \A e \in fresh : e - eventId + 1 \in 1..Len(saves)
      BY <1>2 DEF TypeInv, TypeOK
    <3>2. \A e \in fresh : blocks[saves[e - eventId + 1]] \in Block
      BY <3>1, <2>1, <1>2, <1>3
    <3>3. \A e \in DOMAIN sendingEvents : sendingBlocks[e] \in SUBSET Block
      BY DEF TypeInv, TypeOK
    <3>4. /\ DOMAIN sendingEvents' = DOMAIN sendingEvents \cup fresh
          /\ sendingBlocks' = [e \in DOMAIN sendingEvents \cup fresh |->
                                 IF e \in fresh THEN {blocks[saves[e - eventId + 1]]}
                                 ELSE sendingBlocks[e]]
      BY <1>1, <2>1 DEF Schedule
    <3>5. QED
      BY <3>2, <3>3, <3>4
  <2>2. CASE ~Hybrid
    BY <1>1, <2>2 DEF Schedule, TypeInv, TypeOK
  <2>3. QED
    BY <2>1, <2>2
<1>7. refs' \in [Block -> Int]
  <2>1. IsFiniteSet(fresh)
    BY <1>2, FS_Interval DEF TypeInv, TypeOK
  <2>2. \A b \in Block : Cardinality({e \in fresh : b \in sendingBlocks'[e]}) \in Nat
    BY <2>1, FS_Subset, FS_CardinalityType
  <2>3. \A b \in Block : Owners(own, b) \in Nat /\ Owners(own', b) \in Nat
    BY OwnersNat
  <2>4. refs \in [Block -> Int]
    BY DEF TypeInv, TypeOK
  <2>5. \/ UNCHANGED refs
        \/ refs' = [b \in Block |-> refs[b] - Owners(own, b) + Owners(own', b)
                        + Cardinality({e \in fresh : b \in sendingBlocks'[e]})]
    BY <1>1 DEF Schedule
  <2> DEFINE touched(b) == Cardinality({e \in fresh : b \in sendingBlocks'[e]})
  <2>6. \A b \in Block : touched(b) \in Nat
    BY <2>2
  <2>7. UNCHANGED refs \/
        refs' = [b \in Block |-> refs[b] - Owners(own, b) + Owners(own', b) + touched(b)]
    BY <2>5
  <2> HIDE DEF touched
  <2>8. QED
    BY ONLY <2>3, <2>4, <2>6, <2>7
<1>8. /\ status' \in [Request -> {"waiting", "running", "delayed", "done"}]
      /\ life' \in [Request -> Nat]
      /\ own' \in [Request -> Block \cup {NoBlock}]
      /\ saved' \in [Request -> Nat]
      /\ delayedFree' \in SUBSET Request
      /\ phase' \in {"schedule", "execute"}
      /\ toRun' \in SUBSET Worker
  BY <1>0, <1>1, <1>3 DEF Schedule, TypeInv, TypeOK
<1>9. UNCHANGED <<output, sent, threadVars>>
  BY <1>1 DEF Schedule
<1>10. QED
  BY <1>4, <1>5, <1>6, <1>7, <1>8, <1>9 DEF TypeInv, TypeOK, threadVars

LEMMA RequestFinishedTypeInv ==
  ASSUME NEW r \in Request, TypeInv, RequestFinished(r)
  PROVE  TypeInv'
<1> USE DEF TypeInv, TypeOK, RequestFinished
<1>1. status' \in [Request -> {"waiting", "running", "delayed", "done"}]
  <2>1. status \in [Request -> {"waiting", "running", "delayed", "done"}]
    OBVIOUS
  <2>2. \/ status' = [status EXCEPT ![r] = "delayed"]
        \/ status' = [status EXCEPT ![r] = "done"]
    OBVIOUS
  <2>3. QED
    BY ONLY <2>1, <2>2
<1>2. own' \in [Request -> Block \cup {NoBlock}]
  OBVIOUS
<1>3. refs' \in [Block -> Int]
  OBVIOUS
<1>4. delayedFree' \in SUBSET Request
  OBVIOUS
<1>5. UNCHANGED <<life, saved, eventId, sendingEvents, sendingBlocks, phase, meta,
                  toRun, output, sent, threadVars>>
  OBVIOUS
<1>6. QED
  BY <1>1, <1>2, <1>3, <1>4, <1>5 DEF threadVars

LEMMA UpdateTypeInv == TypeInv /\ Update => TypeInv'
<1> SUFFICES ASSUME TypeInv, Update PROVE TypeInv'
  OBVIOUS
<1>1. CompleteEvents \subseteq DOMAIN sendingEvents
  BY DEF CompleteEvents
<1>2. \A b \in Block : Freed(b) \in Nat
  <2>1. IsFiniteSet(CompleteEvents)
    BY <1>1, EventsFinite, FS_Subset DEF TypeInv
  <2>2. QED
    BY <2>1, FS_Subset, FS_CardinalityType DEF Freed
<1>3. refs' \in [Block -> Int]
  BY <1>2, OwnersNat DEF Update, TypeInv, TypeOK
<1>4. /\ DOMAIN sendingEvents' \subseteq 0..(eventId' - 1)
      /\ sendingEvents' \in [DOMAIN sendingEvents' -> Nat]
      /\ sendingBlocks' \in [DOMAIN sendingEvents' -> SUBSET Block]
  BY ReportCountNat DEF Update, TypeInv, TypeOK
<1>5. /\ status' \in [Request -> {"waiting", "running", "delayed", "done"}]
      /\ own' \in [Request -> Block \cup {NoBlock}]
      /\ delayedFree' \in SUBSET Request
      /\ phase' \in {"schedule", "execute"}
      /\ meta' \in [saves : Seq(Jobs), preempted : SUBSET Request, delayed : SUBSET Request]
      /\ output' \in [Worker -> [done : SUBSET Request, events : SUBSET Nat]]
  BY DEF Update, TypeInv, TypeOK, NoMeta, NoReport
<1>6. sent' \in [Request -> SUBSET Worker]
  BY DEF Update, Reported, TypeInv, TypeOK
<1>7. UNCHANGED <<life, saved, eventId, toRun, threadVars>>
  BY DEF Update
<1>8. QED
  BY <1>3, <1>4, <1>5, <1>6, <1>7 DEF TypeInv, TypeOK, threadVars

LEMMA ExecuteTypeInv ==
  ASSUME NEW w \in Worker, TypeInv, Execute(w)
  PROVE  TypeInv'
<1>1. Registered(w) \in [Request -> Nat \cup {Absent}]
  <2> DEFINE adds(r) == Cardinality({i \in DOMAIN meta.saves : meta.saves[i].req = r})
  <2>1. IsFiniteSet(DOMAIN meta.saves)
    <3>1. DOMAIN meta.saves = 1..Len(meta.saves) /\ Len(meta.saves) \in Int
      BY DEF TypeInv, TypeOK
    <3>2. QED
      BY <3>1, FS_Interval
  <2>2. \A r \in Request : adds(r) \in Nat
    BY <2>1, FS_Subset, FS_CardinalityType
  <2> HIDE DEF adds
  <2>3. Registered(w) = [r \in Request |->
           IF adds(r) = 0 THEN IF r \in meta.preempted THEN Absent ELSE stored[w][r]
           ELSE adds(r) + (IF (IF r \in meta.preempted THEN Absent ELSE stored[w][r]) = Absent
                           THEN 0 ELSE IF r \in meta.preempted THEN Absent ELSE stored[w][r])]
    BY DEF Registered, adds
  <2>4. stored[w] \in [Request -> Nat \cup {Absent}]
    BY DEF TypeInv, TypeOK
  <2>5. QED
    BY <2>2, <2>3, <2>4 DEF Absent
<1>2. queue[w] \o meta.saves \in Seq(Jobs)
  BY DEF TypeInv, TypeOK
<1>3. /\ Known(w) \cap meta.delayed \in SUBSET Request
      /\ Uncollected(w) \in SUBSET Request
      /\ completed[w] \in SUBSET Nat
  BY DEF TypeInv, TypeOK, Known, Uncollected
<1>4. QED
  BY <1>1, <1>2, <1>3 DEF Execute, TypeInv, TypeOK

\* What a step of a sending thread touches, one variable at a time.
LEMMA ThreadTypeInv ==
  ASSUME NEW w \in Worker, TypeInv, Thread(w)
  PROVE  TypeInv'
<1> USE DEF Return, Idle
<1>1. /\ queue[w] \in Seq(Jobs)
      /\ queue[w] # << >> => Head(queue[w]) \in Jobs /\ Tail(queue[w]) \in Seq(Jobs)
      /\ pc[w] # Idle => cur[w] \in Jobs
      /\ stored[w] \in [Request -> Nat \cup {Absent}]
  <2>1. queue[w] \in Seq(Jobs) /\ (pc[w] # Idle => cur[w] \in Jobs)
    BY DEF TypeInv, TypeOK
  <2>2. queue[w] # << >> => Head(queue[w]) \in Jobs /\ Tail(queue[w]) \in Seq(Jobs)
    BY <2>1
  <2>3. QED
    BY <2>1, <2>2 DEF TypeInv, TypeOK
<1>2. UNCHANGED engineVars
  BY DEF Thread, PutReturns, Take, PutDone, PutRaises, Decrement, CheckZero, Delete, Report
<1>3. \A j \in Jobs : Marked(w, j.event) \in SUBSET Nat /\ j.req \in Request
  BY DEF TypeInv, TypeOK, Marked, Jobs
<1>4. completed' \in [Worker -> SUBSET Nat]
  <2>1. completed \in [Worker -> SUBSET Nat]
    BY DEF TypeInv, TypeOK
  <2>2. QED
    BY <1>1, <1>3, <2>1
    DEF Thread, PutReturns, Take, PutDone, PutRaises, Decrement, CheckZero, Delete, Report
<1>5. stored' \in [Worker -> [Request -> Nat \cup {Absent}]]
  <2>1. stored \in [Worker -> [Request -> Nat \cup {Absent}]]
    BY DEF TypeInv, TypeOK
  <2>2. CASE Decrement(w)
    <3>1. cur[w].req \in Request
      BY <1>1, <1>3, <2>2 DEF Decrement
    <3>2. LET n == stored[w][cur[w].req]
          IN  (IF n = Absent THEN Absent ELSE n - 1) \in Nat \cup {Absent}
      BY <1>1, <3>1 DEF Absent
    <3>3. QED
      BY <2>1, <2>2, <3>1, <3>2 DEF Decrement
  <2>3. CASE ~Decrement(w)
    BY <1>1, <1>3, <2>1, <2>3
    DEF Thread, PutReturns, Take, PutDone, PutRaises, CheckZero, Delete, Report
  <2>4. QED
    BY <2>2, <2>3
<1>6. queue' \in [Worker -> Seq(Jobs)]
  <2>1. queue \in [Worker -> Seq(Jobs)]
    BY DEF TypeInv, TypeOK
  <2>2. QED
    BY <1>1, <2>1
    DEF Thread, PutReturns, Take, PutDone, PutRaises, Decrement, CheckZero, Delete, Report
<1>7. /\ pc' \in [Worker -> {Idle, "put", "dec", "check", "delete", "report"}]
      /\ cur' \in [Worker -> Jobs \cup {NoJob}]
      /\ \A v \in Worker : pc'[v] # Idle => cur'[v] \in Jobs
  <2>1. /\ pc \in [Worker -> {Idle, "put", "dec", "check", "delete", "report"}]
        /\ cur \in [Worker -> Jobs \cup {NoJob}]
        /\ \A v \in Worker : pc[v] # Idle => cur[v] \in Jobs
    BY DEF TypeInv, TypeOK
  <2>2. QED
    BY <1>1, <2>1
    DEF Thread, PutReturns, Take, PutDone, PutRaises, Decrement, CheckZero, Delete, Report
<1>8. finished' \in [Worker -> SUBSET Request]
  <2>1. finished \in [Worker -> SUBSET Request]
    BY DEF TypeInv, TypeOK
  <2>2. QED
    BY <1>1, <1>3, <2>1
    DEF Thread, PutReturns, Take, PutDone, PutRaises, Decrement, CheckZero, Delete, Report
<1>9. QED
  BY <1>2, <1>4, <1>5, <1>6, <1>7, <1>8 DEF TypeInv, TypeOK, engineVars

LEMMA NextTypeInv == TypeInv /\ [Next]_vars => TypeInv'
<1>1. ASSUME TypeInv, UNCHANGED vars PROVE TypeInv'
  BY <1>1 DEF TypeInv, TypeOK, vars, engineVars, threadVars
<1>2. QED
  BY <1>1, ScheduleTypeInv, RequestFinishedTypeInv, UpdateTypeInv, ExecuteTypeInv,
     ThreadTypeInv DEF Next

LEMMA TypeInvAlways == Spec => []TypeInv
BY InitTypeInv, NextTypeInv, PTL DEF Spec

\* Every variable keeps its type.
THEOREM TypeCorrect == Spec => []TypeOK
BY TypeInvAlways, PTL DEF TypeInv

-----------------------------------------------------------------------------
(* Events in a sequence of jobs *)

Events(s) == {s[i].event : i \in 1..Len(s)} \ {NoEvent}
DistinctEvents(s) ==
  \A i, j \in 1..Len(s) : s[i].event = s[j].event /\ s[i].event # NoEvent => i = j

\* Taking the head of a queue takes its event and no other.
LEMMA TailEvents ==
  ASSUME NEW s \in Seq(Jobs), s # << >>, DistinctEvents(s)
  PROVE  /\ DistinctEvents(Tail(s))
         /\ Events(Tail(s)) = Events(s) \ {Head(s).event}
         /\ Head(s).event # NoEvent => Head(s).event \in Events(s)
<1>1. /\ Len(s) \in Nat /\ Len(s) >= 1
      /\ Len(Tail(s)) = Len(s) - 1
      /\ Head(s) = s[1]
      /\ \A i \in 1..Len(Tail(s)) : Tail(s)[i] = s[i + 1]
  OBVIOUS
<1>2. DistinctEvents(Tail(s))
  <2>1. \A i \in 1..Len(Tail(s)) : i + 1 \in 1..Len(s) /\ Tail(s)[i] = s[i + 1]
    BY <1>1
  <2>2. SUFFICES ASSUME NEW i \in 1..Len(Tail(s)), NEW j \in 1..Len(Tail(s)),
                        Tail(s)[i].event = Tail(s)[j].event, Tail(s)[i].event # NoEvent
                 PROVE  i = j
    BY DEF DistinctEvents
  <2>3. i + 1 = j + 1
    BY <2>1, <2>2 DEF DistinctEvents
  <2>4. QED
    BY <2>3, <1>1
<1>3. \A e \in Events(Tail(s)) : e \in Events(s) /\ e # Head(s).event
  <2>1. SUFFICES ASSUME NEW i \in 1..Len(Tail(s)), Tail(s)[i].event # NoEvent
                 PROVE  Tail(s)[i].event \in Events(s) /\ Tail(s)[i].event # Head(s).event
    BY DEF Events
  <2>2. i + 1 \in 1..Len(s) /\ Tail(s)[i] = s[i + 1] /\ i + 1 # 1 /\ 1 \in 1..Len(s)
    BY <1>1
  <2>3. QED
    BY <1>1, <2>1, <2>2 DEF Events, DistinctEvents
<1>4. \A e \in Events(s) : e # Head(s).event => e \in Events(Tail(s))
  <2>1. SUFFICES ASSUME NEW i \in 1..Len(s), s[i].event # NoEvent, s[i].event # s[1].event
                 PROVE  s[i].event \in Events(Tail(s))
    BY <1>1 DEF Events
  <2>2. i - 1 \in 1..Len(Tail(s)) /\ Tail(s)[i - 1] = s[i]
    BY <1>1, <2>1
  <2>3. QED
    BY <2>1, <2>2 DEF Events
<1>5. Head(s).event # NoEvent => Head(s).event \in Events(s)
  <2>1. 1 \in 1..Len(s)
    BY <1>1
  <2>2. QED
    BY <1>1, <2>1 DEF Events
<1>6. QED
  BY <1>2, <1>3, <1>4, <1>5

\* Appending jobs with events of their own.
LEMMA ConcatEvents ==
  ASSUME NEW s \in Seq(Jobs), NEW t \in Seq(Jobs)
  PROVE  /\ Events(s \o t) = Events(s) \cup Events(t)
         /\ DistinctEvents(s) /\ DistinctEvents(t) /\ Events(s) \cap Events(t) = {}
              => DistinctEvents(s \o t)
<1>1. /\ Len(s) \in Nat /\ Len(t) \in Nat
      /\ Len(s \o t) = Len(s) + Len(t)
      /\ \A i \in 1..Len(s \o t) : (s \o t)[i] = IF i <= Len(s) THEN s[i] ELSE t[i - Len(s)]
  OBVIOUS
<1>2. \A i \in 1..Len(s \o t) :
        \/ i \in 1..Len(s) /\ (s \o t)[i] = s[i]
        \/ i - Len(s) \in 1..Len(t) /\ (s \o t)[i] = t[i - Len(s)]
  BY <1>1
<1>3. \A i \in 1..Len(s) : i \in 1..Len(s \o t) /\ (s \o t)[i] = s[i]
  BY <1>1
<1>4. \A i \in 1..Len(t) : i + Len(s) \in 1..Len(s \o t) /\ (s \o t)[i + Len(s)] = t[i]
  BY <1>1
<1> HIDE DEF Jobs
<1>5. Events(s \o t) \subseteq Events(s) \cup Events(t)
  BY <1>2 DEF Events
<1>6. Events(s) \subseteq Events(s \o t)
  BY <1>3 DEF Events
<1>7. Events(t) \subseteq Events(s \o t)
  BY <1>4 DEF Events
<1>8. ASSUME DistinctEvents(s), DistinctEvents(t), Events(s) \cap Events(t) = {}
      PROVE  DistinctEvents(s \o t)
  <2>1. SUFFICES ASSUME NEW i \in 1..Len(s \o t), NEW j \in 1..Len(s \o t),
                        (s \o t)[i].event = (s \o t)[j].event,
                        (s \o t)[i].event # NoEvent
                 PROVE  i = j
    BY DEF DistinctEvents
  <2>2. CASE i \in 1..Len(s) /\ j \in 1..Len(s)
    BY <1>3, <1>8, <2>1, <2>2 DEF DistinctEvents
  <2>3. CASE i - Len(s) \in 1..Len(t) /\ j - Len(s) \in 1..Len(t)
    <3>1. (s \o t)[i] = t[i - Len(s)] /\ (s \o t)[j] = t[j - Len(s)]
      BY <1>1, <2>3
    <3>2. i - Len(s) = j - Len(s)
      BY <1>8, <2>1, <2>3, <3>1 DEF DistinctEvents
    <3>3. QED
      BY <1>1, <3>2
  <2>4. CASE i \in 1..Len(s) /\ j - Len(s) \in 1..Len(t)
    <3>1. (s \o t)[i] = s[i] /\ (s \o t)[j] = t[j - Len(s)]
      BY <1>1, <2>4
    <3>2. s[i].event \in Events(s) /\ s[i].event \in Events(t)
      BY <2>1, <2>4, <3>1 DEF Events
    <3>3. QED
      BY <1>8, <3>2
  <2>5. CASE j \in 1..Len(s) /\ i - Len(s) \in 1..Len(t)
    <3>1. (s \o t)[j] = s[j] /\ (s \o t)[i] = t[i - Len(s)]
      BY <1>1, <2>5
    <3>2. s[j].event \in Events(s) /\ s[j].event \in Events(t)
      BY <2>1, <2>5, <3>1 DEF Events
    <3>3. QED
      BY <1>8, <3>2
  <2>6. QED
    BY <1>2, <2>2, <2>3, <2>4, <2>5
<1>9. QED
  BY <1>5, <1>6, <1>7, <1>8
-----------------------------------------------------------------------------
(* The inductive invariant *)

ThreadEvent(w) == IF pc[w] = "put" THEN {cur[w].event} \ {NoEvent} ELSE {}

\* Worker w has every event in one place only.
WorkerInv(w) ==
  /\ DistinctEvents(Backlog(w))
  /\ ThreadEvent(w) \cap Events(Backlog(w)) = {}
  /\ Unmarked(w) \cap (completed[w] \cup output[w].events) = {}
  /\ completed[w] \cap output[w].events = {}
  /\ w \in toRun => output[w].events = {}

\* Between two steps nothing is left to execute or to count.
PhaseInv == phase = "schedule" => toRun = {} /\ \A w \in Worker : output[w].events = {}

EventInv == TypeInv /\ PhaseInv /\ (\A w \in Worker : WorkerInv(w)) /\ EventCountExact

LEMMA BacklogType == ASSUME TypeInv, NEW w \in Worker PROVE Backlog(w) \in Seq(Jobs)
BY DEF TypeInv, TypeOK, Backlog

LEMMA UnmarkedEvents ==
  ASSUME NEW w PROVE Unmarked(w) = Events(Backlog(w)) \cup ThreadEvent(w)
BY DEF Unmarked, Events, ThreadEvent, Copying, Elems

\* Events are numbers below eventId.
LEMMA UnreportedBelow ==
  ASSUME EventInv, NEW w \in Worker
  PROVE  Unreported(w) \subseteq 0..(eventId - 1)
BY DEF EventInv, EventCountExact, TypeInv, TypeOK

\* Moving an event from one place of a worker to another leaves the counts.
LEMMA CountUnchanged ==
  ASSUME EventCountExact, UNCHANGED sendingEvents,
         \A w \in Worker : Unreported(w)' = Unreported(w)
  PROVE  EventCountExact'
<1>1. \A e : {w \in Worker : e \notin Unreported(w)'} = {w \in Worker : e \notin Unreported(w)}
  OBVIOUS
<1>2. QED
  BY <1>1 DEF EventCountExact

LEMMA InitEventInv == Init => EventInv
<1> SUFFICES ASSUME Init PROVE EventInv
  OBVIOUS
<1>1. TypeInv
  BY InitTypeInv
<1>2. ASSUME NEW w \in Worker
      PROVE  Backlog(w) = << >> /\ ThreadEvent(w) = {} /\ completed[w] = {} /\ output[w].events = {}
  BY DEF Init, Backlog, ThreadEvent, NoReport, Idle
<1>3. \A w \in Worker : WorkerInv(w)
  BY <1>2, UnmarkedEvents DEF WorkerInv, DistinctEvents, Events
<1>4. EventCountExact
  BY <1>2, UnmarkedEvents DEF Init, EventCountExact, Unreported, Events
<1>5. PhaseInv
  BY <1>2 DEF PhaseInv, Init
<1>6. QED
  BY <1>1, <1>3, <1>4, <1>5 DEF EventInv

-----------------------------------------------------------------------------
(* Worker steps *)

\* A step of worker w gets through with one event at most.
DropsOne(w) == \/ Unmarked(w)' = Unmarked(w)
               \/ \E e \in Unmarked(w) : Unmarked(w)' = Unmarked(w) \ {e}

LEMMA WorkerUnchanged ==
  ASSUME NEW v \in Worker, WorkerInv(v),
         queue'[v] = queue[v], v \in toRun' <=> v \in toRun, UNCHANGED meta,
         pc'[v] = pc[v], cur'[v] = cur[v],
         completed'[v] = completed[v], output'[v] = output[v]
  PROVE  WorkerInv(v)' /\ Unreported(v)' = Unreported(v) /\ Unmarked(v)' = Unmarked(v)
<1>1. Backlog(v)' = Backlog(v) /\ ThreadEvent(v)' = ThreadEvent(v)
  BY DEF Backlog, ThreadEvent
<1>2. Unmarked(v)' = Unmarked(v)
  BY <1>1, Zenon DEF Unmarked, Copying
<1>3. QED
  BY <1>1, <1>2 DEF WorkerInv, Unreported

LEMMA TailConcat ==
  ASSUME NEW s \in Seq(Jobs), NEW t \in Seq(Jobs), s # << >>
  PROVE  Tail(s) \o t = Tail(s \o t) /\ Head(s \o t) = Head(s) /\ s \o t # << >>
<1> HIDE DEF Jobs
<1>1. QED
  OBVIOUS

\* Taking a job moves its event from the backlog to the thread, or marks it.
LEMMA TakeMoves ==
  ASSUME EventInv, NEW w \in Worker, Take(w)
  PROVE  WorkerInv(w)' /\ Unreported(w)' = Unreported(w) /\ DropsOne(w)
<1> DEFINE b == Backlog(w)
           e == Head(queue[w]).event
<1>0. b = Backlog(w)
  OBVIOUS
<1>1. /\ b \in Seq(Jobs) /\ b # << >> /\ Head(b) = Head(queue[w])
      /\ Backlog(w)' = Tail(b)
  <2> DEFINE t == IF w \in toRun THEN meta.saves ELSE << >>
  <2>1. queue[w] \in Seq(Jobs) /\ t \in Seq(Jobs) /\ queue[w] # << >>
    BY DEF Take, EventInv, TypeInv, TypeOK
  <2>2. Tail(queue[w]) \o t = Tail(queue[w] \o t) /\ Head(queue[w] \o t) = Head(queue[w])
        /\ queue[w] \o t # << >>
    BY <2>1, TailConcat
  <2>3. queue'[w] = Tail(queue[w]) /\ UNCHANGED <<toRun, meta>>
    BY DEF Take, engineVars, EventInv, TypeInv, TypeOK
  <2>4. QED
    BY <2>2, <2>3, BacklogType DEF Backlog, EventInv
<1>2. /\ DistinctEvents(Tail(b))
      /\ Events(Tail(b)) = Events(b) \ {e}
      /\ e # NoEvent => e \in Events(b)
  <2>1. DistinctEvents(b)
    BY DEF EventInv, WorkerInv
  <2> HIDE DEF b
  <2>2. QED
    BY <1>1, <2>1, TailEvents
<1>3. /\ ThreadEvent(w) = {}
      /\ Unmarked(w) = Events(b)
      /\ Unmarked(w)' = Events(Tail(b)) \cup ThreadEvent(w)'
  <2>1. ThreadEvent(w) = {}
    BY DEF Take, ThreadEvent, Idle
  <2>2. Unmarked(w)' = Events(Backlog(w)') \cup ThreadEvent(w)'
    BY UnmarkedEvents DEF Unmarked, Events, ThreadEvent, Copying, Elems
  <2>3. QED
    BY <2>1, <2>2, <1>1, UnmarkedEvents
<1>4. output'[w] = output[w] /\ (w \in toRun' <=> w \in toRun)
  BY DEF Take, engineVars
<1>5. CASE stored[w][Head(queue[w]).req] = Absent
  <2>1. ThreadEvent(w)' = {}
    BY <1>5 DEF Take, ThreadEvent, Idle
  <2>2. completed'[w] = IF e = NoEvent THEN completed[w] ELSE completed[w] \cup {e}
    BY <1>5 DEF Take, Marked, EventInv, TypeInv, TypeOK
  <2>3. NoEvent \notin Events(b)
    BY DEF Events
  <2> HIDE DEF b, e
  <2>4. Unmarked(w)' = IF e = NoEvent THEN Unmarked(w) ELSE Unmarked(w) \ {e}
    BY <1>2, <1>3, <2>1, <2>3
  <2>5. DropsOne(w)
    BY <1>2, <1>3, <2>4 DEF DropsOne
  <2>6. QED
    BY <1>1, <1>2, <1>3, <1>4, <2>1, <2>2, <2>3, <2>5, <1>0
    DEF WorkerInv, Unreported, EventInv
<1>6. CASE stored[w][Head(queue[w]).req] # Absent
  <2>1. ThreadEvent(w)' = {e} \ {NoEvent} /\ completed'[w] = completed[w]
    BY <1>6 DEF Take, ThreadEvent, EventInv, TypeInv, TypeOK
  <2>2. NoEvent \notin Events(b)
    BY DEF Events
  <2> HIDE DEF b, e
  <2>3. QED
    BY <1>1, <1>2, <1>3, <1>4, <2>1, <2>2, <1>0
    DEF WorkerInv, Unreported, DropsOne, EventInv
<1>7. QED
  BY <1>5, <1>6

\* The finally clause marks the event of the job in hand.
LEMMA PutMoves ==
  ASSUME EventInv, NEW w \in Worker, PutReturns(w)
  PROVE  WorkerInv(w)' /\ Unreported(w)' = Unreported(w) /\ DropsOne(w)
<1>1. /\ Backlog(w)' = Backlog(w)
      /\ output'[w] = output[w] /\ (w \in toRun' <=> w \in toRun)
  BY DEF PutReturns, PutDone, PutRaises, Backlog, engineVars
<1>2. ThreadEvent(w)' = {}
  BY DEF PutReturns, PutDone, PutRaises, Return, ThreadEvent, Idle, EventInv, TypeInv, TypeOK
<1>3. completed'[w] = completed[w] \cup ThreadEvent(w)
  BY DEF PutReturns, PutDone, PutRaises, Marked, ThreadEvent, EventInv, TypeInv, TypeOK
<1>4. Unmarked(w)' = Events(Backlog(w))
  <2>1. Unmarked(w)' = Events(Backlog(w)') \cup ThreadEvent(w)'
    BY UnmarkedEvents DEF Unmarked, Events, ThreadEvent, Copying, Elems
  <2>2. QED
    BY <2>1, <1>1, <1>2
<1>5. Unmarked(w) = Events(Backlog(w)) \cup ThreadEvent(w)
  BY UnmarkedEvents
<1>6. ThreadEvent(w) \cap Events(Backlog(w)) = {}
  BY DEF EventInv, WorkerInv
<1>7. DropsOne(w)
  <2>1. ThreadEvent(w) = {} \/ ThreadEvent(w) = {cur[w].event}
    BY DEF ThreadEvent
  <2>2. Unmarked(w)' = Unmarked(w) \ ThreadEvent(w) /\ ThreadEvent(w) \subseteq Unmarked(w)
    BY <1>4, <1>5, <1>6
  <2>3. QED
    BY <2>1, <2>2 DEF DropsOne
<1>8. QED
  BY <1>1, <1>2, <1>3, <1>4, <1>5, <1>7 DEF WorkerInv, Unreported, EventInv

\* The rest of the handler has nothing to do with events.
LEMMA HandlerKeeps ==
  ASSUME EventInv, NEW w \in Worker,
         Decrement(w) \/ CheckZero(w) \/ Delete(w) \/ Report(w)
  PROVE  WorkerInv(w)' /\ Unreported(w)' = Unreported(w) /\ DropsOne(w)
<1>1. /\ Backlog(w)' = Backlog(w)
      /\ output'[w] = output[w] /\ (w \in toRun' <=> w \in toRun)
      /\ completed'[w] = completed[w]
  BY DEF Decrement, CheckZero, Delete, Report, Backlog, engineVars
<1>2. ThreadEvent(w)' = {} /\ ThreadEvent(w) = {}
  BY DEF Decrement, CheckZero, Delete, Report, Return, ThreadEvent, Idle,
         EventInv, TypeInv, TypeOK
<1>3. Unmarked(w)' = Events(Backlog(w)') \cup ThreadEvent(w)'
  BY UnmarkedEvents DEF Unmarked, Events, ThreadEvent, Copying, Elems
<1>4. Unmarked(w)' = Unmarked(w)
  BY <1>1, <1>2, <1>3, UnmarkedEvents
<1>5. QED
  BY <1>1, <1>2, <1>4 DEF WorkerInv, Unreported, DropsOne, EventInv

LEMMA ThreadEventInv ==
  ASSUME EventInv, NEW w \in Worker, Thread(w)
  PROVE  EventInv'
<1>1. /\ UNCHANGED engineVars
      /\ \A v \in Worker \ {w} : /\ queue'[v] = queue[v]
                                 /\ pc'[v] = pc[v] /\ cur'[v] = cur[v]
                                 /\ completed'[v] = completed[v]
  BY DEF Thread, PutReturns, Take, PutDone, PutRaises, Decrement, CheckZero, Delete, Report,
         Return, EventInv, TypeInv, TypeOK
<1>2. \A v \in Worker \ {w} : WorkerInv(v)' /\ Unreported(v)' = Unreported(v)
  BY <1>1, WorkerUnchanged DEF engineVars, EventInv
<1>3. WorkerInv(w)' /\ Unreported(w)' = Unreported(w)
  BY TakeMoves, PutMoves, HandlerKeeps DEF Thread
<1>4. EventCountExact'
  BY <1>1, <1>2, <1>3, CountUnchanged DEF engineVars, EventInv
<1>5. PhaseInv'
  BY <1>1 DEF PhaseInv, engineVars, EventInv
<1>6. QED
  BY <1>2, <1>3, <1>4, <1>5, ThreadTypeInv DEF EventInv

\* Executing moves the saves of the step into the queue, where they already
\* counted, and the completed events into the output.
LEMMA ExecuteMoves ==
  ASSUME EventInv, NEW w \in Worker, Execute(w)
  PROVE  \A v \in Worker : WorkerInv(v)' /\ Unreported(v)' = Unreported(v) /\ Unmarked(v)' = Unmarked(v)
<1>1. \A v \in Worker \ {w} :
        WorkerInv(v)' /\ Unreported(v)' = Unreported(v) /\ Unmarked(v)' = Unmarked(v)
  <2>1. ASSUME NEW v \in Worker \ {w}
        PROVE  /\ queue'[v] = queue[v] /\ (v \in toRun' <=> v \in toRun)
               /\ UNCHANGED <<meta, pc, cur>>
               /\ completed'[v] = completed[v] /\ output'[v] = output[v]
    BY DEF Execute, EventInv, TypeInv, TypeOK
  <2>2. QED
    BY <2>1, WorkerUnchanged DEF EventInv
<1>2. Backlog(w)' = Backlog(w)
  <2>1. queue'[w] = queue[w] \o meta.saves /\ w \in toRun /\ w \notin toRun'
    BY DEF Execute, EventInv, TypeInv, TypeOK
  <2>2. queue[w] \o meta.saves \in Seq(Jobs)
    BY DEF EventInv, TypeInv, TypeOK
  <2> HIDE DEF Jobs
  <2>3. (queue[w] \o meta.saves) \o << >> = queue[w] \o meta.saves
    BY <2>2
  <2>4. QED
    BY <2>1, <2>3 DEF Backlog
<1>3. /\ output'[w].events = completed[w] /\ completed'[w] = {}
      /\ output[w].events = {} /\ w \notin toRun' /\ ThreadEvent(w)' = ThreadEvent(w)
  BY DEF Execute, ThreadEvent, WorkerInv, EventInv, TypeInv, TypeOK
<1>4. Unmarked(w)' = Unmarked(w)
  <2>1. Unmarked(w)' = Events(Backlog(w)') \cup ThreadEvent(w)'
    BY UnmarkedEvents DEF Unmarked, Events, ThreadEvent, Copying, Elems
  <2>2. QED
    BY <2>1, <1>2, <1>3, UnmarkedEvents
<1>5. WorkerInv(w)' /\ Unreported(w)' = Unreported(w)
  BY <1>2, <1>3, <1>4 DEF WorkerInv, Unreported, DropsOne, EventInv
<1>6. QED
  BY <1>1, <1>4, <1>5

LEMMA ExecuteEventInv ==
  ASSUME EventInv, NEW w \in Worker, Execute(w)
  PROVE  EventInv'
<1>1. \A v \in Worker : WorkerInv(v)' /\ Unreported(v)' = Unreported(v)
  BY ExecuteMoves
<1>2. EventCountExact'
  BY <1>1, CountUnchanged DEF Execute, EventInv
<1>3. PhaseInv'
  BY DEF PhaseInv, Execute
<1>4. QED
  BY <1>1, <1>2, <1>3, ExecuteTypeInv DEF EventInv

-----------------------------------------------------------------------------
(* Scheduler steps *)

\* A step gives its saves the next events, or none at all.
Fresh == eventId..(eventId' - 1)
IssueStep ==
  /\ eventId' \in Nat /\ eventId' >= eventId
  /\ meta'.saves \in Seq(Jobs)
  /\ DistinctEvents(meta.saves)'
  /\ Events(meta.saves)' = Fresh
  /\ DOMAIN sendingEvents' = DOMAIN sendingEvents \cup Fresh
  /\ \A e \in DOMAIN sendingEvents' :
       sendingEvents'[e] = IF e \in Fresh THEN 0 ELSE sendingEvents[e]
  /\ phase = "schedule" /\ phase' = "execute" /\ toRun' = Worker
  /\ UNCHANGED <<output, threadVars>>

LEMMA ScheduleIssues ==
  ASSUME EventInv, ScheduleStep
  PROVE  IssueStep
<1>a. PICK preempted \in SUBSET Preemptible :
        \E scheduled \in SUBSET (Schedulable \ preempted) :
        \E saves \in Orders(scheduled) :
        \E blocks \in BlockChoices(scheduled) :
          Schedule(preempted, scheduled, saves, blocks)
  BY DEF ScheduleStep
<1>b. PICK scheduled \in SUBSET (Schedulable \ preempted) :
        \E saves \in Orders(scheduled) :
        \E blocks \in BlockChoices(scheduled) :
          Schedule(preempted, scheduled, saves, blocks)
  BY <1>a
<1>c. PICK saves \in Orders(scheduled) :
        \E blocks \in BlockChoices(scheduled) :
          Schedule(preempted, scheduled, saves, blocks)
  BY <1>b
<1>1. PICK blocks \in BlockChoices(scheduled) :
        Schedule(preempted, scheduled, saves, blocks)
  BY <1>c
<1> DEFINE n == Len(saves)
           fresh == IF Hybrid THEN eventId..(eventId + n - 1) ELSE {}
           jobs == meta'.saves
<1>2. n \in Nat /\ eventId \in Nat
  BY OrderIsSequence DEF EventInv, TypeInv, TypeOK
<1>3. eventId' \in Nat /\ eventId' >= eventId /\ fresh = Fresh
  BY <1>1, <1>2 DEF Schedule, Fresh
<1>4. jobs \in Seq(Jobs)
  <2>1. TypeInv'
    BY ScheduleTypeInv DEF EventInv
  <2>2. QED
    BY <2>1 DEF TypeInv, TypeOK
<1>5. Len(jobs) = n /\ \A i \in 1..n : jobs[i].event = IF Hybrid THEN eventId + i - 1 ELSE NoEvent
  <2>1. jobs = [i \in 1..n |-> NewJob(saves[i], i)]
    BY <1>1 DEF Schedule
  <2>2. QED
    BY <2>1, <1>2 DEF NewJob, Job
<1>6. DistinctEvents(jobs)
  BY <1>2, <1>5 DEF DistinctEvents
<1>7. Events(jobs) = fresh
  <2>1. CASE Hybrid
    <3>1. \A e \in fresh : e - eventId + 1 \in 1..n /\ eventId + (e - eventId + 1) - 1 = e /\ e # NoEvent
      BY <1>2, <2>1 DEF NoEvent
    <3>2. \A i \in 1..n : eventId + i - 1 \in fresh
      BY <1>2, <2>1
    <3> HIDE DEF fresh, jobs, n
    <3>3. QED
      BY <1>5, <2>1, <3>1, <3>2 DEF Events
  <2>2. CASE ~Hybrid
    BY <1>5, <2>2 DEF Events
  <2>3. QED
    BY <2>1, <2>2
<1>8. /\ DOMAIN sendingEvents' = DOMAIN sendingEvents \cup fresh
      /\ \A e \in DOMAIN sendingEvents' :
           sendingEvents'[e] = IF e \in fresh THEN 0 ELSE sendingEvents[e]
  BY <1>1 DEF Schedule
<1>9. phase = "schedule" /\ phase' = "execute" /\ toRun' = Worker /\ UNCHANGED <<output, threadVars>>
  BY <1>1 DEF Schedule
<1>10. DistinctEvents(meta.saves)' /\ Events(meta.saves)' = fresh
  BY <1>6, <1>7 DEF DistinctEvents, Events
<1> HIDE DEF fresh, n
<1>11. QED
  BY <1>3, <1>4, <1>8, <1>9, <1>10 DEF IssueStep

\* Every worker then has the fresh events, and they are all new to it.
LEMMA IssueAdds ==
  ASSUME EventInv, IssueStep, NEW w \in Worker
  PROVE  /\ WorkerInv(w)'
         /\ Unmarked(w)' = Unmarked(w) \cup Fresh
         /\ Unreported(w)' = Unreported(w) \cup Fresh
         /\ Unreported(w) \cap Fresh = {}
<1>1. Unreported(w) \cap Fresh = {}
  <2>1. eventId \in Nat /\ Unreported(w) \subseteq 0..(eventId - 1)
    BY UnreportedBelow DEF EventInv, TypeInv, TypeOK
  <2>2. QED
    BY <2>1 DEF Fresh
<1>2. /\ toRun = {} /\ output[w].events = {}
      /\ queue[w] \in Seq(Jobs)
  BY DEF IssueStep, PhaseInv, EventInv, TypeInv, TypeOK
<1>3. Backlog(w) = queue[w]
  <2> HIDE DEF Jobs
  <2>1. queue[w] \o << >> = queue[w]
    BY <1>2
  <2>2. QED
    BY <1>2, <2>1 DEF Backlog
<1>4. Backlog(w)' = queue[w] \o meta'.saves
  BY DEF IssueStep, Backlog, threadVars
<1>5. Unmarked(w) = Events(queue[w]) \cup ThreadEvent(w) /\ DistinctEvents(queue[w])
  BY <1>3, UnmarkedEvents DEF EventInv, WorkerInv
<1>6. Events(queue[w]) \cap Fresh = {}
  BY <1>1, <1>5 DEF Unreported
<1>7. /\ Events(queue[w] \o meta'.saves) = Events(queue[w]) \cup Fresh
      /\ DistinctEvents(queue[w] \o meta'.saves)
  <2>1. Events(meta'.saves) = Fresh /\ DistinctEvents(meta'.saves)
    BY DEF IssueStep, Events, DistinctEvents
  <2>2. QED
    BY <1>2, <1>5, <1>6, <2>1, ConcatEvents DEF IssueStep
<1>8. /\ ThreadEvent(w)' = ThreadEvent(w)
      /\ completed'[w] = completed[w] /\ output'[w].events = {}
  BY <1>2 DEF IssueStep, ThreadEvent, threadVars
<1>9. Unmarked(w)' = Events(Backlog(w)') \cup ThreadEvent(w)'
  BY UnmarkedEvents DEF Unmarked, Events, ThreadEvent, Copying, Elems
<1>10. Unmarked(w)' = Unmarked(w) \cup Fresh
  BY <1>4, <1>5, <1>7, <1>8, <1>9
<1>11. Unreported(w)' = Unreported(w) \cup Fresh
  BY <1>2, <1>8, <1>10 DEF Unreported
<1>12. DistinctEvents(Backlog(w))'
  <2>1. DistinctEvents(Backlog(w)')
    BY <1>4, <1>7
  <2>2. QED
    BY <2>1 DEF DistinctEvents
<1>13. (ThreadEvent(w) \cap Events(Backlog(w)))' = {}
  <2>1. ThreadEvent(w)' \cap Events(Backlog(w)') = {}
    BY <1>1, <1>3, <1>4, <1>5, <1>7, <1>8 DEF Unreported, EventInv, WorkerInv
  <2>2. QED
    BY <2>1 DEF Events
<1>14. QED
  BY <1>1, <1>2, <1>8, <1>10, <1>11, <1>12, <1>13 DEF Unreported, WorkerInv, EventInv

LEMMA ScheduleEventInv == EventInv /\ ScheduleStep => EventInv'
<1> SUFFICES ASSUME EventInv, ScheduleStep PROVE EventInv'
  OBVIOUS
<1>1. IssueStep
  BY ScheduleIssues
<1>2. ASSUME NEW w \in Worker
      PROVE  /\ WorkerInv(w)'
             /\ Unreported(w)' = Unreported(w) \cup Fresh
             /\ Unreported(w) \cap Fresh = {}
  BY <1>1, IssueAdds
<1>3. EventCountExact'
  <2>1. \A w \in Worker : Unreported(w)' \subseteq DOMAIN sendingEvents'
    BY <1>1, <1>2 DEF IssueStep, EventInv, EventCountExact
  <2>2. ASSUME NEW e \in DOMAIN sendingEvents'
        PROVE  /\ sendingEvents'[e] = Cardinality({w \in Worker : e \notin Unreported(w)'})
               /\ sendingEvents'[e] < Cardinality(Worker)
    <3>1. CASE e \in Fresh
      <4>1. {w \in Worker : e \notin Unreported(w)'} = {}
        BY <1>2, <3>1
      <4>2. Cardinality({}) = 0 /\ Cardinality(Worker) \in Nat /\ Cardinality(Worker) # 0
        BY StorePathAssumption, FS_EmptySet, FS_CardinalityType
      <4>3. sendingEvents'[e] = 0
        BY <1>1, <3>1 DEF IssueStep
      <4>4. QED
        BY <4>1, <4>2, <4>3
    <3>2. CASE e \notin Fresh
      <4>1. {w \in Worker : e \notin Unreported(w)'} = {w \in Worker : e \notin Unreported(w)}
        BY <1>2, <3>2
      <4>2. e \in DOMAIN sendingEvents /\ sendingEvents'[e] = sendingEvents[e]
        BY <1>1, <3>2 DEF IssueStep
      <4>3. QED
        BY <4>1, <4>2 DEF EventInv, EventCountExact
    <3>3. QED
      BY <3>1, <3>2
  <2>3. QED
    BY <2>1, <2>2 DEF EventCountExact
<1>4. PhaseInv'
  BY <1>1 DEF IssueStep, PhaseInv
<1>5. QED
  BY <1>2, <1>3, <1>4, ScheduleTypeInv DEF EventInv

LEMMA RequestFinishedEventInv ==
  ASSUME EventInv, NEW r \in Request, RequestFinished(r)
  PROVE  EventInv'
<1>1. UNCHANGED <<sendingEvents, toRun, meta, output, phase, threadVars>>
  BY DEF RequestFinished
<1>2. \A w \in Worker : WorkerInv(w)' /\ Unreported(w)' = Unreported(w)
  BY <1>1, WorkerUnchanged DEF threadVars, EventInv
<1>3. EventCountExact'
  BY <1>1, <1>2, CountUnchanged DEF EventInv
<1>4. PhaseInv'
  BY <1>1 DEF PhaseInv, EventInv
<1>5. QED
  BY <1>2, <1>3, <1>4, RequestFinishedTypeInv DEF EventInv

\* The workers that are through with event e after the reports of the step
\* are those that were before and those that report it now.
LEMMA ThroughCount ==
  ASSUME EventInv, Update, NEW e \in DOMAIN sendingEvents
  PROVE  Cardinality({w \in Worker : e \notin Unmarked(w) \cup completed[w]})
           = sendingEvents[e] + ReportCount(e)
<1> DEFINE now    == {w \in Worker : e \in output[w].events}
           before == {w \in Worker : e \notin Unreported(w)}
           after  == {w \in Worker : e \notin Unmarked(w) \cup completed[w]}
<1>1. IsFiniteSet(now) /\ IsFiniteSet(before)
  BY StorePathAssumption, FS_Subset
<1>2. after = before \cup now /\ before \cap now = {}
  <2>1. \A w \in Worker : (Unmarked(w) \cup completed[w]) \cap output[w].events = {}
    BY DEF EventInv, WorkerInv
  <2>2. QED
    BY <2>1 DEF Unreported
<1>3. Cardinality(before) = sendingEvents[e] /\ Cardinality(now) = ReportCount(e)
  BY DEF EventInv, EventCountExact, ReportCount
<1>4. Cardinality({}) = 0
  BY FS_EmptySet
<1>5. Cardinality(before \cup now) = Cardinality(before) + Cardinality(now) - Cardinality(before \cap now)
  BY <1>1, FS_Union, Zenon
<1>6. sendingEvents[e] \in Nat /\ ReportCount(e) \in Nat
  BY ReportCountNat DEF EventInv, TypeInv, TypeOK
<1> HIDE DEF now, before, after
<1>7. Cardinality(after) = Cardinality(before) + Cardinality(now) - 0
  BY ONLY <1>2, <1>4, <1>5
<1>8. Cardinality(after) = sendingEvents[e] + ReportCount(e)
  BY ONLY <1>3, <1>6, <1>7
<1>9. QED
  BY <1>8 DEF after

LEMMA UpdateEventInv == EventInv /\ Update => EventInv'
<1> SUFFICES ASSUME EventInv, Update PROVE EventInv'
  OBVIOUS
<1>1. ASSUME NEW w \in Worker
      PROVE  /\ output'[w].events = {} /\ completed'[w] = completed[w]
             /\ Backlog(w)' = Backlog(w)
             /\ ThreadEvent(w)' = ThreadEvent(w)
             /\ Unmarked(w)' = Unmarked(w)
             /\ Unreported(w)' = Unmarked(w) \cup completed[w]
  <2>1. output'[w].events = {} /\ completed'[w] = completed[w]
    BY DEF Update, NoReport, threadVars
  <2>2. Backlog(w)' = Backlog(w) /\ ThreadEvent(w)' = ThreadEvent(w)
    BY DEF Update, Backlog, ThreadEvent, threadVars
  <2>3. Unmarked(w)' = Events(Backlog(w)') \cup ThreadEvent(w)'
    BY UnmarkedEvents DEF Unmarked, Events, ThreadEvent, Copying, Elems
  <2>4. Unmarked(w)' = Unmarked(w)
    BY <2>2, <2>3, UnmarkedEvents
  <2>5. QED
    BY <2>1, <2>2, <2>4 DEF Unreported
<1>2. \A w \in Worker : WorkerInv(w)'
  BY <1>1 DEF WorkerInv, EventInv
<1>3. /\ DOMAIN sendingEvents' = DOMAIN sendingEvents \ CompleteEvents
      /\ \A e \in DOMAIN sendingEvents' : sendingEvents'[e] = sendingEvents[e] + ReportCount(e)
  BY DEF Update
<1>4. ASSUME NEW e \in DOMAIN sendingEvents
      PROVE  {w \in Worker : e \notin Unreported(w)'}
               = {w \in Worker : e \notin Unmarked(w) \cup completed[w]}
  BY <1>1
<1>5. \A w \in Worker : Unreported(w)' \subseteq DOMAIN sendingEvents'
  <2>1. SUFFICES ASSUME NEW w \in Worker, NEW e \in Unreported(w)'
                 PROVE  e \notin CompleteEvents /\ e \in DOMAIN sendingEvents
    BY <1>3
  <2>2. e \in Unmarked(w) \cup completed[w] /\ e \in DOMAIN sendingEvents
    BY <1>1, <2>1 DEF EventInv, EventCountExact, Unreported
  <2> DEFINE through == {v \in Worker : e \notin Unmarked(v) \cup completed[v]}
  <2>3. through \in SUBSET Worker /\ through # Worker
    BY <2>2
  <2>4. IsFiniteSet(Worker) /\ Cardinality(Worker) \in Nat
    BY StorePathAssumption, FS_CardinalityType
  <2>5. Cardinality(through) < Cardinality(Worker)
    <3> HIDE DEF through
    <3>1. /\ IsFiniteSet(through)
          /\ Cardinality(through) <= Cardinality(Worker)
          /\ Cardinality(Worker) = Cardinality(through) => Worker = through
      BY <2>3, <2>4, FS_Subset
    <3>2. Cardinality(through) \in Nat
      BY <3>1, FS_CardinalityType
    <3>3. QED
      BY ONLY <2>3, <2>4, <3>1, <3>2
  <2>6. Cardinality(through) = sendingEvents[e] + ReportCount(e)
    BY <2>2, ThroughCount
  <2>7. sendingEvents[e] + ReportCount(e) < Cardinality(Worker)
    BY <2>5, <2>6
  <2>8. sendingEvents[e] + ReportCount(e) \in Nat
    BY <2>2, ReportCountNat DEF EventInv, TypeInv, TypeOK
  <2>9. QED
    BY <2>2, <2>4, <2>7, <2>8 DEF CompleteEvents
<1>6. ASSUME NEW e \in DOMAIN sendingEvents'
      PROVE  /\ sendingEvents'[e] = Cardinality({w \in Worker : e \notin Unreported(w)'})
             /\ sendingEvents'[e] < Cardinality(Worker)
  <2>1. e \in DOMAIN sendingEvents /\ e \notin CompleteEvents
    BY <1>3
  <2>2. sendingEvents'[e] = Cardinality({w \in Worker : e \notin Unreported(w)'})
    BY <2>1, <1>3, <1>4, ThroughCount
  <2>3. /\ sendingEvents[e] \in Nat /\ ReportCount(e) \in Nat /\ Cardinality(Worker) \in Nat
        /\ sendingEvents[e] < Cardinality(Worker)
    BY <2>1, ReportCountNat, StorePathAssumption, FS_CardinalityType
    DEF EventInv, EventCountExact, TypeInv, TypeOK
  <2>4. sendingEvents[e] + ReportCount(e) < Cardinality(Worker)
    BY <2>1, <2>3 DEF CompleteEvents
  <2>5. QED
    BY <1>3, <2>2, <2>4
<1>7. EventCountExact'
  BY <1>5, <1>6 DEF EventCountExact
<1>8. PhaseInv'
  <2>1. toRun' = {}
    BY DEF Update
  <2>2. QED
    BY <1>1, <2>1 DEF PhaseInv
<1>9. QED
  BY <1>2, <1>7, <1>8, UpdateTypeInv DEF EventInv

-----------------------------------------------------------------------------
(* The theorems *)

LEMMA NextEventInv == EventInv /\ [Next]_vars => EventInv'
<1>1. ASSUME EventInv, UNCHANGED vars PROVE EventInv'
  <2>1. TypeInv'
    BY <1>1, NextTypeInv DEF EventInv
  <2>2. \A w \in Worker : WorkerInv(w)' /\ Unreported(w)' = Unreported(w)
    BY <1>1, WorkerUnchanged DEF vars, engineVars, threadVars, EventInv
  <2>3. EventCountExact'
    BY <1>1, <2>2, CountUnchanged DEF vars, engineVars, EventInv
  <2>4. PhaseInv'
    BY <1>1 DEF PhaseInv, vars, engineVars, EventInv
  <2>5. QED
    BY <2>1, <2>2, <2>3, <2>4 DEF EventInv
<1>2. QED
  BY <1>1, ScheduleEventInv, RequestFinishedEventInv, UpdateEventInv, ExecuteEventInv,
     ThreadEventInv DEF Next

LEMMA EventInvAlways == Spec => []EventInv
BY InitEventInv, NextEventInv, PTL DEF Spec

\* update_connector_output counts every worker exactly once per event.
THEOREM EventsCountedExactly == Spec => []EventCountExact
BY EventInvAlways, PTL DEF EventInv

\* An event, and with it the state blocks it keeps, outlives every copy.
THEOREM EventsHeld == Spec => []EventsHeldUntilCopied
<1>1. EventInv => EventsHeldUntilCopied
  BY DEF EventInv, EventCountExact, EventsHeldUntilCopied, Unreported
<1>2. QED
  BY <1>1, EventInvAlways, PTL

-----------------------------------------------------------------------------
(* Reference counts *)

KeptBy(E, b) == {e \in E : b \in sendingBlocks[e]}

\* Without Mamba groups no request references a state block.
RefInv == TypeInv /\ (~Hybrid => own = [r \in Request |-> NoBlock]) /\ RefCountsExact

\* Splitting a finite set in two adds up.
LEMMA SplitCount ==
  ASSUME NEW S, NEW T, IsFiniteSet(S), IsFiniteSet(T), S \cap T = {}
  PROVE  Cardinality(S \cup T) = Cardinality(S) + Cardinality(T)
<1>1. Cardinality(S \cup T) = Cardinality(S) + Cardinality(T) - Cardinality(S \cap T)
  BY FS_Union
<1>2. Cardinality({}) = 0 /\ Cardinality(S) \in Nat /\ Cardinality(T) \in Nat
  BY FS_EmptySet, FS_CardinalityType
<1>3. Cardinality(S \cap T) = 0
  BY <1>2
<1>4. QED
  BY ONLY <1>1, <1>2, <1>3

LEMMA InitRefInv == Init => RefInv
<1> SUFFICES ASSUME Init PROVE RefInv
  OBVIOUS
<1>1. ASSUME NEW b \in Block
      PROVE  {r \in Request : own[r] = b} = {} /\ KeptBy(DOMAIN sendingEvents, b) = {}
  BY StorePathAssumption DEF Init, KeptBy
<1>2. Cardinality({}) = 0
  BY FS_EmptySet
<1>3. ASSUME NEW b \in Block
      PROVE  refs[b] = 0 /\ Owners(own, b) = 0 /\ Cardinality(KeptBy(DOMAIN sendingEvents, b)) = 0
  BY <1>1, <1>2 DEF Owners, Init
<1>4. RefCountsExact
  BY <1>3 DEF RefCountsExact, KeptBy
<1>5. QED
  BY <1>4, InitTypeInv DEF RefInv, Init

\* A step touches the blocks of its fresh events once each.
LEMMA ScheduleRefInv == RefInv /\ ScheduleStep => RefInv'
<1> SUFFICES ASSUME RefInv, ScheduleStep PROVE RefInv'
  OBVIOUS
<1>a. PICK preempted \in SUBSET Preemptible :
        \E scheduled \in SUBSET (Schedulable \ preempted) :
        \E saves \in Orders(scheduled) :
        \E blocks \in BlockChoices(scheduled) :
          Schedule(preempted, scheduled, saves, blocks)
  BY DEF ScheduleStep
<1>b. PICK scheduled \in SUBSET (Schedulable \ preempted) :
        \E saves \in Orders(scheduled) :
        \E blocks \in BlockChoices(scheduled) :
          Schedule(preempted, scheduled, saves, blocks)
  BY <1>a
<1>c. PICK saves \in Orders(scheduled) :
        \E blocks \in BlockChoices(scheduled) :
          Schedule(preempted, scheduled, saves, blocks)
  BY <1>b
<1>1. PICK blocks \in BlockChoices(scheduled) :
        Schedule(preempted, scheduled, saves, blocks)
  BY <1>c
<1>2. TypeInv'
  BY ScheduleTypeInv DEF RefInv
<1>3. CASE ~Hybrid
  <2>1. own' = [r \in Request |-> NoBlock]
    BY <1>1, <1>3 DEF Schedule, BlockChoices, RefInv
  <2>2. own' = own
    BY <2>1, <1>3 DEF RefInv
  <2>3. UNCHANGED <<refs, sendingEvents, sendingBlocks>>
    BY <1>1, <1>3 DEF Schedule
  <2>4. RefCountsExact'
    BY <2>2, <2>3 DEF RefCountsExact, Owners, RefInv
  <2>5. QED
    BY <1>2, <2>1, <2>4 DEF RefInv
<1>4. CASE Hybrid
  <2> DEFINE new == eventId..(eventId + Len(saves) - 1)
  <2>1. /\ DOMAIN sendingEvents' = DOMAIN sendingEvents \cup new
        /\ \A e \in DOMAIN sendingEvents \ new : sendingBlocks'[e] = sendingBlocks[e]
        /\ \A b \in Block : refs'[b] = refs[b] - Owners(own, b) + Owners(own', b)
                              + Cardinality({e \in new : b \in sendingBlocks'[e]})
    BY <1>1, <1>4 DEF Schedule
  <2>2. IsFiniteSet(new) /\ new \cap DOMAIN sendingEvents = {}
    <3>1. /\ Len(saves) \in Nat /\ eventId \in Nat
          /\ DOMAIN sendingEvents \subseteq 0..(eventId - 1)
      BY OrderIsSequence DEF RefInv, TypeInv, TypeOK
    <3>2. eventId + Len(saves) - 1 \in Int
      BY <3>1
    <3>3. IsFiniteSet(new)
      BY <3>1, <3>2, FS_Interval
    <3>4. new \cap DOMAIN sendingEvents = {}
      BY <3>1
    <3>5. QED
      BY <3>3, <3>4
  <2> HIDE DEF new
  <2>3. SUFFICES ASSUME NEW b \in Block
                 PROVE  refs'[b] = Owners(own', b)
                          + Cardinality({e \in DOMAIN sendingEvents' : b \in sendingBlocks'[e]})
    BY <1>2, <1>4, <2>3 DEF RefInv, RefCountsExact, Owners
  <2> DEFINE old     == KeptBy(DOMAIN sendingEvents, b)
             added   == {e \in new : b \in sendingBlocks'[e]}
  <2>4. {e \in DOMAIN sendingEvents' : b \in sendingBlocks'[e]} = old \cup added
        /\ old \cap added = {}
    BY <2>1, <2>2 DEF KeptBy
  <2>5. IsFiniteSet(old) /\ IsFiniteSet(added)
    BY <2>2, EventsFinite, FS_Subset DEF KeptBy, RefInv, TypeInv
  <2>6. refs[b] = Owners(own, b) + Cardinality(old)
    BY DEF RefInv, RefCountsExact, KeptBy
  <2>7. Owners(own, b) \in Nat /\ Owners(own', b) \in Nat
        /\ Cardinality(old) \in Nat /\ Cardinality(added) \in Nat
    BY <2>5, OwnersNat, FS_CardinalityType
  <2>8. refs'[b] = refs[b] - Owners(own, b) + Owners(own', b) + Cardinality(added)
    BY <2>1
  <2> HIDE DEF old, added
  <2>9. Cardinality(old \cup added) = Cardinality(old) + Cardinality(added)
    BY <2>4, <2>5, SplitCount
  <2>10. refs'[b] = Owners(own', b) + Cardinality(old \cup added)
    BY ONLY <2>6, <2>7, <2>8, <2>9
  <2>11. QED
    BY <2>4, <2>10
<1>5. QED
  BY <1>3, <1>4

\* Freeing at the finish takes away the one reference the request had.
LEMMA RequestFinishedRefInv ==
  ASSUME RefInv, NEW r \in Request, RequestFinished(r)
  PROVE  RefInv'
<1>1. TypeInv'
  BY RequestFinishedTypeInv DEF RefInv
<1>2. UNCHANGED <<sendingEvents, sendingBlocks>>
  BY DEF RequestFinished
<1>3. CASE UNCHANGED <<own, refs>>
  BY <1>1, <1>2, <1>3 DEF RefInv, RefCountsExact, Owners
<1>4. CASE /\ own' = [own EXCEPT ![r] = NoBlock]
           /\ refs' = [b \in Block |-> IF b = own[r] THEN refs[b] - 1 ELSE refs[b]]
  <2>1. ~Hybrid => own' = [q \in Request |-> NoBlock]
    BY <1>4 DEF RefInv
  <2>2. ASSUME NEW b \in Block
        PROVE  refs'[b] - Owners(own', b) = refs[b] - Owners(own, b)
    <3> DEFINE before == {q \in Request : own[q] = b}
               after  == {q \in Request : own'[q] = b}
    <3>1. own \in [Request -> Block \cup {NoBlock}] /\ refs[b] \in Int /\ b # NoBlock
      BY StorePathAssumption DEF RefInv, TypeInv, TypeOK
    <3>2. after = before \ {r} /\ (r \in before <=> own[r] = b)
      BY <1>4, <3>1
    <3>3. IsFiniteSet(before)
      BY StorePathAssumption, FS_Subset
    <3> HIDE DEF before, after
    <3>4. Cardinality(after) = IF r \in before THEN Cardinality(before) - 1 ELSE Cardinality(before)
      BY <3>2, <3>3, FS_RemoveElement
    <3>5. Cardinality(before) \in Nat
      BY <3>3, FS_CardinalityType
    <3>6. refs'[b] = IF own[r] = b THEN refs[b] - 1 ELSE refs[b]
      BY <1>4
    <3>7. refs'[b] - Cardinality(after) = refs[b] - Cardinality(before)
      BY ONLY <3>1, <3>2, <3>4, <3>5, <3>6
    <3>8. QED
      BY <3>7 DEF before, after, Owners
  <2>3. ASSUME NEW b \in Block
        PROVE  refs'[b] = Owners(own', b)
                 + Cardinality({e \in DOMAIN sendingEvents' : b \in sendingBlocks'[e]})
    <3> DEFINE n == Cardinality({e \in DOMAIN sendingEvents : b \in sendingBlocks[e]})
    <3>1. refs[b] = Owners(own, b) + n
      BY DEF RefInv, RefCountsExact
    <3>2. n \in Nat
      BY EventsFinite, FS_Subset, FS_CardinalityType DEF RefInv, TypeInv
    <3>3. Owners(own, b) \in Nat /\ Owners(own', b) \in Nat /\ refs'[b] \in Int
      BY <1>1, OwnersNat DEF TypeInv, TypeOK
    <3>4. n = Cardinality({e \in DOMAIN sendingEvents' : b \in sendingBlocks'[e]})
      BY <1>2
    <3> HIDE DEF n
    <3>5. refs'[b] = Owners(own', b) + n
      BY ONLY <2>2, <3>1, <3>2, <3>3
    <3>6. QED
      BY <3>4, <3>5
  <2>4. RefCountsExact'
    BY <2>3 DEF RefCountsExact, Owners
  <2>5. QED
    BY <1>1, <2>1, <2>4 DEF RefInv
<1>5. QED
  BY <1>3, <1>4 DEF RequestFinished

\* update_connector_output gives back one reference per complete event.
LEMMA UpdateRefInv == RefInv /\ Update => RefInv'
<1> SUFFICES ASSUME RefInv, Update PROVE RefInv'
  OBVIOUS
<1>1. TypeInv'
  BY UpdateTypeInv DEF RefInv
<1>2. ~Hybrid => own' = [r \in Request |-> NoBlock]
  BY DEF Update, RefInv
<1>3. /\ DOMAIN sendingEvents' = DOMAIN sendingEvents \ CompleteEvents
      /\ \A e \in DOMAIN sendingEvents' : sendingBlocks'[e] = sendingBlocks[e]
      /\ \A b \in Block : refs'[b] = refs[b] - Owners(own, b) + Owners(own', b) - Freed(b)
      /\ CompleteEvents \subseteq DOMAIN sendingEvents
  BY DEF Update, CompleteEvents
<1>4. ASSUME NEW b \in Block
      PROVE  refs'[b] = Owners(own', b)
               + Cardinality({e \in DOMAIN sendingEvents' : b \in sendingBlocks'[e]})
  <2> DEFINE all  == KeptBy(DOMAIN sendingEvents, b)
             gone == KeptBy(CompleteEvents, b)
             kept == {e \in DOMAIN sendingEvents' : b \in sendingBlocks'[e]}
  <2>1. all = kept \cup gone /\ kept \cap gone = {}
    BY <1>3 DEF KeptBy
  <2>2. IsFiniteSet(all)
    BY EventsFinite, FS_Subset DEF KeptBy, RefInv, TypeInv
  <2>3. refs[b] = Owners(own, b) + Cardinality(all) /\ Freed(b) = Cardinality(gone)
    BY DEF RefInv, RefCountsExact, KeptBy, Freed
  <2>4. refs'[b] = refs[b] - Owners(own, b) + Owners(own', b) - Freed(b)
    BY <1>3
  <2> HIDE DEF all, gone, kept
  <2>5. IsFiniteSet(kept) /\ IsFiniteSet(gone)
    BY <2>1, <2>2, FS_Subset
  <2>6. Cardinality(all) = Cardinality(kept) + Cardinality(gone)
    BY <2>1, <2>5, SplitCount
  <2>7. Owners(own, b) \in Nat /\ Owners(own', b) \in Nat
        /\ Cardinality(kept) \in Nat /\ Cardinality(gone) \in Nat
    BY <2>5, OwnersNat, FS_CardinalityType
  <2>8. refs'[b] = Owners(own', b) + Cardinality(kept)
    BY ONLY <2>3, <2>4, <2>6, <2>7
  <2>9. QED
    BY <2>8 DEF kept
<1>5. RefCountsExact'
  BY <1>4 DEF RefCountsExact, Owners
<1>6. QED
  BY <1>1, <1>2, <1>5 DEF RefInv

LEMMA NextRefInv == RefInv /\ [Next]_vars => RefInv'
<1> SUFFICES ASSUME RefInv, [Next]_vars PROVE RefInv'
  OBVIOUS
<1>1. CASE ScheduleStep
  BY <1>1, ScheduleRefInv
<1>2. CASE \E r \in Request : RequestFinished(r)
  BY <1>2, RequestFinishedRefInv
<1>3. CASE Update
  BY <1>3, UpdateRefInv
<1>4. CASE \/ UNCHANGED vars
           \/ \E w \in Worker : Execute(w) \/ Thread(w)
  <2>1. TypeInv'
    BY NextTypeInv DEF RefInv
  <2>2. UNCHANGED <<own, refs, sendingEvents, sendingBlocks>>
    BY <1>4 DEF vars, engineVars, Execute, Thread, PutReturns, Take, PutDone, PutRaises,
                Decrement, CheckZero, Delete, Report
  <2>3. QED
    BY <2>1, <2>2 DEF RefInv, RefCountsExact, Owners
<1>5. QED
  BY <1>1, <1>2, <1>3, <1>4 DEF Next

\* The block pool and the scheduler never disagree about who holds a block.
THEOREM BlocksCountedExactly == Spec => []RefCountsExact
<1>1. Spec => []RefInv
  BY InitRefInv, NextRefInv, PTL DEF Spec
<1>2. RefInv => RefCountsExact
  BY DEF RefInv
<1>3. QED
  BY <1>1, <1>2, PTL

-----------------------------------------------------------------------------
(* Refinement: the events are held as BlockHold says *)

Holders == [e \in DOMAIN sendingEvents |-> {w \in Worker : e \in Unmarked(w)}]

LEMMA InitHold == Init => Hold!Init
<1> SUFFICES ASSUME Init PROVE eventId = 0 /\ Holders = [e \in {} |-> {}]
  BY DEF Hold!Init, Holders
<1>1. eventId = 0 /\ DOMAIN sendingEvents = {}
  BY DEF Init
<1>2. QED
  BY <1>1 DEF Holders

\* Only the moves of the events on a worker change the holders.
LEMMA HoldersUnchanged ==
  ASSUME UNCHANGED <<eventId, sendingEvents>>,
         \A w \in Worker : Unmarked(w)' = Unmarked(w)
  PROVE  UNCHANGED Hold!vars
<1>1. Holders' = Holders
  BY DEF Holders
<1>2. QED
  BY <1>1 DEF Hold!vars, Holders

\* A step with saves issues their events; one without changes nothing.
LEMMA ScheduleHold ==
  ASSUME EventInv, ScheduleStep
  PROVE  [Hold!Next]_(Hold!vars)
<1>1. IssueStep
  BY ScheduleIssues
<1>2. \A w \in Worker : Unmarked(w)' = Unmarked(w) \cup Fresh
  BY <1>1, IssueAdds
<1>3. eventId \in Nat /\ DOMAIN sendingEvents \cap Fresh = {}
  BY DEF EventInv, TypeInv, TypeOK, Fresh
<1>4. CASE eventId' = eventId
  <2>1. Fresh = {}
    BY <1>3, <1>4 DEF Fresh
  <2>2. DOMAIN sendingEvents' = DOMAIN sendingEvents
    BY <1>1, <2>1 DEF IssueStep
  <2>3. Holders' = Holders
    BY <1>2, <2>1, <2>2 DEF Holders
  <2>4. QED
    BY <1>4, <2>3 DEF Hold!vars, Holders
<1>5. CASE eventId' # eventId
  <2>1. eventId' \in Nat /\ eventId' > eventId
    BY <1>1, <1>3, <1>5 DEF IssueStep
  <2>2. Holders' = [e \in DOMAIN Holders \cup Fresh |-> IF e \in Fresh THEN Worker ELSE Holders[e]]
    <3>1. Holders' = [e \in DOMAIN sendingEvents \cup Fresh |-> {w \in Worker : e \in Unmarked(w)'}]
      BY <1>1 DEF IssueStep, Holders
    <3>2. \A e \in Fresh : {w \in Worker : e \in Unmarked(w)'} = Worker
      BY <1>2
    <3>3. \A e \in DOMAIN sendingEvents :
            /\ {w \in Worker : e \in Unmarked(w)'} = {w \in Worker : e \in Unmarked(w)}
            /\ e \notin Fresh
      BY <1>2, <1>3
    <3>4. QED
      BY <3>1, <3>2, <3>3 DEF Holders
  <2>3. Hold!Issue
    BY <2>1, <2>2 DEF Hold!Issue, Holders, Fresh
  <2>4. QED
    BY <2>3 DEF Hold!Next
<1>6. QED
  BY <1>4, <1>5

\* A worker lets go of the one event that leaves its backlog and its thread.
LEMMA DropHold ==
  ASSUME EventInv, NEW w \in Worker, NEW e \in Unmarked(w),
         UNCHANGED <<eventId, sendingEvents>>,
         Unmarked(w)' = Unmarked(w) \ {e},
         \A v \in Worker \ {w} : Unmarked(v)' = Unmarked(v)
  PROVE  Hold!Next
<1>1. e \in DOMAIN sendingEvents
  BY DEF EventInv, EventCountExact, Unreported
<1>2. Holders' = [Holders EXCEPT ![e] = @ \ {w}]
  <2>1. \A f \in DOMAIN sendingEvents :
          {v \in Worker : f \in Unmarked(v)'}
            = IF f = e THEN {v \in Worker : f \in Unmarked(v)} \ {w}
              ELSE {v \in Worker : f \in Unmarked(v)}
    OBVIOUS
  <2>2. Holders' = [f \in DOMAIN sendingEvents |-> {v \in Worker : f \in Unmarked(v)'}]
    BY DEF Holders
  <2>3. QED
    BY <2>1, <2>2 DEF Holders
<1>3. w \in Holders[e] /\ e \in DOMAIN Holders
  BY <1>1 DEF Holders
<1>4. Hold!LetGo(e, w)
  BY <1>2, <1>3 DEF Hold!LetGo, Holders
<1>5. QED
  BY <1>3, <1>4 DEF Hold!Next, Holders

LEMMA ThreadHold ==
  ASSUME EventInv, NEW w \in Worker, Thread(w)
  PROVE  [Hold!Next]_(Hold!vars)
<1>1. /\ UNCHANGED engineVars
      /\ \A v \in Worker \ {w} : /\ queue'[v] = queue[v]
                                 /\ pc'[v] = pc[v] /\ cur'[v] = cur[v]
                                 /\ completed'[v] = completed[v]
  BY DEF Thread, PutReturns, Take, PutDone, PutRaises, Decrement, CheckZero, Delete, Report,
         Return, EventInv, TypeInv, TypeOK
<1>2. \A v \in Worker \ {w} : Unmarked(v)' = Unmarked(v)
  BY <1>1, WorkerUnchanged DEF engineVars, EventInv
<1>3. UNCHANGED <<eventId, sendingEvents>>
  BY <1>1 DEF engineVars
<1>4. DropsOne(w)
  BY TakeMoves, PutMoves, HandlerKeeps DEF Thread
<1>5. CASE Unmarked(w)' = Unmarked(w)
  BY <1>2, <1>3, <1>5, HoldersUnchanged
<1>6. CASE \E e \in Unmarked(w) : Unmarked(w)' = Unmarked(w) \ {e}
  BY <1>2, <1>3, <1>6, DropHold
<1>7. QED
  BY <1>4, <1>5, <1>6 DEF DropsOne

\* The complete events have no holder left, and Release removes them.
LEMMA UpdateHold ==
  ASSUME EventInv, Update
  PROVE  [Hold!Next]_(Hold!vars)
<1>1. \A w \in Worker : Unmarked(w)' = Unmarked(w)
  BY DEF Update, Unmarked, Backlog, Copying, threadVars
<1>2. /\ DOMAIN sendingEvents' = DOMAIN sendingEvents \ CompleteEvents
      /\ CompleteEvents \subseteq DOMAIN sendingEvents
      /\ eventId' = eventId
  BY DEF Update, CompleteEvents
<1>3. ASSUME NEW e \in CompleteEvents PROVE Holders[e] = {}
  <2> DEFINE through == {w \in Worker : e \notin Unmarked(w) \cup completed[w]}
  <2>1. Cardinality(through) = sendingEvents[e] + ReportCount(e)
    BY <1>2, ThroughCount
  <2>2. /\ IsFiniteSet(Worker) /\ through \in SUBSET Worker
        /\ Cardinality(through) >= Cardinality(Worker)
    BY <2>1, StorePathAssumption DEF CompleteEvents
  <2> HIDE DEF through
  <2>3. /\ Cardinality(through) <= Cardinality(Worker)
        /\ Cardinality(Worker) = Cardinality(through) => Worker = through
        /\ IsFiniteSet(through)
    BY <2>2, FS_Subset
  <2>4. Cardinality(through) \in Nat /\ Cardinality(Worker) \in Nat
    BY <2>2, <2>3, FS_CardinalityType
  <2>5. Worker = through
    BY ONLY <2>2, <2>3, <2>4
  <2>6. QED
    BY <1>2, <2>5 DEF Holders, through
<1>4. Holders' = [e \in DOMAIN Holders \ CompleteEvents |-> Holders[e]]
  BY <1>1, <1>2 DEF Holders
<1>5. Hold!Release(CompleteEvents)
  BY <1>2, <1>3, <1>4 DEF Hold!Release, Holders
<1>6. CompleteEvents \in SUBSET DOMAIN Holders
  BY <1>2 DEF Holders
<1>7. QED
  BY <1>5, <1>6 DEF Hold!Next, Holders

\* Executing a step and finishing a request move no event on or off a worker.
LEMMA RestHold ==
  ASSUME EventInv,
         \/ UNCHANGED vars
         \/ \E r \in Request : RequestFinished(r)
         \/ \E w \in Worker : Execute(w)
  PROVE  [Hold!Next]_(Hold!vars)
<1>1. UNCHANGED <<eventId, sendingEvents>>
  BY DEF vars, engineVars, RequestFinished, Execute
<1>2. CASE UNCHANGED vars \/ \E r \in Request : RequestFinished(r)
  <2>1. UNCHANGED <<toRun, meta, queue, pc, cur>>
    BY <1>2 DEF vars, engineVars, threadVars, RequestFinished
  <2>2. \A w \in Worker : Unmarked(w)' = Unmarked(w)
    BY <2>1 DEF Unmarked, Backlog, Copying
  <2>3. QED
    BY <1>1, <2>2, HoldersUnchanged
<1>3. ASSUME NEW w \in Worker, Execute(w) PROVE \A v \in Worker : Unmarked(v)' = Unmarked(v)
  BY <1>3, ExecuteMoves
<1>4. QED
  BY <1>1, <1>2, <1>3, HoldersUnchanged

\* The store path implements BlockHold.
THEOREM EventsImplementHold == Spec => HoldSpec
<1>1. EventInv /\ [Next]_vars => [Hold!Next]_(Hold!vars)
  BY ScheduleHold, ThreadHold, UpdateHold, RestHold DEF Next
<1>2. Init => Hold!Init
  BY InitHold
<1>3. QED
  BY <1>1, <1>2, EventInvAlways, PTL DEF Spec, HoldSpec, Hold!Spec

-----------------------------------------------------------------------------
(* Requests saved once *)

\* With one save in the life of a request, and one life, its job is in one
\* place of a worker at a time: the backlog, the thread, or, when the copy is
\* over, the reports.
SavedOnce == MaxSaves = 1 /\ MaxPreempts = 0

Reqs(s) == {s[i].req : i \in 1..Len(s)}
DistinctReqs(s) == \A i, j \in 1..Len(s) : s[i].req = s[j].req => i = j

InHand(w) == IF pc[w] = Idle THEN {} ELSE {cur[w].req}
Open(w)   == Reqs(Backlog(w)) \cup InHand(w)
Told(w)   == finished[w] \cup output[w].done \cup {r \in Request : w \in sent[r]}

\* A request that is open is not reported, and so not done; and one that has
\* saved nothing is neither open nor reported.
WorkerOnce(w) ==
  /\ DistinctReqs(Backlog(w))
  /\ InHand(w) \cap Reqs(Backlog(w)) = {}
  /\ Open(w) \cap Told(w) = {}
  /\ \A r \in Request : status[r] = "done" => r \notin Open(w)
  /\ \A r \in Request : status[r] \in {"waiting", "running"} /\ saved[r] = 0 => r \notin Open(w) \cup Told(w)

OnceInv == TypeInv /\ (phase = "schedule" => toRun = {}) /\ \A w \in Worker : WorkerOnce(w)

\* Taking the head of a queue takes its request and no other.
LEMMA TailReqs ==
  ASSUME NEW s \in Seq(Jobs), s # << >>, DistinctReqs(s)
  PROVE  /\ DistinctReqs(Tail(s))
         /\ Reqs(Tail(s)) = Reqs(s) \ {Head(s).req}
         /\ Head(s).req \in Reqs(s)
<1>1. /\ Len(s) \in Nat /\ Len(s) >= 1
      /\ Len(Tail(s)) = Len(s) - 1
      /\ Head(s) = s[1]
      /\ \A i \in 1..Len(Tail(s)) : Tail(s)[i] = s[i + 1]
  OBVIOUS
<1>2. \A i \in 1..Len(Tail(s)) : i + 1 \in 1..Len(s) /\ i + 1 # 1 /\ Tail(s)[i] = s[i + 1]
  BY <1>1
<1>3. 1 \in 1..Len(s) /\ \A i \in 1..Len(s) : i # 1 => i - 1 \in 1..Len(Tail(s)) /\ Tail(s)[i - 1] = s[i]
  BY <1>1
<1>4. DistinctReqs(Tail(s))
  <2>1. SUFFICES ASSUME NEW i \in 1..Len(Tail(s)), NEW j \in 1..Len(Tail(s)),
                        Tail(s)[i].req = Tail(s)[j].req
                 PROVE  i = j
    BY DEF DistinctReqs
  <2>2. i + 1 = j + 1
    BY <1>2, <2>1 DEF DistinctReqs
  <2>3. QED
    BY <1>1, <2>2
<1>5. \A i \in 1..Len(Tail(s)) : Tail(s)[i].req \in Reqs(s) /\ Tail(s)[i].req # s[1].req
  <2>1. SUFFICES ASSUME NEW i \in 1..Len(Tail(s))
                 PROVE  Tail(s)[i].req \in Reqs(s) /\ Tail(s)[i].req # s[1].req
    OBVIOUS
  <2>2. i + 1 \in 1..Len(s) /\ i + 1 # 1 /\ Tail(s)[i] = s[i + 1]
    BY <1>2
  <2>3. QED
    BY <1>3, <2>2 DEF Reqs, DistinctReqs
<1>6. \A i \in 1..Len(s) : s[i].req # s[1].req => s[i].req \in Reqs(Tail(s))
  <2>1. SUFFICES ASSUME NEW i \in 1..Len(s), s[i].req # s[1].req
                 PROVE  s[i].req \in Reqs(Tail(s))
    OBVIOUS
  <2>2. i - 1 \in 1..Len(Tail(s)) /\ Tail(s)[i - 1] = s[i]
    BY <1>3, <2>1
  <2>3. QED
    BY <2>2, Zenon DEF Reqs
<1>7. Head(s).req \in Reqs(s)
  BY <1>1, <1>3 DEF Reqs
<1>8. /\ \A r \in Reqs(Tail(s)) : r \in Reqs(s) /\ r # s[1].req
      /\ \A r \in Reqs(s) : r # s[1].req => r \in Reqs(Tail(s))
  BY <1>5, <1>6 DEF Reqs
<1>9. Reqs(Tail(s)) = Reqs(s) \ {s[1].req}
  BY ONLY <1>8
<1>10. Head(s) = s[1]
  BY <1>1
<1>11. QED
  BY <1>4, <1>7, <1>9, <1>10, Zenon

\* Appending jobs of other requests.
LEMMA ConcatReqs ==
  ASSUME NEW s \in Seq(Jobs), NEW t \in Seq(Jobs)
  PROVE  /\ Reqs(s \o t) = Reqs(s) \cup Reqs(t)
         /\ DistinctReqs(s) /\ DistinctReqs(t) /\ Reqs(s) \cap Reqs(t) = {}
              => DistinctReqs(s \o t)
<1>1. /\ Len(s) \in Nat /\ Len(t) \in Nat
      /\ Len(s \o t) = Len(s) + Len(t)
      /\ \A i \in 1..Len(s \o t) : (s \o t)[i] = IF i <= Len(s) THEN s[i] ELSE t[i - Len(s)]
  OBVIOUS
<1>2. \A i \in 1..Len(s \o t) :
        \/ i \in 1..Len(s) /\ (s \o t)[i] = s[i]
        \/ i - Len(s) \in 1..Len(t) /\ (s \o t)[i] = t[i - Len(s)]
  BY <1>1
<1>3. \A i \in 1..Len(s) : i \in 1..Len(s \o t) /\ (s \o t)[i] = s[i]
  BY <1>1
<1>4. \A i \in 1..Len(t) : i + Len(s) \in 1..Len(s \o t) /\ (s \o t)[i + Len(s)] = t[i]
  BY <1>1
<1> HIDE DEF Jobs
<1>5. Reqs(s \o t) \subseteq Reqs(s) \cup Reqs(t)
  BY <1>2 DEF Reqs
<1>6. Reqs(s) \subseteq Reqs(s \o t)
  BY <1>3 DEF Reqs
<1>7. Reqs(t) \subseteq Reqs(s \o t)
  BY <1>4 DEF Reqs
<1>8. ASSUME DistinctReqs(s), DistinctReqs(t), Reqs(s) \cap Reqs(t) = {}
      PROVE  DistinctReqs(s \o t)
  <2>1. SUFFICES ASSUME NEW i \in 1..Len(s \o t), NEW j \in 1..Len(s \o t),
                        (s \o t)[i].req = (s \o t)[j].req
                 PROVE  i = j
    BY DEF DistinctReqs
  <2>2. CASE i \in 1..Len(s) /\ j \in 1..Len(s)
    BY <1>3, <1>8, <2>1, <2>2 DEF DistinctReqs
  <2>3. CASE i - Len(s) \in 1..Len(t) /\ j - Len(s) \in 1..Len(t)
    <3>1. (s \o t)[i] = t[i - Len(s)] /\ (s \o t)[j] = t[j - Len(s)]
      BY <1>1, <2>3
    <3>2. i - Len(s) = j - Len(s)
      BY <1>8, <2>1, <2>3, <3>1 DEF DistinctReqs
    <3>3. QED
      BY <1>1, <3>2
  <2>4. CASE i \in 1..Len(s) /\ j - Len(s) \in 1..Len(t)
    <3>1. (s \o t)[i] = s[i] /\ (s \o t)[j] = t[j - Len(s)]
      BY <1>1, <2>4
    <3>2. s[i].req \in Reqs(s) /\ s[i].req \in Reqs(t)
      BY <2>1, <2>4, <3>1 DEF Reqs
    <3>3. QED
      BY <1>8, <3>2
  <2>5. CASE j \in 1..Len(s) /\ i - Len(s) \in 1..Len(t)
    <3>1. (s \o t)[j] = s[j] /\ (s \o t)[i] = t[i - Len(s)]
      BY <1>1, <2>5
    <3>2. s[j].req \in Reqs(s) /\ s[j].req \in Reqs(t)
      BY <2>1, <2>5, <3>1 DEF Reqs
    <3>3. QED
      BY <1>8, <3>2
  <2>6. QED
    BY <1>2, <2>2, <2>3, <2>4, <2>5
<1>9. QED
  BY <1>5, <1>6, <1>7, <1>8

\* A worker that neither opens nor reports anything keeps its part.
LEMMA OnceKept ==
  ASSUME NEW w \in Worker, WorkerOnce(w),
         UNCHANGED <<status, saved>>,
         Backlog(w)' = Backlog(w),
         InHand(w)' \subseteq InHand(w),
         Told(w)' \subseteq Told(w)
  PROVE  WorkerOnce(w)'
<1>1. Open(w)' \subseteq Open(w)
  <2>1. Reqs(Backlog(w))' = Reqs(Backlog(w))
    BY DEF Reqs
  <2>2. QED
    BY <2>1 DEF Open
<1>2. Reqs(Backlog(w)') = Reqs(Backlog(w)) /\ DistinctReqs(Backlog(w)') = DistinctReqs(Backlog(w))
  OBVIOUS
<1>3. Reqs(Backlog(w))' = Reqs(Backlog(w)') /\ DistinctReqs(Backlog(w))' = DistinctReqs(Backlog(w)')
  BY DEF Reqs, DistinctReqs
<1>4. QED
  BY <1>1, <1>2, <1>3 DEF WorkerOnce

LEMMA InitOnce == Init => OnceInv
<1> SUFFICES ASSUME Init PROVE OnceInv
  OBVIOUS
<1>1. ASSUME NEW w \in Worker
      PROVE  Backlog(w) = << >> /\ InHand(w) = {} /\ Told(w) = {}
  BY DEF Init, Backlog, InHand, Told, NoReport, Idle
<1>2. ASSUME NEW w \in Worker PROVE WorkerOnce(w)
  <2>1. Open(w) = {}
    BY <1>1 DEF Open, Reqs
  <2>2. QED
    BY <1>1, <2>1 DEF WorkerOnce, DistinctReqs
<1>3. QED
  BY <1>2, InitTypeInv DEF OnceInv, Init

\* A step saves only requests that have saved nothing.
LEMMA ScheduleOnce ==
  ASSUME SavedOnce, OnceInv, ScheduleStep
  PROVE  OnceInv'
<1>a. PICK preempted \in SUBSET Preemptible :
        \E scheduled \in SUBSET (Schedulable \ preempted) :
        \E saves \in Orders(scheduled) :
        \E blocks \in BlockChoices(scheduled) :
          Schedule(preempted, scheduled, saves, blocks)
  BY DEF ScheduleStep
<1>b. PICK scheduled \in SUBSET (Schedulable \ preempted) :
        \E saves \in Orders(scheduled) :
        \E blocks \in BlockChoices(scheduled) :
          Schedule(preempted, scheduled, saves, blocks)
  BY <1>a
<1>c. PICK saves \in Orders(scheduled) :
        \E blocks \in BlockChoices(scheduled) :
          Schedule(preempted, scheduled, saves, blocks)
  BY <1>b
<1>d. PICK blocks \in BlockChoices(scheduled) :
        Schedule(preempted, scheduled, saves, blocks)
  BY <1>c
<1>1. /\ preempted = {}
      /\ scheduled \subseteq {r \in Request : status[r] \in {"waiting", "running"}}
  <2>1. \A r \in Request : ~(life[r] < MaxPreempts)
    BY DEF SavedOnce, OnceInv, TypeInv, TypeOK
  <2>2. QED
    BY <2>1 DEF Preemptible, Schedulable
<1>2. /\ Len(saves) \in Nat
      /\ \A i \in 1..Len(saves) : saves[i] \in scheduled
      /\ \A i, j \in 1..Len(saves) : saves[i] = saves[j] => i = j
  BY OrderIsSequence
<1>3. /\ phase = "schedule" /\ toRun = {} /\ phase' = "execute" /\ toRun' = Worker
      /\ \A r \in Elems(saves) : saved[r] < MaxSaves
      /\ UNCHANGED <<output, sent, threadVars>>
      /\ meta'.saves = [i \in 1..Len(saves) |-> NewJob(saves[i], i)]
  BY <1>d DEF Schedule, OnceInv
<1>4. \A i \in 1..Len(saves) : /\ saves[i] \in Request /\ saved[saves[i]] = 0
                               /\ status[saves[i]] \in {"waiting", "running"}
  <2>1. SUFFICES ASSUME NEW i \in 1..Len(saves)
                 PROVE  /\ saves[i] \in Request /\ saved[saves[i]] = 0
                        /\ status[saves[i]] \in {"waiting", "running"}
    OBVIOUS
  <2>2. saves[i] \in scheduled /\ saves[i] \in Elems(saves)
    BY <1>2 DEF Elems
  <2>3. saved[saves[i]] \in Nat /\ saved[saves[i]] < 1
    BY <1>1, <1>3, <2>2 DEF SavedOnce, OnceInv, TypeInv, TypeOK
  <2>4. QED
    BY <1>1, <2>2, <2>3
<1>5. TypeInv'
  BY ScheduleTypeInv DEF OnceInv
<1> DEFINE t == meta'.saves
<1>6. /\ t \in Seq(Jobs) /\ Len(t) = Len(saves)
      /\ \A i \in 1..Len(saves) : t[i].req = saves[i]
  <2>1. t \in Seq(Jobs)
    BY <1>5 DEF TypeInv, TypeOK
  <2>2. \A i \in 1..Len(saves) : t[i].req = saves[i]
    BY <1>3 DEF NewJob, Job
  <2>3. Len(t) = Len(saves)
    BY <1>2, <1>3
  <2>4. QED
    BY <2>1, <2>2, <2>3
<1>7. DistinctReqs(t) /\ Reqs(t) = {saves[i] : i \in 1..Len(saves)}
  BY <1>2, <1>6 DEF DistinctReqs, Reqs
<1> HIDE DEF t
<1>8. ASSUME NEW w \in Worker PROVE WorkerOnce(w)'
  <2>1. Backlog(w) = queue[w] /\ queue[w] \in Seq(Jobs)
    <3>1. queue[w] \in Seq(Jobs)
      BY DEF OnceInv, TypeInv, TypeOK
    <3> HIDE DEF Jobs
    <3>2. queue[w] \o << >> = queue[w]
      BY <3>1
    <3>3. QED
      BY <1>3, <3>1, <3>2 DEF Backlog
  <2>2. Backlog(w)' = queue[w] \o t
    BY <1>3 DEF Backlog, threadVars, t
  <2>3. InHand(w)' = InHand(w) /\ Told(w)' = Told(w)
    BY <1>3 DEF InHand, Told, threadVars
  <2>4. Reqs(t) \cap (Open(w) \cup Told(w)) = {}
    BY <1>4, <1>7 DEF OnceInv, WorkerOnce
  <2>5. WorkerOnce(w) /\ Reqs(queue[w]) \subseteq Open(w) /\ InHand(w) \subseteq Open(w)
    BY <2>1 DEF OnceInv, Open
  <2>6. Reqs(queue[w] \o t) = Reqs(queue[w]) \cup Reqs(t) /\ DistinctReqs(queue[w] \o t)
    BY <1>6, <1>7, <2>1, <2>4, <2>5, ConcatReqs DEF WorkerOnce
  <2>7. /\ DistinctReqs(Backlog(w))' /\ Reqs(Backlog(w))' = Reqs(queue[w]) \cup Reqs(t)
        /\ Open(w)' = Open(w) \cup Reqs(t)
    <3>1. DistinctReqs(Backlog(w))' = DistinctReqs(Backlog(w)') /\ Reqs(Backlog(w))' = Reqs(Backlog(w)')
      BY DEF DistinctReqs, Reqs
    <3>2. DistinctReqs(Backlog(w)') /\ Reqs(Backlog(w)') = Reqs(queue[w]) \cup Reqs(t)
      BY <2>2, <2>6
    <3>3. QED
      BY <2>1, <2>3, <3>1, <3>2 DEF Open
  <2>8. /\ InHand(w)' \cap Reqs(Backlog(w))' = {}
        /\ Open(w)' \cap Told(w)' = {}
    BY <2>1, <2>3, <2>4, <2>5, <2>7 DEF WorkerOnce
  <2>9. ASSUME NEW r \in Request
        PROVE  /\ status'[r] = "done" => r \notin Open(w)'
               /\ status'[r] \in {"waiting", "running"} /\ saved'[r] = 0 => r \notin Open(w)' \cup Told(w)'
    <3>1. /\ status'[r] = IF r \in scheduled THEN "running" ELSE status[r]
          /\ saved'[r] = IF status[r] \in {"delayed", "done"} THEN 0
                         ELSE IF r \in Elems(saves) THEN saved[r] + 1 ELSE saved[r]
      BY <1>d, <1>1 DEF Schedule
    <3>2. r \in Reqs(t) <=> r \in Elems(saves)
      BY <1>7 DEF Elems
    <3>3. r \in Reqs(t) => r \in scheduled /\ saved[r] = 0 /\ status[r] \in {"waiting", "running"}
      BY <1>2, <1>4, <1>7
    <3>4. saved[r] \in Nat
      BY DEF OnceInv, TypeInv, TypeOK
    <3>5. r \in scheduled => status[r] \in {"waiting", "running"}
      BY <1>1
    <3>6. status'[r] = "done" => status[r] = "done" /\ r \notin Reqs(t)
      BY <3>1, <3>3
    <3>7. status'[r] \in {"waiting", "running"} /\ saved'[r] = 0 =>
            status[r] \in {"waiting", "running"} /\ saved[r] = 0 /\ r \notin Reqs(t)
      <4>1. status'[r] \in {"waiting", "running"} => status[r] \in {"waiting", "running"}
        BY <3>1, <3>5
      <4>2. status[r] \in {"waiting", "running"} => saved'[r] = IF r \in Reqs(t) THEN saved[r] + 1 ELSE saved[r]
        BY <3>1, <3>2
      <4>3. saved[r] + 1 # 0
        BY <3>4
      <4>4. QED
        BY <4>1, <4>2, <4>3
    <3>8. QED
      BY <2>3, <2>5, <2>7, <3>6, <3>7 DEF WorkerOnce
  <2>10. QED
    BY <2>7, <2>8, <2>9 DEF WorkerOnce
<1>9. QED
  BY <1>3, <1>5, <1>8 DEF OnceInv

\* Only a request without saves is done at once.
LEMMA FinishOnce ==
  ASSUME OnceInv, NEW r \in Request, RequestFinished(r)
  PROVE  OnceInv'
<1>1. UNCHANGED <<saved, phase, toRun, meta, output, sent, threadVars>>
  BY DEF RequestFinished
<1>2. TypeInv'
  BY RequestFinishedTypeInv DEF OnceInv
<1>3. ASSUME NEW w \in Worker PROVE WorkerOnce(w)'
  <2>1. Backlog(w)' = Backlog(w) /\ InHand(w)' = InHand(w) /\ Told(w)' = Told(w)
    BY <1>1 DEF Backlog, InHand, Told, threadVars
  <2>2. /\ DistinctReqs(Backlog(w))' = DistinctReqs(Backlog(w))
        /\ Reqs(Backlog(w))' = Reqs(Backlog(w))
    BY <2>1 DEF DistinctReqs, Reqs
  <2>3. Open(w)' = Open(w)
    BY <2>1, <2>2 DEF Open
  <2>4. ASSUME NEW q \in Request
        PROVE  /\ status'[q] = "done" => q \notin Open(w)
               /\ status'[q] \in {"waiting", "running"} /\ saved[q] = 0 => q \notin Open(w) \cup Told(w)
    <3>1. CASE q # r
      <4>1. status'[q] = status[q]
        BY <3>1 DEF RequestFinished, OnceInv, TypeInv, TypeOK
      <4>2. QED
        BY <4>1 DEF OnceInv, WorkerOnce
    <3>2. CASE q = r
      <4>1. status[r] \in {"waiting", "running"} /\ saved[r] \in Nat
        BY DEF RequestFinished, OnceInv, TypeInv, TypeOK
      <4>2. status'[r] = IF saved[r] > 0 THEN "delayed" ELSE "done"
        BY DEF RequestFinished, DelaysFree, OnceInv, TypeInv, TypeOK
      <4>3. ~(saved[r] > 0) => saved[r] = 0
        BY <4>1
      <4>4. QED
        BY <3>2, <4>1, <4>2, <4>3 DEF OnceInv, WorkerOnce
    <3>3. QED
      BY <3>1, <3>2
  <2>5. QED
    BY <1>1, <2>1, <2>2, <2>3, <2>4 DEF OnceInv, WorkerOnce
<1>4. QED
  BY <1>1, <1>2, <1>3 DEF OnceInv

\* A request is done when every worker has reported it.
LEMMA UpdateOnce ==
  ASSUME OnceInv, Update
  PROVE  OnceInv'
<1>1. /\ toRun = {} /\ output' = NoReport
      /\ UNCHANGED <<saved, toRun, threadVars>>
      /\ sent' = [r \in Request |-> IF r \in Released THEN {} ELSE Reported(r)]
      /\ status' = [r \in Request |-> IF r \in Released THEN "done" ELSE status[r]]
  BY DEF Update
<1>2. TypeInv'
  BY UpdateTypeInv DEF OnceInv
<1>3. ASSUME NEW w \in Worker PROVE WorkerOnce(w)'
  <2>1. Backlog(w)' = Backlog(w) /\ InHand(w)' = InHand(w)
    BY <1>1 DEF Backlog, InHand, threadVars
  <2>2. \A r \in Request : w \in Reported(r) => r \in Told(w)
    BY DEF Reported, Told
  <2>3. Told(w)' \subseteq Told(w)
    <3>1. finished'[w] = finished[w] /\ output'[w].done = {}
      BY <1>1 DEF threadVars, NoReport
    <3>2. \A r \in Request : w \in sent'[r] => w \in Reported(r)
      BY <1>1
    <3>3. QED
      BY <2>2, <3>1, <3>2 DEF Told
  <2>4. /\ DistinctReqs(Backlog(w))' = DistinctReqs(Backlog(w))
        /\ Reqs(Backlog(w))' = Reqs(Backlog(w))
    BY <2>1 DEF DistinctReqs, Reqs
  <2>5. Open(w)' = Open(w)
    BY <2>1, <2>4 DEF Open
  <2>6. ASSUME NEW r \in Request
        PROVE  /\ status'[r] = "done" => r \notin Open(w)
               /\ status'[r] \in {"waiting", "running"} => status'[r] = status[r]
    <3>1. r \in Released => r \in Told(w)
      BY <2>2 DEF Released
    <3>2. status'[r] = IF r \in Released THEN "done" ELSE status[r]
      BY <1>1
    <3>3. QED
      BY <3>1, <3>2 DEF OnceInv, WorkerOnce
  <2>7. QED
    BY <1>1, <2>1, <2>3, <2>4, <2>5, <2>6 DEF OnceInv, WorkerOnce
<1>4. QED
  BY <1>1, <1>2, <1>3 DEF OnceInv

\* A worker takes the step's saves from the metadata to its queue, and its
\* reports to the output.
LEMMA ExecuteOnce ==
  ASSUME OnceInv, NEW v \in Worker, Execute(v)
  PROVE  OnceInv'
<1>1. /\ phase = "execute" /\ v \in toRun /\ toRun' = toRun \ {v}
      /\ UNCHANGED <<status, saved, phase, meta, sent, pc, cur>>
      /\ queue' = [queue EXCEPT ![v] = queue[v] \o meta.saves]
      /\ output' = [output EXCEPT ![v] = [done |-> Known(v) \cap meta.delayed, events |-> completed[v]]]
      /\ finished' = [finished EXCEPT ![v] = Uncollected(v)]
  BY DEF Execute
<1>2. TypeInv'
  BY ExecuteTypeInv DEF OnceInv
<1>3. ASSUME NEW w \in Worker PROVE WorkerOnce(w)'
  <2>1. Backlog(w)' = Backlog(w)
    <3>1. CASE w = v
      <4>1. queue[v] \in Seq(Jobs) /\ meta.saves \in Seq(Jobs)
        BY DEF OnceInv, TypeInv, TypeOK
      <4>2. queue'[v] = queue[v] \o meta.saves
        BY <1>1 DEF OnceInv, TypeInv, TypeOK
      <4> HIDE DEF Jobs
      <4>3. (queue[v] \o meta.saves) \o << >> = queue[v] \o meta.saves
        BY <4>1
      <4>4. QED
        BY <1>1, <3>1, <4>2, <4>3 DEF Backlog
    <3>2. CASE w # v
      <4>1. queue'[w] = queue[w] /\ (w \in toRun' <=> w \in toRun) /\ meta' = meta
        BY <1>1, <3>2 DEF OnceInv, TypeInv, TypeOK
      <4>2. QED
        BY <4>1 DEF Backlog
    <3>3. QED
      BY <3>1, <3>2
  <2>2. InHand(w)' = InHand(w)
    BY <1>1 DEF InHand
  <2>3. Told(w)' \subseteq Told(w)
    <3>1. CASE w = v
      <4>1. finished'[v] \subseteq finished[v] /\ output'[v].done \subseteq finished[v]
        BY <1>1 DEF Known, Uncollected, OnceInv, TypeInv, TypeOK
      <4>2. QED
        BY <1>1, <3>1, <4>1 DEF Told
    <3>2. CASE w # v
      <4>1. finished'[w] = finished[w] /\ output'[w] = output[w]
        BY <1>1, <3>2 DEF OnceInv, TypeInv, TypeOK
      <4>2. QED
        BY <1>1, <4>1 DEF Told
    <3>3. QED
      BY <3>1, <3>2
  <2>4. QED
    BY <1>1, <2>1, <2>2, <2>3, OnceKept DEF OnceInv
<1>4. QED
  BY <1>1, <1>2, <1>3 DEF OnceInv

\* A thread has one job in hand, which it reports only when it is through.
LEMMA ThreadOnce ==
  ASSUME OnceInv, NEW v \in Worker, Thread(v)
  PROVE  OnceInv'
<1>1. /\ UNCHANGED engineVars
      /\ \A w \in Worker \ {v} : /\ queue'[w] = queue[w] /\ pc'[w] = pc[w]
                                 /\ cur'[w] = cur[w] /\ finished'[w] = finished[w]
  BY DEF Thread, Take, PutReturns, PutDone, PutRaises, Decrement, CheckZero, Delete, Report, Return,
         OnceInv, TypeInv, TypeOK
<1>2. TypeInv'
  BY ThreadTypeInv DEF OnceInv
<1>3. ASSUME NEW w \in Worker \ {v} PROVE WorkerOnce(w)'
  <2>1. /\ Backlog(w)' = Backlog(w) /\ InHand(w)' = InHand(w) /\ Told(w)' = Told(w)
    BY <1>1 DEF Backlog, InHand, Told, engineVars
  <2>2. QED
    BY <1>1, <2>1, OnceKept DEF OnceInv, engineVars
<1>4. WorkerOnce(v)'
  <2>1. CASE Take(v)
    <3> DEFINE b == Backlog(v)
    <3>1. b \in Seq(Jobs) /\ b # << >> /\ Head(b) = Head(queue[v]) /\ Backlog(v)' = Tail(b)
      <4> DEFINE t == IF v \in toRun THEN meta.saves ELSE << >>
      <4>1. queue[v] \in Seq(Jobs) /\ t \in Seq(Jobs) /\ queue[v] # << >>
        BY <2>1 DEF Take, OnceInv, TypeInv, TypeOK
      <4>2. Tail(queue[v]) \o t = Tail(queue[v] \o t) /\ Head(queue[v] \o t) = Head(queue[v])
            /\ queue[v] \o t # << >>
        BY <4>1, TailConcat
      <4>3. queue'[v] = Tail(queue[v]) /\ UNCHANGED <<toRun, meta>>
        BY <2>1 DEF Take, engineVars, OnceInv, TypeInv, TypeOK
      <4>4. QED
        BY <4>2, <4>3, BacklogType DEF Backlog, OnceInv
    <3>2. WorkerOnce(v) /\ b = Backlog(v)
      BY DEF OnceInv
    <3> HIDE DEF b
    <3>3. /\ DistinctReqs(Tail(b)) /\ Reqs(Tail(b)) = Reqs(b) \ {Head(b).req}
          /\ Head(b).req \in Reqs(b)
      BY <3>1, <3>2, TailReqs DEF WorkerOnce
    <3>4. InHand(v) = {} /\ InHand(v)' \subseteq {Head(b).req}
      BY <2>1, <3>1 DEF Take, InHand, OnceInv, TypeInv, TypeOK
    <3>5. Told(v)' = Told(v) /\ UNCHANGED <<status, saved>>
      BY <1>1, <2>1 DEF Take, Told, engineVars
    <3>6. DistinctReqs(Backlog(v))' /\ Reqs(Backlog(v))' = Reqs(Tail(b))
      <4>1. DistinctReqs(Backlog(v))' = DistinctReqs(Backlog(v)') /\ Reqs(Backlog(v))' = Reqs(Backlog(v)')
        BY DEF DistinctReqs, Reqs
      <4>2. QED
        BY <3>1, <3>3, <4>1
    <3>7. Open(v)' \subseteq Open(v)
      BY <3>2, <3>3, <3>4, <3>6 DEF Open
    <3>8. QED
      BY <3>2, <3>3, <3>4, <3>5, <3>6, <3>7 DEF WorkerOnce
  <2>2. CASE PutReturns(v) \/ Decrement(v) \/ CheckZero(v) \/ Delete(v)
    <3>1. Backlog(v)' = Backlog(v) /\ Told(v)' = Told(v) /\ UNCHANGED <<status, saved>>
      BY <1>1, <2>2 DEF PutReturns, PutDone, PutRaises, Decrement, CheckZero, Delete, Backlog, Told, engineVars
    <3>2. InHand(v)' \subseteq InHand(v)
      BY <2>2 DEF PutReturns, PutDone, PutRaises, Decrement, CheckZero, Delete, Return, InHand, Idle,
                  OnceInv, TypeInv, TypeOK
    <3>3. QED
      BY <3>1, <3>2, OnceKept DEF OnceInv
  <2>3. CASE Report(v)
    <3>1. Backlog(v)' = Backlog(v) /\ UNCHANGED <<status, saved, output, sent>>
      BY <1>1, <2>3 DEF Report, Backlog, engineVars
    <3>2. InHand(v)' = {} /\ InHand(v) = {cur[v].req} /\ finished'[v] = finished[v] \cup {cur[v].req}
      BY <2>3 DEF Report, Return, InHand, Idle, OnceInv, TypeInv, TypeOK
    <3>3. Told(v)' = Told(v) \cup InHand(v)
      BY <3>1, <3>2 DEF Told
    <3>4. /\ DistinctReqs(Backlog(v))' = DistinctReqs(Backlog(v))
          /\ Reqs(Backlog(v))' = Reqs(Backlog(v))
      BY <3>1 DEF DistinctReqs, Reqs
    <3>5. Open(v)' = Reqs(Backlog(v)) /\ Open(v) = Reqs(Backlog(v)) \cup InHand(v)
      BY <3>2, <3>4 DEF Open
    <3>6. WorkerOnce(v)
      BY DEF OnceInv
    <3>7. QED
      BY <3>1, <3>2, <3>3, <3>4, <3>5, <3>6 DEF WorkerOnce
  <2>4. QED
    BY <2>1, <2>2, <2>3 DEF Thread
<1>5. QED
  BY <1>1, <1>2, <1>3, <1>4 DEF OnceInv, engineVars

\* Every step keeps the places of the jobs apart.
LEMMA NextOnce == SavedOnce /\ OnceInv /\ [Next]_vars => OnceInv'
<1> SUFFICES ASSUME SavedOnce, OnceInv, [Next]_vars PROVE OnceInv'
  OBVIOUS
<1>1. CASE ScheduleStep
  BY <1>1, ScheduleOnce
<1>2. ASSUME NEW r \in Request, RequestFinished(r) PROVE OnceInv'
  BY <1>2, FinishOnce
<1>3. CASE Update
  BY <1>3, UpdateOnce
<1>4. ASSUME NEW w \in Worker, Execute(w) PROVE OnceInv'
  BY <1>4, ExecuteOnce
<1>5. ASSUME NEW w \in Worker, Thread(w) PROVE OnceInv'
  BY <1>5, ThreadOnce
<1>6. CASE UNCHANGED vars
  <2>1. UNCHANGED <<status, saved, phase, toRun, meta, output, sent, threadVars>>
    BY <1>6 DEF vars, engineVars
  <2>2. ASSUME NEW w \in Worker PROVE WorkerOnce(w)'
    <3>1. Backlog(w)' = Backlog(w) /\ InHand(w)' = InHand(w) /\ Told(w)' = Told(w)
      BY <2>1 DEF Backlog, InHand, Told, threadVars
    <3>2. QED
      BY <2>1, <3>1, OnceKept DEF OnceInv
  <2>3. TypeInv'
    BY <1>6 DEF OnceInv, TypeInv, TypeOK, vars, engineVars, threadVars
  <2>4. QED
    BY <2>1, <2>2, <2>3 DEF OnceInv
<1>7. QED
  BY <1>1, <1>2, <1>3, <1>4, <1>5, <1>6 DEF Next

\* No worker copies a request whose blocks were freed at its finish, if the
\* request is saved by one step of its only life: whatever fails, and however
\* the reports of the workers and the steps of the engine interleave.
THEOREM CopiesPrecedeFree == ASSUME SavedOnce PROVE Spec => []NoCopyAfterFree
<1>1. OnceInv => NoCopyAfterFree
  <2> SUFFICES ASSUME OnceInv, NEW w \in Worker, NEW j \in Copying(w)
               PROVE  status[j.req] # "done"
    BY DEF NoCopyAfterFree
  <2>1. j.req \in InHand(w) /\ j.req \in Request
    BY DEF Copying, InHand, Idle, OnceInv, TypeInv, Jobs
  <2>2. QED
    BY <2>1 DEF OnceInv, WorkerOnce, Open
<1>2. OnceInv /\ [Next]_vars => OnceInv'
  BY NextOnce
<1>3. QED
  BY <1>1, <1>2, InitOnce, PTL DEF Spec
=============================================================================
