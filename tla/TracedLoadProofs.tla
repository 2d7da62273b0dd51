-------------------------- MODULE TracedLoadProofs --------------------------
(***************************************************************************)
(* The instrumented load path implements the original one, for any number  *)
(* of requests, blocks and tokens: its steps are steps of the original,    *)
(* with a thread that waits to write its record taken for one that waits   *)
(* to report, or leave it as it is.  Each operator of the instance is that *)
(* of LoadPath, which both sides are expanded to.  The invariant of        *)
(* LoadPath holds here as well, and what the records say rests on it.      *)
(***************************************************************************)
EXTENDS TracedLoad, LoadPathProofs

\* There are no records at the start.
LEMMA InitRefines ==
  TracedInit => Original!Init
BY DEF TracedInit, Init, Original!Init, NoSpec, Original!NoSpec, Unknown,
   Original!Unknown, NoJob, Original!NoJob

\* Neither names the thread's place, except to leave it alone.
LEMMA ScheduleRefines ==
  ASSUME NEW r \in Request, Schedule(r)
  PROVE  Original!Schedule(r)
<1>. USE DEF Max, Original!Max, Range, Original!Range, IsInjective,
     Original!IsInjective, Ceil, Original!Ceil, Full, Original!Full, NoSpec,
     Original!NoSpec, Unknown, Original!Unknown, PrefixIn, Original!PrefixIn, Free,
     Original!Free, ComputedBlocks, Original!ComputedBlocks, Slots, Original!Slots,
     Uncached, Original!Uncached, CacheBlocks, Original!CacheBlocks, Allocated,
     Original!Allocated, Forward, Original!Forward, Lookup, Original!Lookup, HitTokens,
     Original!HitTokens, NewMatchedTokens, Original!NewMatchedTokens, MatchedSpec,
     Original!MatchedSpec, EnabledSpec, Original!EnabledSpec, JobsOf, Original!JobsOf,
     TokensToPlace, Original!TokensToPlace, NoteBlocks,
     Original!NoteBlocks, hbmVars, Original!hbmVars, threadVars, Original!threadVars,
     outVars, Original!outVars
<1>1. ASSUME AdmitFails(r) PROVE Original!AdmitFails(r)
  BY <1>1 DEF AdmitFails, Original!AdmitFails
<1>2. ASSUME AdmitLoad(r) PROVE Original!AdmitLoad(r)
  BY <1>2 DEF AdmitLoad, Original!AdmitLoad
<1>3. ASSUME AdmitRun(r) PROVE Original!AdmitRun(r)
  BY <1>3 DEF AdmitRun, Original!AdmitRun
<1>4. ASSUME Resume(r) PROVE Original!Resume(r)
  BY <1>4 DEF Resume, Original!Resume
<1>5. ASSUME Leave(r) PROVE Original!Leave(r)
  BY <1>5 DEF Leave, Original!Leave
<1>. QED BY <1>1, <1>2, <1>3, <1>4, <1>5 DEF Schedule, Original!Schedule

\* A copy that goes on to its record goes on to its report.
LEMMA GetRefines ==
  TracedGet => Original!Get
BY DEF TracedGet, Original!Get, CopyIn, Original!CopyIn, Wanted, Original!Wanted,
   threadVars, Original!threadVars, poolVars, Original!poolVars, outVars,
   Original!outVars

\* A handler that raises leaves the thread idle in both.
LEMMA GetRaisesRefines ==
  GetRaises => Original!GetRaises
BY DEF GetRaises, Original!GetRaises, Wanted, Original!Wanted, poolVars,
   Original!poolVars, outVars, Original!outVars

\* Writing the record is no step of the original thread.
LEMMA TraceLoadStutters ==
  TraceLoad => UNCHANGED Original!vars
BY DEF TraceLoad, hbmVars, Original!hbmVars, poolVars, Original!poolVars, threadVars,
   Original!threadVars, outVars, Original!outVars, vars, Original!vars

\* The report is the one of the original.
LEMMA ReportRefines ==
  Report => Original!Report
BY DEF Report, Original!Report, hbmVars, Original!hbmVars, poolVars, Original!poolVars,
   outVars, Original!outVars

\* A job that is through leaves the thread idle in both.
LEMMA FinishRefines ==
  Finish => Original!Finish
BY DEF Finish, Original!Finish, NoJob, Original!NoJob, hbmVars, Original!hbmVars,
   poolVars, Original!poolVars, outVars, Original!outVars

\* The engine's end of a step does not name the thread's place.
LEMMA EndStepRefines ==
  EndStep => Original!EndStep
BY DEF EndStep, Original!EndStep, CollectFinished, Original!CollectFinished,
   UpdateFromOutput, Original!UpdateFromOutput, Max, Original!Max, Range,
   Original!Range, PrefixIn, Original!PrefixIn, Full, Original!Full, Good,
   Original!Good, Hurt, Original!Hurt, Places, Original!Places, StillLoading,
   Original!StillLoading, hbmVars, Original!hbmVars, poolVars, Original!poolVars

\* The store knows nothing of records.
LEMMA StoreRefines ==
  StoreChanges => Original!StoreChanges
BY DEF StoreChanges, Original!StoreChanges, Max, Original!Max, Ceil, Original!Ceil,
   Position, Original!Position, Publish, Original!Publish, Evict, Original!Evict,
   hbmVars, Original!hbmVars, poolVars, Original!poolVars, threadVars,
   Original!threadVars, outVars, Original!outVars

\* Nothing changes in the original when nothing changes here.
LEMMA StutterRefines ==
  UNCHANGED tracedVars => UNCHANGED Original!vars
BY DEF tracedVars, hbmVars, Original!hbmVars, poolVars, Original!poolVars, threadVars,
   Original!threadVars, outVars, Original!outVars, vars, Original!vars

\* One case per action of the instrumented path.
LEMMA StepRefines == [TracedNext]_tracedVars => [Original!Next]_Original!vars
<1>. SUFFICES ASSUME [TracedNext]_tracedVars PROVE [Original!Next]_Original!vars
  OBVIOUS
<1>1. ASSUME NEW r \in Request, TracedSchedule(r) PROVE Original!Schedule(r)
  <2>1. Schedule(r)
    BY <1>1 DEF TracedSchedule, TracedAdmit, Schedule
  <2>. QED BY <2>1, ScheduleRefines
<1>2. CASE TracedThread
  BY <1>2, GetRefines, GetRaisesRefines, TraceLoadStutters, ReportRefines, FinishRefines
     DEF TracedThread, Original!Next, Original!Thread
<1>3. CASE TracedEndStep
  BY <1>3, EndStepRefines DEF TracedEndStep, Original!Next
<1>4. CASE StoreChanges
  BY <1>4, StoreRefines DEF Original!Next
<1>5. CASE UNCHANGED tracedVars
  BY <1>5, StutterRefines
<1>. QED BY <1>1, <1>2, <1>3, <1>4, <1>5 DEF TracedNext, Original!Next

\* With its records hidden, every behaviour of the instrumented files is one
\* of the original files: the trace lines change what is written to a log and
\* nothing else, also when a record cannot be written.
THEOREM TracesAreTransparent == TracedSpec => Transparent
BY InitRefines, StepRefines, PTL DEF TracedSpec, Transparent, Original!Spec

-----------------------------------------------------------------------------
(* The record of a load *)

\* The record of r's load says whether vLLM has cut it, or is about to.
Told(r) ==
  /\ loads[r] = "success" => r \notin suspect \cup Hurt(invalid)
  /\ loads[r] = "failure" => r \in suspect \cup Hurt(invalid)

\* Nothing is recorded of a load that is still queued; while the thread is
\* between its record and its report, the record is of the codes it has; and
\* only requests it is through with are cut.
RecordInv ==
  /\ loads \in [Request -> {"none", "success", "failure"}]
  /\ \A q \in suspect : Past(q)
  /\ \A i \in 1..Len(queue) : loads[queue[i].req] = "none"
  /\ recv = "trace" => loads[job.req] = "none"
  /\ recv = "report" => /\ loads[job.req] = "success" => failed = {}
                        /\ loads[job.req] = "failure" => failed # {}
  /\ \A r \in Request : Past(r) => Told(r)

\* Writing the record keeps what LoadPath's steps keep.
LEMMA TraceLoadInv == ASSUME LoadInv, TraceLoad PROVE LoadInv'
<1>. USE DEF hbmVars, poolVars, outVars, Copied
<1>1. /\ recv = "trace" /\ recv' = "report"
      /\ UNCHANGED <<data, cached, held, status, computed, loadSpec, pooled, loading, queue, job, failed,
                     invalid, received, dropped, engine, got, suspect>>
  BY DEF TraceLoad
<1>2. Types'
  BY <1>1 DEF LoadInv, Types
<1>3. JobInv'
  BY <1>1 DEF LoadInv, JobInv, LoadingIsExact, Busy, Sound, Wanted
<1>4. \A r : \A i : Private(r, i)' <=> Private(r, i)
  BY <1>1 DEF Private
<1>5. \A r : Past(r)' <=> Past(r)
  BY <1>1 DEF Past
<1>6. \A b : Pending(b)' <=> Pending(b)
  BY <1>1 DEF Pending, Queued, Wanted
<1>7. PrivateInv'
  BY <1>1, <1>4, <1>5 DEF LoadInv, PrivateInv, Busy, Wanted
<1>8. DataInv'
  BY <1>1, <1>6 DEF LoadInv, DataInv, CachedIsTrue
<1>. QED BY <1>2, <1>3, <1>7, <1>8 DEF LoadInv

\* The other steps are those of LoadPath.
LEMMA TracedKeepsLoadInv ==
  ASSUME LoadInv, [TracedNext]_tracedVars
  PROVE  LoadInv'
<1>1. ASSUME Next \/ UNCHANGED vars PROVE LoadInv'
  BY <1>1, StepInv
<1>2. ASSUME NEW r \in Request, TracedSchedule(r) PROVE LoadInv'
  BY <1>1, <1>2 DEF TracedSchedule, TracedAdmit, Schedule, Next
<1>3. CASE TracedGet
  BY <1>3, GetInv DEF TracedGet
<1>4. CASE TraceLoad
  BY <1>4, TraceLoadInv
<1>5. CASE GetRaises \/ Report \/ Finish
  BY <1>1, <1>5 DEF Thread, Next
<1>6. CASE TracedEndStep \/ StoreChanges \/ UNCHANGED tracedVars
  BY <1>1, <1>6 DEF TracedEndStep, tracedVars, Next
<1>. QED BY <1>2, <1>3, <1>4, <1>5, <1>6 DEF TracedNext, TracedThread

\* A request is hurt when it is parked and holds a bad block.
LEMMA HurtMeans ==
  ASSUME held \in [Request -> Seq(Block)], NEW q \in Request, NEW bad
  PROVE  q \in Hurt(bad) <=> status[q] = "loading" /\ \E k \in 1..Len(held[q]) : held[q][k] \in bad
<1>1. held[q] \in Seq(Block)
  OBVIOUS
<1>2. \A b : b \in Range(held[q]) <=> \E k \in 1..Len(held[q]) : held[q][k] = b
  BY <1>1 DEF Range
<1>. QED BY <1>2 DEF Hurt

\* The thread is through with parked requests only, and not with one whose
\* job it has or will have.
LEMMA PastMeans ==
  ASSUME LoadInv
  PROVE  /\ \A q \in Request : Past(q) => status[q] = "loading"
         /\ \A i \in 1..Len(queue) : queue[i].req \in Request /\ status[queue[i].req] = "loading"
         /\ recv # "idle" => /\ job.req \in Request /\ status[job.req] = "loading"
                             /\ job.req \notin received \cup got
                             /\ \A i \in 1..Len(queue) : queue[i].req # job.req
<1>1. Types /\ JobInv
  BY DEF LoadInv
<1>2. \A i \in 1..Len(queue) : queue[i] \in JobType /\ Sound(queue[i])
  BY <1>1 DEF Types, JobInv
<1>3. recv # "idle" => job \in JobType /\ Sound(job)
  BY <1>1 DEF JobInv, Busy
<1>. QED BY <1>1, <1>2, <1>3 DEF Past, Sound, JobType, JobInv, Busy

\* What the scheduler does with a request that is not parked says nothing of
\* the loads of those that are.
LEMMA ScheduleKeepsRecords ==
  ASSUME LoadInv, LoadInv', RecordInv, NEW r \in Request, status[r] # "loading",
         UNCHANGED <<recv, job, failed, invalid, received, got, suspect>>,
         \A q \in Request \ {r} : held'[q] = held[q] /\ status'[q] = status[q],
         loads' \in {loads, [loads EXCEPT ![r] = "none"]},
         \A i \in 1..Len(queue') : \/ \E k \in 1..Len(queue) : queue'[i] = queue[k]
                                   \/ queue'[i].req = r /\ loads'[r] = "none"
  PROVE  RecordInv'
<1>1. loads' \in [Request -> {"none", "success", "failure"}] /\ \A q \in Request \ {r} : loads'[q] = loads[q]
  BY DEF RecordInv
<1>2. \A q : Past(q)' <=> Past(q)
  BY DEF Past
<1>3. \A i \in 1..Len(queue) : queue[i].req \in Request \ {r}
  BY PastMeans
<1>4. recv # "idle" => job.req \in Request \ {r}
  BY PastMeans
<1>5. \A i \in 1..Len(queue') : loads'[queue'[i].req] = "none"
  BY <1>1, <1>3 DEF RecordInv
<1>6. held \in [Request -> Seq(Block)] /\ held' \in [Request -> Seq(Block)]
  BY DEF LoadInv, Types
<1>7. ASSUME NEW q \in Request, Past(q) PROVE Told(q)'
  <2>1. q # r /\ Told(q)
    BY <1>7, PastMeans DEF RecordInv
  <2>2. q \in Hurt(invalid)' <=> q \in Hurt(invalid)
    <3>1. held'[q] = held[q] /\ status'[q] = status[q]
      BY <2>1
    <3>. QED BY <3>1 DEF Hurt
  <2>3. loads'[q] = loads[q]
    BY <1>1, <2>1
  <2>. QED BY <2>1, <2>2, <2>3 DEF Told
<1>. QED BY <1>1, <1>2, <1>4, <1>5, <1>7 DEF RecordInv

\* Nothing a record speaks of changes.
LEMMA OtherKeepsRecords ==
  ASSUME RecordInv, UNCHANGED <<held, status, queue, recv, job, failed, invalid, suspect, loads>>,
         received' \cup got' = received \cup got
  PROVE  RecordInv'
<1>1. \A q : Past(q)' <=> Past(q)
  BY DEF Past
<1>2. Hurt(invalid)' = Hurt(invalid)
  BY DEF Hurt
<1>3. \A q : Told(q)' <=> Told(q)
  BY <1>2 DEF Told
<1>. QED BY <1>1, <1>3 DEF RecordInv

\* One case per action of a schedule.
LEMMA TracedScheduleRecords ==
  ASSUME LoadInv, LoadInv', RecordInv, NEW r \in Request, TracedSchedule(r)
  PROVE  RecordInv'
<1>. USE DEF threadVars, outVars, traceVars
<1>1. Types
  BY DEF LoadInv
<1>2. loads \in [Request -> {"none", "success", "failure"}]
  BY DEF RecordInv
<1>3. CASE AdmitFails(r) \/ Resume(r) \/ Leave(r)
  <2>0. queue' = queue
    BY <1>3, AdmitFailsInv DEF Resume, Leave
  <2>1. /\ status[r] # "loading"
        /\ UNCHANGED <<recv, job, failed, invalid, received, got, suspect>>
    BY <1>3 DEF AdmitFails, Resume, Leave
  <2>2. \A q \in Request \ {r} : held'[q] = held[q] /\ status'[q] = status[q]
    <3>1. held \in [Request -> Seq(Block)] /\ DOMAIN status = Request
      BY <1>1 DEF Types
    <3>2. held' = held \/ \E s : held' = [held EXCEPT ![r] = s]
      BY <1>3 DEF AdmitFails, Resume, Leave, hbmVars
    <3>3. status' = status \/ \E x : status' = [status EXCEPT ![r] = x]
      BY <1>3 DEF AdmitFails, Resume, Leave
    <3>. QED BY <3>1, <3>2, <3>3
  <2>3. loads' \in {loads, [loads EXCEPT ![r] = "none"]}
    BY DEF TracedSchedule, TracedAdmit
  <2>. QED BY <2>0, <2>1, <2>2, <2>3, ScheduleKeepsRecords
<1>4. CASE TracedAdmit(r) /\ (AdmitLoad(r) \/ AdmitRun(r))
  <2>1. /\ status[r] # "loading"
        /\ UNCHANGED <<recv, job, failed, invalid, received, got, suspect>>
    BY <1>4 DEF AdmitLoad, AdmitRun
  <2>2. \A q \in Request \ {r} : held'[q] = held[q] /\ status'[q] = status[q]
    <3>1. held \in [Request -> Seq(Block)] /\ DOMAIN status = Request
      BY <1>1 DEF Types
    <3>2. \E s : held' = [held EXCEPT ![r] = s]
      BY <1>4 DEF AdmitLoad, AdmitRun
    <3>3. \E x : status' = [status EXCEPT ![r] = x]
      BY <1>4 DEF AdmitLoad, AdmitRun
    <3>. QED BY <3>1, <3>2, <3>3
  <2>3. loads' = [loads EXCEPT ![r] = "none"] /\ loads'[r] = "none"
    BY <1>2, <1>4 DEF TracedAdmit
  <2>4. \E spec, bl : queue' = queue \o JobsOf(r, spec, bl)
    <3>1. CASE AdmitLoad(r)
      <4>1. PICK l, bl : queue' = queue \o JobsOf(r, EnabledSpec(r, l), bl)
        BY <3>1 DEF AdmitLoad
      <4>. QED BY <4>1
    <3>2. CASE AdmitRun(r)
      <4>1. PICK l, bl : queue' = queue \o JobsOf(r, EnabledSpec(r, l), bl)
        BY <3>2 DEF AdmitRun
      <4>. QED BY <4>1
    <3>. QED BY <1>4, <3>1, <3>2
  <2>5. \A i \in 1..Len(queue') : \/ \E k \in 1..Len(queue) : queue'[i] = queue[k]
                                  \/ queue'[i].req = r
    <3>1. PICK jobs : (jobs = << >> \/ \E j : j.req = r /\ jobs = <<j>>) /\ queue' = queue \o jobs
      <4>1. \A spec, bl : \/ JobsOf(r, spec, bl) = << >>
                          \/ JobsOf(r, spec, bl) = << [req |-> r, from |-> Full(spec.vllm), blocks |-> bl] >>
        BY DEF JobsOf
      <4>2. \A f, bl : [req |-> r, from |-> f, blocks |-> bl].req = r
        OBVIOUS
      <4>. QED BY <2>4, <4>1, <4>2
    <3>2. queue \in Seq(JobType)
      BY <1>1 DEF Types
    <3>3. CASE jobs = << >>
      <4>1. queue' = queue
        BY <3>1, <3>2, <3>3, ConcatEmptySeq
      <4>. QED BY <4>1
    <3>4. CASE \E j : j.req = r /\ jobs = <<j>>
      <4>1. PICK j : j.req = r /\ jobs = <<j>>
        BY <3>4
      <4>. DEFINE T == JobType \cup {j}
      <4>2. queue \in Seq(T) /\ j \in T
        BY <3>2
      <4>. HIDE DEF T
      <4>3. <<j>> \in Seq(T) /\ Len(<<j>>) = 1 /\ <<j>>[1] = j
        BY <4>2
      <4>4. queue' = queue \o <<j>>
        BY <3>1, <4>1
      <4>5. /\ Len(queue') = Len(queue) + 1 /\ Len(queue) \in Nat
            /\ \A i \in 1..Len(queue) + 1 :
                 queue'[i] = IF i <= Len(queue) THEN queue[i] ELSE <<j>>[i - Len(queue)]
        BY <4>2, <4>3, <4>4, ConcatProperties
      <4>6. \A i \in 1..Len(queue') : \/ i \in 1..Len(queue) /\ queue'[i] = queue[i]
                                      \/ queue'[i] = j
        BY <4>3, <4>5
      <4>. QED BY <4>1, <4>6
    <3>. QED BY <3>1, <3>3, <3>4
  <2>. QED BY <2>1, <2>2, <2>3, <2>5, ScheduleKeepsRecords
<1>. QED BY <1>3, <1>4 DEF TracedSchedule, TracedAdmit

\* The first job's request has no record yet.
LEMMA GetKeepsRecords ==
  ASSUME LoadInv, RecordInv, TracedGet
  PROVE  RecordInv'
<1>1. /\ recv = "idle" /\ recv' = "trace" /\ queue # << >> /\ job' = Head(queue) /\ queue' = Tail(queue)
      /\ UNCHANGED <<held, status, invalid, received, got, suspect, loads>>
  BY DEF TracedGet, CopyIn, outVars, traceVars
<1>2. queue \in Seq(JobType)
  BY DEF LoadInv, Types
<1>3. /\ 1 \in 1..Len(queue) /\ job' = queue[1]
      /\ \A i \in 1..Len(queue') : i + 1 \in 1..Len(queue) /\ queue'[i] = queue[i + 1]
  BY <1>1, <1>2
<1>4. loads'[job'.req] = "none" /\ \A i \in 1..Len(queue') : loads'[queue'[i].req] = "none"
  BY <1>1, <1>3 DEF RecordInv
<1>5. \A q : Past(q)' <=> Past(q)
  BY <1>1 DEF Past
<1>6. Hurt(invalid)' = Hurt(invalid)
  BY <1>1 DEF Hurt
<1>7. \A q : Told(q)' <=> Told(q)
  BY <1>1, <1>6 DEF Told
<1>. QED BY <1>1, <1>4, <1>5, <1>7 DEF RecordInv

\* The first job goes without a record, and no other request's changes.
LEMMA GetRaisesKeepsRecords ==
  ASSUME LoadInv, RecordInv, GetRaises, UNCHANGED traceVars
  PROVE  RecordInv'
<1>1. /\ recv = "idle" /\ recv' = "idle" /\ queue # << >> /\ queue' = Tail(queue)
      /\ UNCHANGED <<held, status, job, failed, invalid, received, got, suspect, loads>>
  BY DEF GetRaises, outVars, traceVars
<1>2. queue \in Seq(JobType)
  BY DEF LoadInv, Types
<1>3. \A i \in 1..Len(queue') : i + 1 \in 1..Len(queue) /\ queue'[i] = queue[i + 1]
  BY <1>1, <1>2
<1>4. \A i \in 1..Len(queue') : loads'[queue'[i].req] = "none"
  BY <1>1, <1>3 DEF RecordInv
<1>5. \A q : Past(q)' <=> Past(q)
  BY <1>1 DEF Past
<1>6. Hurt(invalid)' = Hurt(invalid)
  BY <1>1 DEF Hurt
<1>7. \A q : Told(q)' <=> Told(q)
  BY <1>1, <1>6 DEF Told
<1>. QED BY <1>1, <1>4, <1>5, <1>7 DEF RecordInv

\* The record is of a load that is not through, and of no other's.
LEMMA TraceKeepsRecords ==
  ASSUME LoadInv, RecordInv, TraceLoad
  PROVE  RecordInv'
<1>1. /\ recv = "trace" /\ recv' = "report"
      /\ UNCHANGED <<held, status, queue, job, failed, invalid, received, got, suspect>>
      /\ loads' = loads \/ loads' = [loads EXCEPT ![job.req] = IF LoadSuccess THEN "success" ELSE "failure"]
  BY DEF TraceLoad, hbmVars, outVars
<1>2. /\ job.req \in Request /\ job.req \notin received \cup got
      /\ \A i \in 1..Len(queue) : queue[i].req # job.req /\ queue[i].req \in Request
  BY <1>1, PastMeans
<1>3. /\ loads \in [Request -> {"none", "success", "failure"}] /\ loads[job.req] = "none"
      /\ \A i \in 1..Len(queue) : loads[queue[i].req] = "none"
  BY <1>1 DEF RecordInv
<1>4. /\ loads' \in [Request -> {"none", "success", "failure"}]
      /\ \A q \in Request : q # job.req => loads'[q] = loads[q]
      /\ loads'[job.req] = "success" => failed = {}
      /\ loads'[job.req] = "failure" => failed # {}
  <2>1. CASE loads' = loads
    BY <1>3, <2>1
  <2>2. CASE loads' = [loads EXCEPT ![job.req] = IF LoadSuccess THEN "success" ELSE "failure"]
    BY <1>2, <1>3, <2>2 DEF LoadSuccess
  <2>. QED BY <1>1, <2>1, <2>2
<1>5. \A i \in 1..Len(queue) : loads'[queue[i].req] = "none"
  BY <1>2, <1>3, <1>4
<1>6. \A q : Past(q)' <=> Past(q)
  BY <1>1 DEF Past
<1>7. \A q : Past(q) => q # job.req
  BY <1>1, <1>2 DEF Past
<1>8. Hurt(invalid)' = Hurt(invalid)
  BY <1>1 DEF Hurt
<1>9. \A q \in Request : Past(q) => Told(q)'
  BY <1>1, <1>4, <1>7, <1>8 DEF Told, RecordInv
<1>. QED BY <1>1, <1>4, <1>5, <1>6, <1>9 DEF RecordInv

\* The failed blocks are those of the job's request alone: it is hurt by the
\* report when, and only when, one failed.
LEMMA ReportKeepsRecords ==
  ASSUME LoadInv, RecordInv, Report, UNCHANGED traceVars
  PROVE  RecordInv'
<1>. USE DEF Copied
<1>1. /\ recv = "report" /\ recv' = "finish" /\ invalid' = invalid \cup failed
      /\ UNCHANGED <<held, status, queue, job, failed, received, got, suspect, loads>>
  BY DEF Report, hbmVars, outVars, traceVars
<1>2. Types /\ JobInv /\ PrivateInv /\ Busy
  BY <1>1 DEF LoadInv, Busy
<1>. DEFINE p == job.req
<1>3. /\ p \in Request /\ status[p] = "loading" /\ p \notin received \cup got /\ ~Past(p)
      /\ held \in [Request -> Seq(Block)]
  BY <1>1, <1>2, PastMeans DEF Past, Types
<1>4. p \notin suspect /\ p \notin Hurt(invalid)
  BY <1>3, HurtFacts DEF RecordInv
<1>5. \A b \in failed : \E k \in 1..Len(held[p]) : b = held[p][k] /\ Private(p, k)
  <2>1. Sound(job) /\ job \in JobType
    BY <1>2 DEF JobInv
  <2>2. \A k \in Wanted(job) : Private(p, k) /\ k \in 1..Len(held[p])
    BY <1>2, <2>1 DEF PrivateInv, Wanted, Sound, JobType
  <2>3. \A b \in failed : \E k \in Wanted(job) : b = held[p][k]
    BY <1>1, <1>2, <2>1 DEF JobInv, Sound
  <2>. QED BY <2>2, <2>3
<1>. HIDE DEF p
<1>6. \A q \in Request : Past(q)' <=> Past(q) \/ q = p
  BY <1>1 DEF Past, p
<1>7. ASSUME NEW q \in Request, q # p PROVE q \in Hurt(invalid') <=> q \in Hurt(invalid)
  <2>1. ASSUME NEW k \in 1..Len(held[q]), held[q][k] \in failed PROVE FALSE
    <3>1. PICK m \in 1..Len(held[p]) : held[q][k] = held[p][m] /\ Private(p, m)
      BY <1>5, <2>1
    <3>. QED BY <1>7, <3>1 DEF Private
  <2>. QED BY <1>1, <1>3, <2>1, HurtMeans
<1>8. p \in Hurt(invalid') <=> failed # {}
  <2>1. p \in Hurt(invalid') <=> \E k \in 1..Len(held[p]) : held[p][k] \in invalid'
    BY <1>3, HurtMeans
  <2>2. \A k \in 1..Len(held[p]) : held[p][k] \notin invalid
    BY <1>3, <1>4, HurtMeans
  <2>. QED BY <1>1, <1>5, <2>1, <2>2
<1>9. Hurt(invalid)' = Hurt(invalid')
  BY <1>1 DEF Hurt
<1>10. \A q \in Request : Past(q)' => Told(q)'
  <2>. SUFFICES ASSUME NEW q \in Request, Past(q)' PROVE Told(q)'
    OBVIOUS
  <2>1. CASE q = p
    <3>1. loads[p] = "success" => failed = {}
      BY <1>1 DEF RecordInv, p
    <3>2. loads[p] = "failure" => failed # {}
      BY <1>1 DEF RecordInv, p
    <3>. QED BY <1>1, <1>4, <1>8, <1>9, <2>1, <3>1, <3>2 DEF Told
  <2>2. CASE q # p
    <3>1. Told(q)
      BY <1>6, <2>2 DEF RecordInv
    <3>. QED BY <1>1, <1>7, <1>9, <2>2, <3>1 DEF Told
  <2>. QED BY <2>1, <2>2
<1>11. \A q \in suspect' : Past(q)'
  <2>1. suspect \subseteq Request
    BY <1>2 DEF Types
  <2>. QED BY <1>1, <1>6, <2>1 DEF RecordInv
<1>. QED BY <1>1, <1>10, <1>11 DEF RecordInv

\* The end of a step takes the hurt requests into the suspects, and forgets
\* those it has collected.
LEMMA UpdateKeepsRecords ==
  ASSUME LoadInv, RecordInv, UpdateFromOutput, UNCHANGED traceVars
  PROVE  RecordInv'
<1>1. /\ invalid' = {} /\ suspect' = (suspect \cup Hurt(invalid)) \ got /\ got' = {}
      /\ UNCHANGED <<queue, recv, job, failed, received, loads>>
  BY DEF UpdateFromOutput, traceVars
<1>2. Types /\ JobInv
  BY DEF LoadInv
<1>3. \A q : Past(q)' => Past(q) /\ q \notin got
  <2>1. recv = "finish" => job.req \notin got
    BY PastMeans
  <2>. QED BY <1>1, <1>2, <2>1 DEF Past, JobInv
<1>4. \A q : Past(q) /\ q \notin got => Past(q)'
  BY <1>1 DEF Past
<1>5. \A q \in suspect' : Past(q)'
  <2>1. \A q \in Hurt(invalid) : q \in Request
    BY DEF Hurt
  <2>2. \A q \in Hurt(invalid) : Past(q)
    BY <2>1, HurtFacts
  <2>. QED BY <1>1, <1>4, <2>2 DEF RecordInv
<1>6. Hurt(invalid)' = {}
  BY <1>1 DEF Hurt
<1>7. \A q \in Request : Past(q)' => Told(q)'
  BY <1>1, <1>3, <1>6 DEF Told, RecordInv
<1>. QED BY <1>1, <1>5, <1>7 DEF RecordInv

\* One case per action.
LEMMA RecordStep ==
  ASSUME LoadInv, LoadInv', RecordInv, [TracedNext]_tracedVars
  PROVE  RecordInv'
<1>1. CASE Finish /\ UNCHANGED traceVars
  <2>1. /\ recv = "finish" /\ recv' = "idle" /\ received' = received \cup {job.req}
        /\ UNCHANGED <<held, status, queue, invalid, got, suspect, loads>>
    BY <1>1 DEF Finish, hbmVars, outVars, traceVars
  <2>2. \A q : Past(q)' <=> Past(q)
    BY <2>1 DEF Past
  <2>3. Hurt(invalid)' = Hurt(invalid)
    BY <2>1 DEF Hurt
  <2>4. \A q : Told(q)' <=> Told(q)
    BY <2>1, <2>3 DEF Told
  <2>. QED BY <2>1, <2>2, <2>4 DEF RecordInv
<1>2. CASE CollectFinished /\ UNCHANGED traceVars
  <2>1. Types /\ JobInv
    BY DEF LoadInv
  <2>2. got = {} /\ received \subseteq loading
    BY <1>2, <2>1 DEF CollectFinished, JobInv, LoadingIsExact, Types
  <2>3. received' \cup got' = received \cup got
    BY <1>2, <2>2 DEF CollectFinished
  <2>. QED BY <1>2, <2>3, OtherKeepsRecords DEF CollectFinished, hbmVars, traceVars
<1>3. CASE StoreChanges /\ UNCHANGED traceVars
  BY <1>3, OtherKeepsRecords DEF StoreChanges, hbmVars, threadVars, outVars, traceVars
<1>4. CASE UNCHANGED tracedVars
  BY <1>4, OtherKeepsRecords DEF tracedVars, vars, hbmVars, threadVars, outVars, traceVars
<1>. QED BY <1>1, <1>2, <1>3, <1>4, TracedScheduleRecords, GetKeepsRecords, GetRaisesKeepsRecords,
        TraceKeepsRecords,
        ReportKeepsRecords, UpdateKeepsRecords
     DEF TracedNext, TracedThread, TracedEndStep, EndStep

\* The records are right in every state the specification reaches.
LEMMA RecordsAreKept == TracedSpec => [](LoadInv /\ RecordInv)
<1>1. TracedInit => LoadInv /\ RecordInv
  <2>. SUFFICES ASSUME TracedInit PROVE LoadInv /\ RecordInv
    OBVIOUS
  <2>1. LoadInv
    BY InitInv DEF TracedInit
  <2>2. RecordInv
    BY DEF TracedInit, Init, RecordInv, Past
  <2>. QED BY <2>1, <2>2
<1>2. LoadInv /\ RecordInv /\ [TracedNext]_tracedVars => (LoadInv /\ RecordInv)'
  BY TracedKeepsLoadInv, RecordStep
<1>. QED BY <1>1, <1>2, PTL DEF TracedSpec

\* A load that is reported is told as what it was: a record of success is of
\* a request that keeps all its tokens, one of failure of a request that vLLM
\* cuts, whatever other loads fail or are lost in the meantime.
THEOREM RecordsTellLoads == TracedSpec => []RecordTellsLoad
<1>1. LoadInv /\ RecordInv => RecordTellsLoad
  BY DEF LoadInv, Types, RecordInv, Told, Past, RecordTellsLoad
<1>. QED BY <1>1, RecordsAreKept, PTL
=============================================================================
