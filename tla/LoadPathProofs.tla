--------------------------- MODULE LoadPathProofs ---------------------------
(***************************************************************************)
(* What counts as computed or cached is there, whatever the store loses    *)
(* and whenever the receiving thread reports: the safety properties of     *)
(* LoadPath for any number of requests, blocks and tokens.                 *)
(***************************************************************************)
EXTENDS LoadPathLemmas

JobType == [req : Request, from : Nat, blocks : Seq(Block)]

\* A spec that has not been enabled: one that has is taken in the same step.
WaitingSpec == [vllm : Nat, kvpool : Nat, canLoad : {FALSE}]

Types ==
  /\ data \in [Block -> Nat] /\ cached \in [Block -> Nat]
  /\ held \in [Request -> Seq(Block)]
  /\ status \in [Request -> {"waiting", "loading", "ready", "running", "done"}]
  /\ computed \in [Request -> Nat]
  /\ loadSpec \in [Request -> WaitingSpec]
  /\ pooled \in [Request -> Seq(Block) \cup {Unknown}]
  /\ dropped \subseteq Request /\ loading \subseteq Request /\ received \subseteq Request
  /\ got \subseteq Request /\ suspect \subseteq Request
  /\ recv \in {"idle", "trace", "report", "finish"} /\ engine \in {"schedule", "output"}
  /\ failed \subseteq Block /\ invalid \subseteq Block
  /\ queue \in Seq(JobType) /\ job \in JobType \cup {NoJob}

Busy == recv # "idle"

\* The thread has copied, and not yet reported what failed.  The trace files
\* write a record in between, so that the invariant serves TracedLoad too.
Copied == recv \in {"trace", "report"}
USE DEF Copied

\* The thread is through with the load of r, but for the last lock.
Past(r) == r \in received \cup got \/ (recv = "finish" /\ job.req = r)

\* A job belongs to a parked request and loads into the blocks it holds.
Sound(j) ==
  /\ status[j.req] = "loading" /\ j.blocks = held[j.req] /\ j.from <= Len(j.blocks)
  /\ j.req \notin received \cup got \cup dropped

\* Every parked request has one job, and then is received, and then collected,
\* unless the handler raises: then it stays parked, and nothing comes after.
JobInv ==
  /\ LoadingIsExact
  /\ \A i \in 1..Len(queue) : Sound(queue[i])
  /\ Busy => job \in JobType /\ Sound(job)
  /\ \A i, k \in 1..Len(queue) : queue[i].req = queue[k].req => i = k
  /\ Busy => \A i \in 1..Len(queue) : queue[i].req # job.req
  /\ received \cap got = {} /\ \A r \in received \cup got : status[r] = "loading"
  /\ \A r \in dropped : status[r] = "loading" /\ r \notin received \cup got
  /\ engine = "schedule" => got = {}
  /\ Copied => \A b \in failed : \E i \in Wanted(job) : b = job.blocks[i]

\* Block i of r is nobody else's and not in the prefix cache.
Private(r, i) ==
  /\ cached[held[r][i]] = 0
  /\ \A q \in Request \ {r} : \A k \in 1..Len(held[q]) : held[q][k] # held[r][i]

\* Blocks that may not be there: to be loaded, or failed.
Queued(b)  == \E a \in 1..Len(queue) : \E i \in Wanted(queue[a]) : b = queue[a].blocks[i]
Pending(b) == Queued(b) \/ (Copied /\ b \in failed) \/ b \in invalid

\* What a request holds behind its computed tokens, and what is loaded for
\* it, is its own.
PrivateInv ==
  /\ \A r \in Request : \A i, k \in 1..Len(held[r]) : held[r][i] = held[r][k] => i = k
  /\ \A i \in 1..Len(queue) : \A k \in Wanted(queue[i]) : Private(queue[i].req, k)
  /\ Busy => \A k \in Wanted(job) : Private(job.req, k)
  /\ \A r \in Request : status[r] \in {"loading", "ready"} =>
       \A i \in 1..Len(held[r]) : i > Full(computed[r]) => Private(r, i)
  /\ \A r \in Request : status[r] = "loading" =>
       \A i, k \in 1..Len(held[r]) : held[r][i] \in invalid /\ i <= k => Private(r, k)
  /\ \A b \in invalid : \E r \in Request : 
       status[r] = "loading" /\ Past(r) /\ \E i \in 1..Len(held[r]) : b = held[r][i]

\* A parked request holds what it should but for what is pending, for what
\* vLLM has cut off after a failure, and unless its load has raised.
DataInv ==
  /\ \A r \in Request : status[r] \in {"loading", "ready", "running"} =>
       Ceil(computed[r]) <= Len(held[r])
  /\ \A r \in Request : status[r] = "loading" =>
       \A i \in 1..Len(held[r]) :
         \/ data[held[r][i]] = i
         \/ Pending(held[r][i])
         \/ r \in suspect /\ i > Ceil(computed[r])
         \/ r \in dropped
  /\ \A r \in suspect : status[r] = "loading" /\ \A i \in 1..Len(held[r]) : ~Pending(held[r][i])
  /\ \A r \in Request : status[r] \in {"ready", "running"} =>
       \A i \in 1..Ceil(computed[r]) : data[held[r][i]] = i
  /\ CachedIsTrue

LoadInv == Types /\ JobInv /\ PrivateInv /\ DataInv

-----------------------------------------------------------------------------
(* Each action keeps the invariant. *)

\* Nothing is held, queued or cached at the start.
LEMMA InitInv == Init => LoadInv
<1>. SUFFICES ASSUME Init PROVE LoadInv
  OBVIOUS
<1>1. Types
  BY DEF Init, Types, WaitingSpec, NoSpec
<1>2. JobInv
  BY DEF Init, JobInv, LoadingIsExact, Busy
<1>3. PrivateInv
  BY DEF Init, PrivateInv, Busy
<1>4. DataInv
  BY DEF Init, DataInv, CachedIsTrue
<1>. QED BY <1>1, <1>2, <1>3, <1>4 DEF LoadInv

\* The store may do what it likes, and so may a try without blocks.
LEMMA OtherInv ==
  ASSUME LoadInv, loadSpec' \in [Request -> WaitingSpec],
         UNCHANGED <<hbmVars, status, computed, pooled, loading, queue, threadVars, outVars>>
  PROVE  LoadInv'
<1>. USE DEF hbmVars, threadVars, outVars
<1>1. Types'
  BY DEF LoadInv, Types
<1>2. JobInv'
  BY DEF LoadInv, JobInv, LoadingIsExact, Busy, Sound, Wanted
<1>3. \A r : \A i : Private(r, i)' <=> Private(r, i)
  BY DEF Private
<1>4. \A r : Past(r)' <=> Past(r)
  BY DEF Past
<1>5. \A b : Pending(b)' <=> Pending(b)
  BY DEF Pending, Queued, Wanted
<1>6. PrivateInv'
  BY <1>3, <1>4 DEF LoadInv, PrivateInv, Busy, Wanted
<1>7. DataInv'
  BY <1>5 DEF LoadInv, DataInv, CachedIsTrue
<1>. QED BY <1>1, <1>2, <1>6, <1>7 DEF LoadInv

\* A running request has no job and nothing pending: its blocks go to nobody yet.
LEMMA LeaveInv ==
  ASSUME LoadInv, NEW r \in Request, Leave(r)
  PROVE  LoadInv'
<1>. USE DEF threadVars, outVars
<1>1. /\ status[r] = "running" /\ r \notin loading
      /\ held' = [held EXCEPT ![r] = << >>]
      /\ computed' = [computed EXCEPT ![r] = 0]
      /\ pooled' = [pooled EXCEPT ![r] = Unknown]
      /\ loading' = loading
      /\ UNCHANGED <<data, cached, loadSpec, queue, threadVars, outVars>>
  BY DEF Leave, LoadInv, JobInv, LoadingIsExact
<1>2. PICK s \in {"waiting", "done"} : status' = [status EXCEPT ![r] = s]
  BY DEF Leave
<1>3. Types
  BY DEF LoadInv
<1>4. Types'
  <2>1. held' \in [Request -> Seq(Block)]
    BY <1>1, <1>3 DEF Types
  <2>2. status' \in [Request -> {"waiting", "loading", "ready", "running", "done"}]
    BY <1>2, <1>3 DEF Types
  <2>3. computed' \in [Request -> Nat] /\ pooled' \in [Request -> Seq(Block) \cup {Unknown}]
    BY <1>1, <1>3 DEF Types
  <2>. QED BY <1>1, <1>3, <2>1, <2>2, <2>3 DEF Types
<1>5. \A q \in Request : status[q] \in {"loading", "ready"} =>
        q # r /\ status'[q] = status[q] /\ held'[q] = held[q] /\ computed'[q] = computed[q]
  BY <1>1, <1>2, <1>3 DEF Types
<1>6. \A q \in Request : status'[q] \in {"loading", "ready", "running"} =>
        q # r /\ status'[q] = status[q] /\ held'[q] = held[q] /\ computed'[q] = computed[q]
  BY <1>1, <1>2, <1>3 DEF Types
<1>7. \A q \in Request \ {r} : \A i : Private(q, i) => Private(q, i)'
  <2>1. \A q \in Request : held'[q] = IF q = r THEN << >> ELSE held[q]
    BY <1>1, <1>3 DEF Types
  <2>. QED BY <1>1, <2>1 DEF Private
<1>8. \A q : Past(q)' <=> Past(q)
  BY <1>1 DEF Past
<1>9. \A b : Pending(b)' <=> Pending(b)
  BY <1>1 DEF Pending, Queued, Wanted
<1>10. JobInv'
  <2>1. LoadingIsExact'
    BY <1>1, <1>2, <1>3 DEF LoadInv, JobInv, LoadingIsExact, Types
  <2>2. \A j \in JobType : Sound(j) => Sound(j)'
    BY <1>1, <1>5 DEF Sound, JobType
  <2>3. \A i \in 1..Len(queue) : queue[i] \in JobType
    BY <1>3 DEF Types
  <2>4. \A q \in received \cup got \cup dropped : status'[q] = "loading"
    BY <1>3, <1>5 DEF LoadInv, JobInv, Types
  <2>. QED BY <1>1, <2>1, <2>2, <2>3, <2>4 DEF LoadInv, JobInv, Busy, Wanted
<1>11. PrivateInv'
  <2>1. \A i \in 1..Len(queue) : queue[i].req \in Request /\ queue[i].req # r
    <3>1. \A i \in 1..Len(queue) : queue[i] \in JobType /\ Sound(queue[i])
      BY <1>3 DEF LoadInv, JobInv, Types
    <3>. QED BY <1>1, <3>1 DEF Sound, JobType
  <2>2. Busy => job.req \in Request /\ job.req # r
    BY <1>1, <1>3 DEF LoadInv, JobInv, Sound, Types, JobType, Busy
  <2>3. \A q \in Request : \A i, k \in 1..Len(held'[q]) : held'[q][i] = held'[q][k] => i = k
    BY <1>1, <1>3 DEF LoadInv, PrivateInv, Types
  <2>4. /\ \A i \in 1..Len(queue) : \A k \in Wanted(queue[i]) : Private(queue[i].req, k)'
        /\ Busy => \A k \in Wanted(job) : Private(job.req, k)'
    BY <1>1, <1>7, <2>1, <2>2 DEF LoadInv, PrivateInv
  <2>5. \A q \in Request : status'[q] \in {"loading", "ready"} =>
          \A i \in 1..Len(held'[q]) : i > Full(computed'[q]) => Private(q, i)'
    BY <1>6, <1>7 DEF LoadInv, PrivateInv
  <2>6. \A q \in Request : status'[q] = "loading" =>
          \A i, k \in 1..Len(held'[q]) : held'[q][i] \in invalid /\ i <= k => Private(q, k)'
    BY <1>6, <1>7 DEF LoadInv, PrivateInv
  <2>7. \A b \in invalid : \E q \in Request :
          status'[q] = "loading" /\ Past(q)' /\ \E i \in 1..Len(held'[q]) : b = held'[q][i]
    BY <1>5, <1>8 DEF LoadInv, PrivateInv
  <2>. QED BY <1>1, <2>3, <2>4, <2>5, <2>6, <2>7 DEF PrivateInv, Busy, Wanted
<1>12. DataInv'
  <2>1. \A q \in suspect : q \in Request
    BY <1>3 DEF Types
  <2>. QED BY <1>1, <1>5, <1>6, <1>9, <2>1 DEF LoadInv, DataInv, CachedIsTrue
<1>. QED BY <1>4, <1>10, <1>11, <1>12 DEF LoadInv

\* The job's request moves from the thread to the received ones.
LEMMA FinishInv == ASSUME LoadInv, Finish PROVE LoadInv'
<1>. USE DEF hbmVars, poolVars, outVars
<1>1. Types /\ JobInv /\ PrivateInv /\ DataInv
  BY DEF LoadInv
<1>2. /\ Busy /\ recv = "finish" /\ recv' = "idle" /\ ~Busy'
      /\ job \in JobType /\ Sound(job) /\ job.req \in Request
      /\ received' = received \cup {job.req}
      /\ job' = NoJob /\ failed' = {}
      /\ UNCHANGED <<data, cached, held, status, computed, loadSpec, pooled, loading, queue, invalid,
                     dropped, engine, got, suspect>>
  BY <1>1 DEF Finish, Busy, JobInv, JobType
<1>3. Types'
  BY <1>1, <1>2 DEF Types
<1>4. JobInv'
  <2>1. \A i \in 1..Len(queue) : Sound(queue[i])'
    BY <1>1, <1>2 DEF JobInv, Sound
  <2>. QED BY <1>1, <1>2, <2>1 DEF JobInv, Sound, LoadingIsExact
<1>5. \A q : \A i : Private(q, i)' <=> Private(q, i)
  BY <1>2 DEF Private
<1>6. \A q : Past(q) => Past(q)'
  BY <1>2 DEF Past
<1>7. \A b : Pending(b)' <=> Pending(b)
  BY <1>2 DEF Pending, Queued, Wanted
<1>8. PrivateInv'
  BY <1>1, <1>2, <1>5, <1>6 DEF PrivateInv, Wanted
<1>9. DataInv'
  BY <1>1, <1>2, <1>7 DEF DataInv, CachedIsTrue
<1>. QED BY <1>3, <1>4, <1>8, <1>9 DEF LoadInv

\* The received requests, all of them parked, become the collected ones.
LEMMA CollectInv == ASSUME LoadInv, CollectFinished PROVE LoadInv'
<1>. USE DEF hbmVars, poolVars
<1>1. Types /\ JobInv /\ PrivateInv /\ DataInv
  BY DEF LoadInv
<1>2. /\ got = {} /\ got' = received /\ received' = {} /\ engine' = "output"
      /\ UNCHANGED <<data, cached, held, status, computed, loadSpec, pooled, loading, queue, recv, job,
                     failed, invalid, dropped, suspect>>
  <2>1. received \subseteq loading
    BY <1>1 DEF JobInv, LoadingIsExact, Types
  <2>. QED BY <1>1, <2>1 DEF CollectFinished, JobInv
<1>3. Types'
  BY <1>1, <1>2 DEF Types
<1>4. JobInv'
  BY <1>1, <1>2 DEF JobInv, Sound, LoadingIsExact, Busy, Wanted
<1>5. \A q : \A i : Private(q, i)' <=> Private(q, i)
  BY <1>2 DEF Private
<1>6. \A q : Past(q) => Past(q)'
  BY <1>2 DEF Past
<1>7. \A b : Pending(b)' <=> Pending(b)
  BY <1>2 DEF Pending, Queued, Wanted
<1>8. PrivateInv'
  BY <1>1, <1>2, <1>5, <1>6 DEF PrivateInv, Wanted, Busy
<1>9. DataInv'
  BY <1>1, <1>2, <1>7 DEF DataInv, CachedIsTrue
<1>. QED BY <1>3, <1>4, <1>8, <1>9 DEF LoadInv

\* The failed blocks of the job become invalid: they are its request's own,
\* from the first one to the end.
LEMMA ReportInv == ASSUME LoadInv, Report PROVE LoadInv'
<1>. USE DEF hbmVars, poolVars, outVars
<1>1. Types /\ JobInv /\ PrivateInv /\ DataInv
  BY DEF LoadInv
<1>2. /\ Busy /\ recv = "report" /\ recv' = "finish" /\ Busy'
      /\ job \in JobType /\ Sound(job) /\ job.req \in Request
      /\ invalid' = invalid \cup failed
      /\ UNCHANGED <<data, cached, held, status, computed, loadSpec, pooled, loading, queue, job, failed,
                     received, dropped, engine, got, suspect>>
  BY <1>1 DEF Report, Busy, JobInv, JobType
<1>3. Types'
  BY <1>1, <1>2 DEF Types
<1>4. JobInv'
  BY <1>1, <1>2 DEF JobInv, Sound, LoadingIsExact
<1>5. \A q : \A i : Private(q, i)' <=> Private(q, i)
  BY <1>2 DEF Private
<1>6. \A q : (Past(q) => Past(q)') /\ (q = job.req => Past(q)')
  BY <1>2 DEF Past
<1>7. \A b : Pending(b)' <=> Pending(b)
  BY <1>2 DEF Pending, Queued, Wanted
<1>8. \A b \in failed : \E w \in Wanted(job) : w \in 1..Len(held[job.req]) /\ b = held[job.req][w]
  BY <1>1, <1>2 DEF JobInv, Sound, Wanted, JobType
<1>9. PrivateInv'
  <2>1. ASSUME NEW r \in Request, status[r] = "loading",
               NEW i \in 1..Len(held[r]), NEW k \in 1..Len(held[r]), held[r][i] \in invalid', i <= k
        PROVE  Private(r, k)
    <3>1. CASE held[r][i] \in invalid
      BY <1>1, <2>1, <3>1 DEF PrivateInv
    <3>2. CASE held[r][i] \in failed
      <4>1. PICK w \in Wanted(job) : w \in 1..Len(held[job.req]) /\ held[r][i] = held[job.req][w]
        BY <1>8, <3>2
      <4>2. Private(job.req, w)
        BY <1>1, <1>2 DEF PrivateInv
      <4>3. r = job.req
        BY <4>1, <4>2 DEF Private
      <4>4. i = w
        BY <1>1, <4>1, <4>3 DEF PrivateInv
      <4>5. k \in Wanted(job)
        BY <1>2, <2>1, <4>3, <4>4 DEF Wanted, Sound, JobType
      <4>. QED BY <1>1, <1>2, <4>3, <4>5 DEF PrivateInv
    <3>. QED BY <1>2, <2>1, <3>1, <3>2
  <2>2. \A b \in invalid' : \E r \in Request :
          status[r] = "loading" /\ Past(r)' /\ \E i \in 1..Len(held[r]) : b = held[r][i]
    <3>1. \A b \in failed : \E i \in 1..Len(held[job.req]) : b = held[job.req][i]
      BY <1>8
    <3>. QED BY <1>1, <1>2, <1>6, <3>1 DEF PrivateInv, Sound
  <2>. QED BY <1>1, <1>2, <1>5, <2>1, <2>2 DEF PrivateInv, Wanted
<1>10. DataInv'
  BY <1>1, <1>2, <1>7 DEF DataInv, CachedIsTrue
<1>. QED BY <1>3, <1>4, <1>9, <1>10 DEF LoadInv

\* The copy fills blocks of the job's request only; those that failed are
\* pending until they are reported.
LEMMA GetInv == ASSUME LoadInv, CopyIn, recv' \in {"trace", "report"} PROVE LoadInv'
<1>. USE DEF poolVars, outVars
<1>1. Types /\ JobInv /\ PrivateInv /\ DataInv
  BY DEF LoadInv
<1>. DEFINE j == Head(queue)  r == j.req
<1>2. /\ recv = "idle" /\ ~Busy /\ Copied' /\ Busy' /\ queue # << >>
      /\ job' = j /\ queue' = Tail(queue)
      /\ UNCHANGED <<cached, held, status, computed, loadSpec, pooled, loading, invalid, received, dropped,
                     engine, got, suspect>>
  BY DEF CopyIn, Busy
<1>3. /\ j = queue[1] /\ Len(queue) >= 1 /\ Len(queue) \in Nat
      /\ Len(queue') = Len(queue) - 1 /\ queue' \in Seq(JobType)
      /\ \A i \in 1..Len(queue') : queue'[i] = queue[i + 1] /\ i + 1 \in 1..Len(queue)
  BY <1>1, <1>2 DEF Types
<1>4. j \in JobType /\ Sound(j) /\ r \in Request
  <2>1. 1 \in 1..Len(queue)
    BY <1>3
  <2>2. queue[1] \in JobType
    BY <1>1, <2>1 DEF Types
  <2>3. Sound(queue[1])
    BY <1>1, <2>1 DEF JobInv
  <2>. QED BY <1>3, <2>2, <2>3 DEF JobType
<1>0. \E bad \in SUBSET Wanted(job') :
        /\ failed' = {job'.blocks[i] : i \in bad}
        /\ data' = [b \in Block |->
                     IF \E i \in Wanted(job') : job'.blocks[i] = b
                     THEN IF b \in failed' THEN 0
                          ELSE CHOOSE i \in Wanted(job') : job'.blocks[i] = b
                     ELSE data[b]]
  BY DEF CopyIn
<1>5. PICK bad \in SUBSET Wanted(j) :
        /\ failed' = {j.blocks[i] : i \in bad}
        /\ data' = [b \in Block |->
                     IF \E i \in Wanted(j) : j.blocks[i] = b
                     THEN IF b \in failed' THEN 0
                          ELSE CHOOSE i \in Wanted(j) : j.blocks[i] = b
                     ELSE data[b]]
  BY <1>0, <1>2
<1>. HIDE DEF j, r
<1>6. /\ j.blocks = held[r] /\ held[r] \in Seq(Block) /\ j.from \in Nat /\ j.from <= Len(held[r])
      /\ Wanted(j) = j.from + 1..Len(held[r])
  BY <1>1, <1>4 DEF Sound, JobType, Types, Wanted, r
<1>7. \A i \in Wanted(j) : i \in 1..Len(held[r]) /\ held[r][i] \in Block
  BY <1>6
<1>8. \A b \in Block : \A i \in Wanted(j) : held[r][i] = b => (CHOOSE k \in Wanted(j) : held[r][k] = b) = i
  BY <1>1, <1>4, <1>7 DEF PrivateInv
<1>9. \A i \in Wanted(j) : data'[held[r][i]] = IF held[r][i] \in failed' THEN 0 ELSE i
  BY <1>5, <1>6, <1>7, <1>8
<1>10. \A b \in Block : (\A i \in Wanted(j) : held[r][i] # b) => data'[b] = data[b]
  BY <1>5, <1>6
<1>11. failed' \subseteq Block /\ \A b \in failed' : \E i \in Wanted(j) : b = held[r][i]
  BY <1>5, <1>6, <1>7
<1>12. data' \in [Block -> Nat]
  <2>. SUFFICES ASSUME NEW b \in Block PROVE data'[b] \in Nat
    BY <1>5
  <2>1. CASE \E i \in Wanted(j) : held[r][i] = b
    BY <1>7, <1>9, <2>1
  <2>2. CASE ~\E i \in Wanted(j) : held[r][i] = b
    BY <1>1, <1>10, <2>2 DEF Types
  <2>. QED BY <2>1, <2>2
<1>13. Types'
  BY <1>1, <1>2, <1>3, <1>4, <1>11, <1>12 DEF Types
<1>14. JobInv'
  <2>1. \A i \in 1..Len(queue') : Sound(queue'[i])
    BY <1>1, <1>3 DEF JobInv
  <2>3. \A q \in JobType : Sound(q) <=> (/\ status'[q.req] = "loading" /\ q.blocks = held'[q.req] /\ q.from <= Len(q.blocks)
                                          /\ q.req \notin received' \cup got' \cup dropped')
    BY <1>2 DEF Sound
  <2>4. \A i \in 1..Len(queue') : queue'[i] \in JobType
    BY <1>3
  <2>5. \A i \in 1..Len(queue') : Sound(queue[i])'
    BY <2>1, <2>3, <2>4 DEF Sound
  <2>6. Sound(job)'
    BY <1>2, <1>4, <2>3 DEF Sound
  <2>7. \A i, k \in 1..Len(queue') : queue'[i].req = queue'[k].req => i = k
    <3>. SUFFICES ASSUME NEW i \in 1..Len(queue'), NEW k \in 1..Len(queue'), queue'[i].req = queue'[k].req
                  PROVE  i = k
      OBVIOUS
    <3>1. i + 1 = k + 1
      BY <1>1, <1>3 DEF JobInv
    <3>. QED BY <1>3, <3>1
  <2>8. \A i \in 1..Len(queue') : queue'[i].req # job'.req
    <3>. SUFFICES ASSUME NEW i \in 1..Len(queue'), queue'[i].req = job'.req
                  PROVE  FALSE
      OBVIOUS
    <3>1. queue[i + 1].req = queue[1].req /\ i + 1 \in 1..Len(queue) /\ 1 \in 1..Len(queue)
      BY <1>2, <1>3 DEF r
    <3>2. i + 1 = 1
      BY <1>1, <3>1 DEF JobInv
    <3>. QED BY <1>3, <3>2
  <2>9. \A b \in failed' : \E i \in Wanted(job)' : b = job'.blocks[i]
    BY <1>2, <1>6, <1>11 DEF Wanted
  <2>10. LoadingIsExact'
    BY <1>1, <1>2 DEF JobInv, LoadingIsExact
  <2>. QED BY <1>1, <1>2, <1>4, <2>5, <2>6, <2>7, <2>8, <2>9, <2>10 DEF JobInv
<1>15. \A q : \A i : Private(q, i)' <=> Private(q, i)
  BY <1>2 DEF Private
<1>16. \A q : Past(q)' <=> Past(q)
  BY <1>2 DEF Past
<1>17. \A b : Queued(b) => Queued(b)' \/ \E i \in Wanted(j) : b = held[r][i]
  <2>. SUFFICES ASSUME NEW b, NEW a \in 1..Len(queue), NEW i \in Wanted(queue[a]), b = queue[a].blocks[i]
                PROVE  Queued(b)' \/ \E k \in Wanted(j) : b = held[r][k]
    BY DEF Queued
  <2>1. CASE a = 1
    BY <1>3, <1>6, <2>1
  <2>2. CASE a # 1
    <3>1. a - 1 \in 1..Len(queue') /\ queue'[a - 1] = queue[a]
      BY <1>3, <2>2
    <3>. QED BY <3>1 DEF Queued, Wanted
  <2>. QED BY <2>1, <2>2
<1>18. \A b : Pending(b)' => Pending(b)
  <2>1. \A b : Queued(b)' => Queued(b)
    BY <1>3 DEF Queued, Wanted
  <2>2. \A b \in failed' : Queued(b)
    <3>1. 1 \in 1..Len(queue)
      BY <1>3
    <3>2. \A b \in failed' : \E i \in Wanted(queue[1]) : b = queue[1].blocks[i]
      BY <1>3, <1>6, <1>11
    <3>. QED BY <3>1, <3>2 DEF Queued
  <2>3. ASSUME NEW b, Pending(b)' PROVE Pending(b)
    <3>1. Queued(b)' \/ b \in failed' \/ b \in invalid
      BY <1>2, <2>3 DEF Pending
    <3>. QED BY <2>1, <2>2, <3>1 DEF Pending
  <2>. QED BY <2>3
<1>19. \A i \in Wanted(j) : Private(r, i)
  <2>1. 1 \in 1..Len(queue)
    BY <1>3
  <2>. QED BY <1>1, <1>3, <2>1 DEF PrivateInv, r
<1>20. PrivateInv'
  <2>1. \A i \in 1..Len(queue') : \A k \in Wanted(queue'[i]) : Private(queue'[i].req, k)
    BY <1>1, <1>3 DEF PrivateInv
  <2>2. \A k \in Wanted(job') : Private(job'.req, k)
    BY <1>2, <1>19 DEF r
  <2>3. \A i \in 1..Len(queue') : \A k \in Wanted(queue[i])' : Private(queue[i].req, k)'
    BY <1>15, <2>1 DEF Wanted
  <2>4. \A k \in Wanted(job)' : Private(job.req, k)'
    BY <1>15, <2>2 DEF Wanted
  <2>. QED BY <1>1, <1>2, <1>15, <1>16, <2>3, <2>4 DEF PrivateInv
<1>21. \A q \in Request : \A i \in 1..Len(held[q]) :
         (q = r /\ i \in Wanted(j)) \/ \A w \in Wanted(j) : held[r][w] # held[q][i]
  <2>. SUFFICES ASSUME NEW q \in Request, NEW i \in 1..Len(held[q]),
                       NEW w \in Wanted(j), held[r][w] = held[q][i]
                PROVE  q = r /\ i \in Wanted(j)
    OBVIOUS
  <2>1. q = r
    BY <1>19 DEF Private
  <2>2. i = w
    BY <1>1, <1>4, <1>7, <2>1 DEF PrivateInv
  <2>. QED BY <2>1, <2>2
<1>22. DataInv'
  <2>1. \A q \in Request : \A i \in 1..Len(held[q]) : held[q][i] \in Block
    BY <1>1 DEF Types
  <2>2. ASSUME NEW q \in Request, status[q] = "loading", NEW i \in 1..Len(held[q])
        PROVE  \/ data'[held[q][i]] = i
               \/ Pending(held[q][i])'
               \/ q \in suspect /\ i > Ceil(computed[q])
               \/ q \in dropped
    <3>1. CASE q = r /\ i \in Wanted(j)
      BY <1>2, <1>9, <3>1 DEF Pending
    <3>2. CASE \A w \in Wanted(j) : held[r][w] # held[q][i]
      <4>1. data'[held[q][i]] = data[held[q][i]]
        BY <1>10, <2>1, <3>2
      <4>2. Pending(held[q][i]) => Pending(held[q][i])'
        BY <1>2, <1>17, <3>2 DEF Pending
      <4>. QED BY <1>1, <2>2, <4>1, <4>2 DEF DataInv
    <3>. QED BY <1>21, <3>1, <3>2
  <2>3. ASSUME NEW q \in Request, status[q] \in {"ready", "running"}, NEW i \in 1..Ceil(computed[q])
        PROVE  data'[held[q][i]] = i
    <3>1. q # r
      BY <1>4, <2>3 DEF Sound, r
    <3>2. Ceil(computed[q]) \in Nat
      BY <1>1, BlockCounts DEF Types
    <3>3. i \in 1..Len(held[q])
      BY <1>1, <2>3, <3>2 DEF DataInv, Types
    <3>4. data'[held[q][i]] = data[held[q][i]]
      BY <1>10, <1>21, <2>1, <3>1, <3>3
    <3>. QED BY <1>1, <2>3, <3>4 DEF DataInv
  <2>4. CachedIsTrue'
    <3>1. \A i \in Wanted(j) : cached[held[r][i]] = 0
      BY <1>19 DEF Private
    <3>. QED BY <1>1, <1>2, <1>10, <3>1 DEF DataInv, CachedIsTrue
  <2>5. \A q \in suspect : status[q] = "loading" /\ \A i \in 1..Len(held[q]) : ~Pending(held[q][i])'
    BY <1>1, <1>2, <1>18 DEF DataInv
  <2>6. \A q \in Request : status[q] \in {"loading", "ready", "running"} => Ceil(computed[q]) <= Len(held[q])
    BY <1>1 DEF DataInv
  <2>. QED BY <1>2, <2>2, <2>3, <2>4, <2>5, <2>6 DEF DataInv
<1>. QED BY <1>13, <1>14, <1>20, <1>22 DEF LoadInv

\* When the handler raises, the request has no job any more and is never
\* received: what its own blocks contain does not matter.
LEMMA GetRaisesInv == ASSUME LoadInv, GetRaises PROVE LoadInv'
<1>. USE DEF poolVars, outVars
<1>1. Types /\ JobInv /\ PrivateInv /\ DataInv
  BY DEF LoadInv
<1>. DEFINE j == Head(queue)  r == j.req
            torn == {j.blocks[i] : i \in Wanted(j)}
<1>2. /\ recv = "idle" /\ ~Busy /\ queue # << >>
      /\ queue' = Tail(queue) /\ dropped' = dropped \cup {r}
      /\ data' \in {data, [b \in Block |-> IF b \in torn THEN 0 ELSE data[b]]}
      /\ UNCHANGED <<cached, held, status, computed, loadSpec, pooled, loading, recv, job, failed,
                     invalid, received, engine, got, suspect>>
  BY DEF GetRaises, Busy
<1>3. /\ j = queue[1] /\ Len(queue) >= 1 /\ Len(queue) \in Nat
      /\ Len(queue') = Len(queue) - 1 /\ queue' \in Seq(JobType)
      /\ \A i \in 1..Len(queue') : queue'[i] = queue[i + 1] /\ i + 1 \in 1..Len(queue)
  BY <1>1, <1>2 DEF Types
<1>4. j \in JobType /\ Sound(j) /\ r \in Request /\ \A i \in Wanted(j) : Private(r, i)
  <2>1. 1 \in 1..Len(queue)
    BY <1>3
  <2>2. queue[1] \in JobType
    BY <1>1, <2>1 DEF Types
  <2>3. Sound(queue[1]) /\ \A i \in Wanted(queue[1]) : Private(queue[1].req, i)
    BY <1>1, <2>1 DEF JobInv, PrivateInv
  <2>. QED BY <1>3, <2>2, <2>3 DEF JobType
<1>. HIDE DEF j, r
<1>5. j.blocks = held[r] /\ status[r] = "loading" /\ r \notin received \cup got
  BY <1>4 DEF Sound, r
<1>6. \A b \in Block : (\A i \in Wanted(j) : held[r][i] # b) => data'[b] = data[b]
  BY <1>2, <1>5
<1>7. data' \in [Block -> Nat]
  <2>1. data \in [Block -> Nat]
    BY <1>1 DEF Types
  <2>. HIDE DEF torn
  <2>2. [b \in Block |-> IF b \in torn THEN 0 ELSE data[b]] \in [Block -> Nat]
    BY <2>1
  <2>. QED BY <1>2, <2>1, <2>2
<1>8. Types'
  BY <1>1, <1>2, <1>3, <1>4, <1>7 DEF Types
<1>9. \A q : \A i : Private(q, i)' <=> Private(q, i)
  BY <1>2 DEF Private
<1>10. \A q : Past(q)' <=> Past(q)
  BY <1>2 DEF Past
<1>11. JobInv'
  <2>1. \A i \in 1..Len(queue') : queue'[i].req # r
    <3>. SUFFICES ASSUME NEW i \in 1..Len(queue'), queue'[i].req = r PROVE FALSE
      OBVIOUS
    <3>1. queue[i + 1].req = queue[1].req /\ i + 1 \in 1..Len(queue) /\ 1 \in 1..Len(queue)
      BY <1>3 DEF r
    <3>2. i + 1 = 1
      BY <1>1, <3>1 DEF JobInv
    <3>. QED BY <1>3, <3>2
  <2>2. \A i \in 1..Len(queue') : Sound(queue'[i])
    BY <1>1, <1>3 DEF JobInv
  <2>3. \A i \in 1..Len(queue') : Sound(queue[i])'
    BY <1>2, <2>1, <2>2 DEF Sound
  <2>4. \A i, k \in 1..Len(queue') : queue'[i].req = queue'[k].req => i = k
    <3>. SUFFICES ASSUME NEW i \in 1..Len(queue'), NEW k \in 1..Len(queue'), queue'[i].req = queue'[k].req
                  PROVE  i = k
      OBVIOUS
    <3>1. i + 1 = k + 1
      BY <1>1, <1>3 DEF JobInv
    <3>. QED BY <1>3, <3>1
  <2>5. LoadingIsExact'
    BY <1>1, <1>2 DEF JobInv, LoadingIsExact
  <2>6. \A q \in dropped' : status'[q] = "loading" /\ q \notin received' \cup got'
    BY <1>1, <1>2, <1>5 DEF JobInv
  <2>. QED BY <1>1, <1>2, <2>3, <2>4, <2>5, <2>6 DEF JobInv, Busy
<1>12. \A b : Queued(b) => Queued(b)' \/ \E i \in Wanted(j) : b = held[r][i]
  <2>. SUFFICES ASSUME NEW b, NEW a \in 1..Len(queue), NEW i \in Wanted(queue[a]), b = queue[a].blocks[i]
                PROVE  Queued(b)' \/ \E k \in Wanted(j) : b = held[r][k]
    BY DEF Queued
  <2>1. CASE a = 1
    BY <1>3, <1>5, <2>1
  <2>2. CASE a # 1
    <3>1. a - 1 \in 1..Len(queue') /\ queue'[a - 1] = queue[a]
      BY <1>3, <2>2
    <3>. QED BY <3>1 DEF Queued, Wanted
  <2>. QED BY <2>1, <2>2
<1>13. \A b : Pending(b)' => Pending(b)
  <2>1. \A b : Queued(b)' => Queued(b)
    BY <1>3 DEF Queued, Wanted
  <2>. QED BY <1>2, <2>1 DEF Pending
<1>14. PrivateInv'
  <2>1. \A i \in 1..Len(queue') : \A k \in Wanted(queue'[i]) : Private(queue'[i].req, k)
    BY <1>1, <1>3 DEF PrivateInv
  <2>2. \A i \in 1..Len(queue') : \A k \in Wanted(queue[i])' : Private(queue[i].req, k)'
    BY <1>9, <2>1 DEF Wanted
  <2>. QED BY <1>1, <1>2, <1>9, <1>10, <2>2 DEF PrivateInv, Busy
<1>15. \A q \in Request : \A i \in 1..Len(held[q]) :
         q = r \/ \A w \in Wanted(j) : held[r][w] # held[q][i]
  BY <1>4 DEF Private
<1>16. DataInv'
  <2>1. \A q \in Request : \A i \in 1..Len(held[q]) : held[q][i] \in Block
    BY <1>1 DEF Types
  <2>2. ASSUME NEW q \in Request, status[q] = "loading", NEW i \in 1..Len(held[q])
        PROVE  \/ data'[held[q][i]] = i
               \/ Pending(held[q][i])'
               \/ q \in suspect /\ i > Ceil(computed[q])
               \/ q \in dropped'
    <3>1. CASE q = r
      BY <1>2, <3>1
    <3>2. CASE q # r
      <4>0. \A w \in Wanted(j) : held[r][w] # held[q][i]
        BY <1>15, <3>2
      <4>1. data'[held[q][i]] = data[held[q][i]]
        BY <1>6, <2>1, <4>0
      <4>2. Pending(held[q][i]) => Pending(held[q][i])'
        BY <1>2, <1>12, <4>0 DEF Pending
      <4>. QED BY <1>1, <1>2, <2>2, <4>1, <4>2 DEF DataInv
    <3>. QED BY <3>1, <3>2
  <2>3. ASSUME NEW q \in Request, status[q] \in {"ready", "running"}, NEW i \in 1..Ceil(computed[q])
        PROVE  data'[held[q][i]] = i
    <3>1. q # r
      BY <1>5, <2>3
    <3>2. Ceil(computed[q]) \in Nat
      BY <1>1, BlockCounts DEF Types
    <3>3. i \in 1..Len(held[q])
      BY <1>1, <2>3, <3>2 DEF DataInv, Types
    <3>4. data'[held[q][i]] = data[held[q][i]]
      BY <1>6, <1>15, <2>1, <3>1, <3>3
    <3>. QED BY <1>1, <2>3, <3>4 DEF DataInv
  <2>4. CachedIsTrue'
    <3>1. \A i \in Wanted(j) : cached[held[r][i]] = 0
      BY <1>4 DEF Private
    <3>. QED BY <1>1, <1>2, <1>6, <3>1 DEF DataInv, CachedIsTrue
  <2>5. \A q \in suspect : status[q] = "loading" /\ \A i \in 1..Len(held[q]) : ~Pending(held[q][i])'
    BY <1>1, <1>2, <1>13 DEF DataInv
  <2>6. \A q \in Request : status[q] \in {"loading", "ready", "running"} => Ceil(computed[q]) <= Len(held[q])
    BY <1>1 DEF DataInv
  <2>. QED BY <1>2, <2>2, <2>3, <2>4, <2>5, <2>6 DEF DataInv
<1>. QED BY <1>8, <1>11, <1>14, <1>16 DEF LoadInv

-----------------------------------------------------------------------------
(* The actions that give a request blocks *)

\* Request r takes the blocks s: those in old, which are its own or cached
\* in their places, and free ones.  Other blocks stay in the prefix cache.
Takes(r, old, s) ==
  /\ old \in Seq(Block) /\ s \in Seq(Block)
  /\ old = held[r] \/ \A i \in 1..Len(old) : cached[old[i]] = i
  /\ \A i \in 1..Len(old) : s[i] = old[i]
  /\ \A i \in Len(old) + 1..Len(s) : \A q \in Request : \A k \in 1..Len(held[q]) : held[q][k] # s[i]
  /\ held' = [held EXCEPT ![r] = s]
  /\ \A b \in Block : (\A i \in 1..Len(s) : s[i] # b) => cached'[b] = cached[b]

\* None of them was another's own, and the other requests keep what they have.
LEMMA TakenFacts ==
  ASSUME LoadInv, NEW r \in Request, NEW old, NEW s, Takes(r, old, s)
  PROVE  /\ held' \in [Request -> Seq(Block)] /\ held'[r] = s
         /\ \A q \in Request \ {r} : held'[q] = held[q]
         /\ \A q \in Request \ {r} : \A i \in 1..Len(held[q]) : Private(q, i) =>
              Private(q, i)' /\ \A k \in 1..Len(s) : s[k] # held[q][i]
<1>. USE DEF Takes
<1>1. Types
  BY DEF LoadInv
<1>2. /\ held' \in [Request -> Seq(Block)] /\ held'[r] = s
      /\ \A q \in Request \ {r} : held'[q] = held[q]
  BY <1>1 DEF Types
<1>3. ASSUME NEW q \in Request \ {r}, NEW i \in 1..Len(held[q]), Private(q, i)
      PROVE  Private(q, i)' /\ \A k \in 1..Len(s) : s[k] # held[q][i]
  <2>1. ASSUME NEW k \in 1..Len(s)
        PROVE  s[k] # held[q][i]
    <3>1. CASE k > Len(old)
      <4>1. k \in Len(old) + 1..Len(s)
        BY <3>1
      <4>. QED BY <4>1
    <3>2. CASE k <= Len(old)
      <4>1. k \in 1..Len(old) /\ s[k] = old[k]
        BY <3>2
      <4>2. CASE old = held[r]
        BY <1>3, <4>1, <4>2 DEF Private
      <4>3. CASE \A m \in 1..Len(old) : cached[old[m]] = m
        BY <1>3, <4>1, <4>3 DEF Private
      <4>. QED BY <4>2, <4>3
    <3>. QED BY <3>1, <3>2
  <2>2. held[q][i] \in Block
    BY <1>1 DEF Types
  <2>3. cached'[held[q][i]] = 0
    BY <1>3, <2>1, <2>2 DEF Private
  <2>4. \A p \in Request \ {q} : \A k \in 1..Len(held'[p]) : held'[p][k] # held[q][i]
    BY <1>2, <1>3, <2>1 DEF Private
  <2>. QED BY <1>2, <2>1, <2>3, <2>4 DEF Private
<1>. QED BY <1>2, <1>3

\* What the lookup promises is more than the local hit when there is
\* something to load.
LEMMA HitTokensFacts ==
  ASSUME NEW r \in Request, NEW local \in Nat
  PROVE  /\ Lookup(r) \in Nat /\ HitTokens(r) \in Nat
         /\ NewMatchedTokens(r, local) > 0 => HitTokens(r) > local
<1>1. Tokens[r] \in Nat \ {0} /\ BlockSize \in Nat
  BY LoadAssumption
<1>2. Full(Tokens[r]) \in Nat
  BY <1>1, BlockCounts
<1>3. PrefixIn(store, Full(Tokens[r])) \in Nat
  BY <1>2, PrefixFacts
<1>4. Lookup(r) \in Nat
  BY <1>1, <1>3 DEF Lookup
<1>. QED BY <1>1, <1>4 DEF HitTokens, NewMatchedTokens

\* What the metadata takes: no job of a spec that is still waiting, none of
\* one disabled because there is nothing to load, and one of an enabled one,
\* from behind the local hit, whatever an earlier lookup had left.
LEMMA SpecFacts ==
  ASSUME Types, NEW r \in Request, NEW local \in Nat
  PROVE  /\ MatchedSpec(r, local) \in WaitingSpec
         /\ \A b : JobsOf(r, MatchedSpec(r, local), b) = << >>
         /\ NewMatchedTokens(r, local) = 0 => \A b : JobsOf(r, EnabledSpec(r, local), b) = << >>
         /\ NewMatchedTokens(r, local) > 0 => \A b : JobsOf(r, EnabledSpec(r, local), b) =
              << [req |-> r, from |-> Full(local), blocks |-> b] >>
<1>1. loadSpec[r] \in WaitingSpec
  BY DEF Types
<1>2. HitTokens(r) \in Nat
  BY HitTokensFacts
<1>. DEFINE m == MatchedSpec(r, local)  new == NewMatchedTokens(r, local)
<1>3. m \in WaitingSpec
  BY <1>1, <1>2 DEF MatchedSpec, WaitingSpec
<1>4. m.canLoad = FALSE
  BY <1>3 DEF WaitingSpec
<1>5. new > 0 => m.vllm = local
  BY DEF MatchedSpec
<1>. HIDE DEF m, new
<1>6. EnabledSpec(r, local) = [m EXCEPT !.canLoad = new > 0]
  BY DEF EnabledSpec, m, new
<1>7. EnabledSpec(r, local).canLoad = (new > 0) /\ EnabledSpec(r, local).vllm = m.vllm
  BY <1>3, <1>6 DEF WaitingSpec
<1>8. \A b : JobsOf(r, m, b) = << >>
  BY <1>4 DEF JobsOf
<1>9. ASSUME new = 0 PROVE \A b : JobsOf(r, EnabledSpec(r, local), b) = << >>
  <2>1. ~(new > 0)
    BY <1>9
  <2>. QED BY <1>7, <2>1 DEF JobsOf
<1>10. new > 0 => \A b : JobsOf(r, EnabledSpec(r, local), b) =
              << [req |-> r, from |-> Full(local), blocks |-> b] >>
  BY <1>5, <1>7 DEF JobsOf
<1>. QED BY <1>3, <1>8, <1>9, <1>10 DEF m, new

\* The invalid blocks are the own ones of parked requests.
LEMMA InvalidOwned ==
  ASSUME LoadInv, NEW b \in invalid
  PROVE  \E q \in Request : /\ status[q] = "loading" /\ Past(q)
                           /\ \E i \in 1..Len(held[q]) : b = held[q][i] /\ Private(q, i)
<1>1. PrivateInv
  BY DEF LoadInv
<1>2. PICK q \in Request : status[q] = "loading" /\ Past(q) /\ \E i \in 1..Len(held[q]) : b = held[q][i]
  BY <1>1 DEF PrivateInv
<1>3. PICK i \in 1..Len(held[q]) : b = held[q][i]
  BY <1>2
<1>4. Private(q, i)
  BY <1>1, <1>2, <1>3 DEF PrivateInv
<1>. QED BY <1>2, <1>3, <1>4

\* A try without blocks leaves a spec that is not enabled: it makes no job,
\* not even when the step's metadata takes it.
LEMMA AdmitFailsInv ==
  ASSUME LoadInv, NEW r \in Request, AdmitFails(r)
  PROVE  LoadInv' /\ UNCHANGED queue
<1>1. Types
  BY DEF LoadInv
<1>2. PICK hit \in ComputedBlocks(r) :
        \/ /\ loadSpec' = [loadSpec EXCEPT ![r] = MatchedSpec(r, BlockSize * Len(hit))]
           /\ UNCHANGED queue
        \/ /\ loadSpec' = [loadSpec EXCEPT ![r] = NoSpec]
           /\ queue' = queue \o JobsOf(r, MatchedSpec(r, BlockSize * Len(hit)), pooled[r])
  BY DEF AdmitFails
<1>3. BlockSize * Len(hit) \in Nat
  <2>1. hit \in Seq(Block)
    BY HitFacts
  <2>. QED BY <2>1, LoadAssumption
<1>4. /\ MatchedSpec(r, BlockSize * Len(hit)) \in WaitingSpec
      /\ JobsOf(r, MatchedSpec(r, BlockSize * Len(hit)), pooled[r]) = << >>
  BY <1>1, <1>3, SpecFacts
<1>5. loadSpec' \in [Request -> WaitingSpec]
  <2>1. NoSpec \in WaitingSpec
    BY DEF NoSpec, WaitingSpec
  <2>. QED BY <1>1, <1>2, <1>4, <2>1 DEF Types
<1>6. UNCHANGED queue
  <2>1. queue \in Seq(JobType)
    BY <1>1 DEF Types
  <2>2. queue \o << >> = queue
    BY <2>1, ConcatEmptySeq
  <2>. QED BY <1>2, <1>4, <2>2
<1>7. UNCHANGED <<hbmVars, status, computed, pooled, loading, threadVars, outVars>>
  BY DEF AdmitFails
<1>. QED BY <1>5, <1>6, <1>7, OtherInv

\* The new job's blocks are free ones behind a local hit that is right.
LEMMA AdmitLoadInv ==
  ASSUME LoadInv, NEW r \in Request, AdmitLoad(r)
  PROVE  LoadInv'
<1>. USE DEF threadVars, outVars
<1>1. Types /\ JobInv /\ PrivateInv /\ DataInv
  BY DEF LoadInv
<1>2. PICK hit \in ComputedBlocks(r) :
        /\ status[r] = "waiting" /\ NewMatchedTokens(r, BlockSize * Len(hit)) > 0
        /\ \E s \in Slots(hit, HitTokens(r)) :
             /\ held' = [held EXCEPT ![r] = s]
             /\ cached' = Allocated(s, hit, HitTokens(r), TRUE)
             /\ pooled' = NoteBlocks(r, s)
             /\ queue' = queue \o JobsOf(r, EnabledSpec(r, BlockSize * Len(hit)), pooled'[r])
  BY DEF AdmitLoad
<1>3. /\ status' = [status EXCEPT ![r] = "loading"]
      /\ computed' = [computed EXCEPT ![r] = HitTokens(r)]
      /\ loading' = loading \cup {r} /\ loadSpec' = [loadSpec EXCEPT ![r] = NoSpec]
      /\ UNCHANGED <<data, recv, job, failed, invalid, received, dropped, engine, got, suspect>>
  BY DEF AdmitLoad
<1>. DEFINE n == HitTokens(r)  k0 == Len(hit)
<1>4. /\ hit \in Seq(Block) /\ Distinct(hit) /\ k0 \in Nat
      /\ \A i \in 1..k0 : cached[hit[i]] = i
  BY HitFacts
<1>5. /\ BlockSize * k0 \in Nat /\ Full(BlockSize * k0) = k0
      /\ \A m \in Nat : m > BlockSize * k0 => Ceil(m) > k0
  BY <1>4, WholeBlocks
<1>6. n \in Nat /\ n > BlockSize * k0
  BY <1>2, <1>5, HitTokensFacts
<1>7. Full(n) \in Nat /\ Ceil(n) \in Nat /\ k0 <= Full(n)
  <2>1. Full(BlockSize * k0) <= Full(n)
    BY <1>5, <1>6, FullMonotonic
  <2>. QED BY <1>5, <1>6, <2>1, BlockCounts
<1>8. \A b : JobsOf(r, EnabledSpec(r, BlockSize * k0), b) = << [req |-> r, from |-> k0, blocks |-> b] >>
  BY <1>1, <1>2, <1>5, SpecFacts
<1>. HIDE DEF n
<1>9. PICK s \in Slots(hit, n) :
        /\ held' = [held EXCEPT ![r] = s]
        /\ cached' = Allocated(s, hit, n, TRUE)
        /\ pooled' = [pooled EXCEPT ![r] = s]
        /\ queue' = Append(queue, [req |-> r, from |-> k0, blocks |-> s])
  <2>1. PICK s \in Slots(hit, n) :
          /\ held' = [held EXCEPT ![r] = s]
          /\ cached' = Allocated(s, hit, n, TRUE)
          /\ pooled' = NoteBlocks(r, s)
          /\ queue' = queue \o << [req |-> r, from |-> k0, blocks |-> pooled'[r]] >>
    BY <1>2, <1>8 DEF n
  <2>2. pooled' = [pooled EXCEPT ![r] = s] /\ pooled'[r] = s
    BY <1>1, <2>1 DEF NoteBlocks, Types
  <2>3. queue' = queue \o << [req |-> r, from |-> k0, blocks |-> s] >>
    BY <2>1, <2>2
  <2>4. queue \in Seq(JobType) /\ [req |-> r, from |-> k0, blocks |-> s] \in JobType
    <3>1. s \in Seq(Block)
      <4>1. held \in [Request -> Seq(Block)]
        BY <1>1 DEF Types
      <4>. QED BY <1>4, <1>6, <2>1, <4>1, SlotFacts
    <3>. QED BY <1>1, <1>4, <3>1 DEF Types, JobType
  <2>5. queue' = Append(queue, [req |-> r, from |-> k0, blocks |-> s])
    BY <2>3, <2>4, AppendIsConcat
  <2>. QED BY <2>1, <2>2, <2>5
<1>10. held \in [Request -> Seq(Block)] /\ cached \in [Block -> Nat]
  BY <1>1 DEF Types
<1>11. /\ s \in Seq(Block) /\ Distinct(s) /\ k0 <= Len(s) /\ Ceil(n) <= Len(s) /\ Len(s) \in Nat
       /\ \A i \in 1..k0 : s[i] = hit[i]
       /\ \A i \in k0 + 1..Len(s) : \A q \in Request :
            \A k \in 1..Len(held[q]) : held[q][k] # s[i]
  <2>1. /\ s \in Seq(Block) /\ Distinct(s) /\ Len(hit) <= Len(s) /\ Ceil(n) <= Len(s)
        /\ \A i \in 1..Len(hit) : s[i] = hit[i]
        /\ \A i \in Len(hit) + 1..Len(s) : \A q \in Request :
             \A k \in 1..Len(held[q]) : held[q][k] # s[i]
    BY <1>4, <1>6, <1>9, <1>10, SlotFacts
  <2>. QED BY <2>1
<1>12. /\ cached' \in [Block -> Nat]
       /\ \A b \in Block : (\A i \in 1..Len(s) : s[i] # b) => cached'[b] = cached[b]
       /\ \A i \in 1..Len(s) : cached'[s[i]] = IF i <= k0 THEN cached[s[i]] ELSE 0
  <2>1. /\ cached' \in [Block -> Nat]
        /\ \A b \in Block : (\A i \in 1..Len(s) : s[i] # b) => cached'[b] = cached[b]
        /\ \A i \in 1..Len(s) : cached'[s[i]] = IF i <= Len(hit) THEN cached[s[i]] ELSE 0
    <3>1. /\ hit \in Seq(Block) /\ s \in Seq(Block) /\ Distinct(s) /\ Len(hit) <= Len(s)
          /\ \A i \in 1..Len(hit) : s[i] = hit[i]
      BY <1>4, <1>11
    <3>2. /\ Allocated(s, hit, n, TRUE) \in [Block -> Nat]
          /\ \A b \in Block : (\A i \in 1..Len(s) : s[i] # b) => Allocated(s, hit, n, TRUE)[b] = cached[b]
          /\ \A i \in 1..Len(s) :
               Allocated(s, hit, n, TRUE)[s[i]] = IF i <= Len(hit) THEN cached[s[i]] ELSE 0
      BY <1>6, <1>10, <3>1, AllocatedLaterFacts, ZenonT(60)
    <3>. QED BY <1>9, <3>2
  <2>. QED BY <2>1
<1>13. /\ held' \in [Request -> Seq(Block)] /\ held'[r] = s
       /\ \A q \in Request \ {r} : held'[q] = held[q]
       /\ \A q \in Request \ {r} : \A i \in 1..Len(held[q]) : Private(q, i) =>
            Private(q, i)' /\ \A k \in 1..Len(s) : s[k] # held[q][i]
  <2>1. Takes(r, hit, s)
    BY <1>4, <1>9, <1>11, <1>12 DEF Takes
  <2>. QED BY <2>1, TakenFacts
<1>. DEFINE j == [req |-> r, from |-> k0, blocks |-> s]
<1>14. /\ j \in JobType /\ queue' \in Seq(JobType) /\ Len(queue) \in Nat
       /\ Len(queue') = Len(queue) + 1 /\ queue'[Len(queue) + 1] = j
       /\ \A i \in 1..Len(queue) : queue'[i] = queue[i] /\ queue[i] \in JobType
  <2>1. j \in JobType
    BY <1>4, <1>11 DEF JobType
  <2>2. queue \in Seq(JobType)
    BY <1>1 DEF Types
  <2>. HIDE DEF j
  <2>3. queue' = Append(queue, j)
    BY <1>9 DEF j
  <2>. QED BY <2>1, <2>2, <2>3
<1>15. Wanted(j) = k0 + 1..Len(s)
  BY DEF Wanted
<1>16. \A i \in 1..Len(s) : i > k0 => Private(r, i)'
  <2>. SUFFICES ASSUME NEW i \in 1..Len(s), i > k0 PROVE Private(r, i)'
    OBVIOUS
  <2>1. i \in k0 + 1..Len(s)
    BY <1>4, <1>11
  <2>2. cached'[s[i]] = 0
    BY <1>4, <1>12
  <2>. QED BY <1>11, <1>13, <2>1, <2>2 DEF Private
<1>17. /\ \A q \in Request \ {r} : status'[q] = status[q] /\ computed'[q] = computed[q]
       /\ status'[r] = "loading" /\ computed'[r] = n
  BY <1>1, <1>3 DEF Types, n
<1>18. \A q : Past(q)' <=> Past(q)
  BY <1>3 DEF Past
<1>19. Types'
  <2>0. loadSpec' \in [Request -> WaitingSpec]
    BY <1>1, <1>3 DEF Types, WaitingSpec, NoSpec
  <2>1. status' \in [Request -> {"waiting", "loading", "ready", "running", "done"}]
    BY <1>1, <1>3 DEF Types
  <2>2. computed' \in [Request -> Nat]
    BY <1>1, <1>3, <1>6 DEF Types, n
  <2>3. pooled' \in [Request -> Seq(Block) \cup {Unknown}]
    BY <1>1, <1>9, <1>11 DEF Types
  <2>. QED BY <1>1, <1>3, <1>12, <1>13, <1>14, <2>0, <2>1, <2>2, <2>3 DEF Types
<1>20. r \notin received \cup got \cup dropped /\ r \notin suspect /\ r \notin loading
  BY <1>1, <1>2 DEF JobInv, DataInv, LoadingIsExact
<1>21. /\ \A i \in 1..Len(queue) : queue[i].req \in Request \ {r} /\ Sound(queue[i])
       /\ Busy => job.req \in Request \ {r} /\ Sound(job) /\ job \in JobType
  <2>1. \A i \in 1..Len(queue) : Sound(queue[i]) /\ queue[i].req \in Request
    BY <1>1, <1>14 DEF JobInv, JobType
  <2>2. Busy => job.req \in Request /\ Sound(job) /\ job \in JobType
    BY <1>1 DEF JobInv, JobType
  <2>. QED BY <1>2, <2>1, <2>2 DEF Sound
<1>22. JobInv'
  <2>1. \A x \in JobType : x.req # r /\ Sound(x) => Sound(x)'
    BY <1>3, <1>13, <1>17 DEF Sound, JobType
  <2>2. Sound(j)'
    BY <1>3, <1>11, <1>13, <1>17, <1>20 DEF Sound
  <2>3. \A i \in 1..Len(queue') : i = Len(queue) + 1 \/ i \in 1..Len(queue)
    BY <1>14
  <2>4. \A i \in 1..Len(queue') : Sound(queue[i])'
    BY <1>14, <1>21, <2>1, <2>2, <2>3
  <2>5. Busy' => job' \in JobType /\ Sound(job)'
    BY <1>3, <1>21, <2>1 DEF Busy
  <2>6. \A i, k \in 1..Len(queue') : queue'[i].req = queue'[k].req => i = k
    BY <1>1, <1>14, <1>21, <2>3 DEF JobInv
  <2>7. Busy' => \A i \in 1..Len(queue') : queue'[i].req # job'.req
    BY <1>1, <1>3, <1>14, <1>21, <2>3 DEF JobInv, Busy
  <2>8. LoadingIsExact'
    BY <1>1, <1>3, <1>17 DEF JobInv, LoadingIsExact
  <2>9. \A q \in received \cup got \cup dropped : status'[q] = "loading"
    BY <1>1, <1>17, <1>20 DEF JobInv, Types
  <2>10. Copied => \A b \in failed : \E i \in Wanted(job) : b = job.blocks[i]
    BY <1>1 DEF JobInv
  <2>. QED BY <1>1, <1>3, <2>4, <2>5, <2>6, <2>7, <2>8, <2>9, <2>10 DEF JobInv, Wanted
<1>23. PrivateInv'
  <2>1. \A q \in Request : \A i, k \in 1..Len(held'[q]) : held'[q][i] = held'[q][k] => i = k
    BY <1>1, <1>11, <1>13 DEF PrivateInv, Distinct
  <2>0. \A q \in Request \ {r} : \A i \in 1..Len(held[q]) : Private(q, i) =>
          /\ cached'[held'[q][i]] = 0
          /\ \A p \in Request \ {q} : \A m \in 1..Len(held'[p]) : held'[p][m] # held'[q][i]
    <3>. SUFFICES ASSUME NEW q \in Request \ {r}, NEW i \in 1..Len(held[q]), Private(q, i)
                  PROVE  /\ cached'[held'[q][i]] = 0
                         /\ \A p \in Request \ {q} : \A m \in 1..Len(held'[p]) : held'[p][m] # held'[q][i]
      OBVIOUS
    <3>1. Private(q, i)'
      BY <1>13
    <3>. QED BY <3>1 DEF Private
  <2>2. \A i \in 1..Len(queue') : \A k \in Wanted(queue[i])' : Private(queue[i].req, k)'
    <3>. SUFFICES ASSUME NEW i \in 1..Len(queue'), NEW k \in Wanted(queue'[i])
                  PROVE  Private(queue[i].req, k)'
      BY DEF Wanted
    <3>1. CASE i = Len(queue) + 1
      BY <1>11, <1>14, <1>15, <1>16, <3>1 DEF Private
    <3>2. CASE i \in 1..Len(queue)
      <4>1. queue'[i] = queue[i] /\ queue[i].req \in Request \ {r} /\ queue[i].blocks = held[queue[i].req]
        BY <1>14, <1>21, <3>2 DEF Sound
      <4>2. Private(queue[i].req, k)
        BY <1>1, <3>2, <4>1 DEF PrivateInv
      <4>3. k \in 1..Len(held[queue[i].req])
        <5>1. queue[i].from \in Nat /\ Wanted(queue[i]) = queue[i].from + 1..Len(held[queue[i].req])
          BY <1>14, <3>2, <4>1 DEF JobType, Wanted
        <5>2. Len(held[queue[i].req]) \in Nat
          BY <1>10, <4>1
        <5>3. k \in queue[i].from + 1..Len(held[queue[i].req])
          BY <3>2, <4>1, <5>1 DEF Wanted
        <5>. QED BY <5>1, <5>2, <5>3
      <4>4. PICK q \in Request \ {r} : q = queue[i].req
        BY <4>1
      <4>5. /\ cached'[held'[q][k]] = 0
            /\ \A p \in Request \ {q} : \A m \in 1..Len(held'[p]) : held'[p][m] # held'[q][k]
        BY <2>0, <4>2, <4>3, <4>4
      <4>6. queue'[i].req = q
        BY <4>1, <4>4
      <4>. QED BY <4>5, <4>6 DEF Private
    <3>. QED BY <1>14, <3>1, <3>2
  <2>3. Busy => \A k \in Wanted(job) : Private(job.req, k)'
    <3>. SUFFICES ASSUME Busy, NEW k \in Wanted(job)
                  PROVE  Private(job.req, k)'
      OBVIOUS
    <3>1. Private(job.req, k) /\ k \in 1..Len(held[job.req]) /\ job.req \in Request \ {r}
      BY <1>1, <1>3, <1>21 DEF PrivateInv, Wanted, Sound, JobType
    <3>. QED BY <1>3, <2>0, <3>1 DEF Private
  <2>4. ASSUME NEW q \in Request, status'[q] \in {"loading", "ready"}, NEW i \in 1..Len(held'[q]), i > Full(computed'[q])
        PROVE  Private(q, i)'
    <3>1. CASE q = r
      <4>1. i \in 1..Len(s) /\ i > Full(n)
        BY <1>13, <1>17, <2>4, <3>1
      <4>. QED BY <1>4, <1>7, <1>16, <3>1, <4>1
    <3>2. CASE q # r
      BY <1>1, <1>13, <1>17, <2>4, <3>2 DEF PrivateInv
    <3>. QED BY <3>1, <3>2
  <2>5. ASSUME NEW q \in Request, status'[q] = "loading", NEW i \in 1..Len(held'[q]), NEW k \in 1..Len(held'[q]),
               held'[q][i] \in invalid, i <= k
        PROVE  Private(q, k)'
    <3>1. CASE q = r
      <4>1. PICK p \in Request : /\ status[p] = "loading"
                                 /\ \E m \in 1..Len(held[p]) : held'[q][i] = held[p][m] /\ Private(p, m)
        BY <2>5, InvalidOwned
      <4>. QED BY <1>2, <1>13, <2>5, <3>1, <4>1
    <3>2. CASE q # r
      <4>1. held'[q] = held[q] /\ status[q] = "loading" /\ k \in 1..Len(held[q])
        BY <1>13, <1>17, <2>5, <3>2
      <4>2. Private(q, k)
        BY <1>1, <2>5, <4>1 DEF PrivateInv
      <4>. QED BY <1>13, <3>2, <4>1, <4>2
    <3>. QED BY <3>1, <3>2
  <2>6. \A b \in invalid : \E q \in Request :
          status'[q] = "loading" /\ Past(q)' /\ \E i \in 1..Len(held'[q]) : b = held'[q][i]
    <3>1. \A b \in invalid : \E q \in Request \ {r} :
            status[q] = "loading" /\ Past(q) /\ \E i \in 1..Len(held[q]) : b = held[q][i]
      BY <1>1, <1>2 DEF PrivateInv
    <3>2. \A q \in Request \ {r} : held'[q] = held[q] /\ status'[q] = status[q] /\ (Past(q) => Past(q)')
      BY <1>13, <1>17, <1>18
    <3>. QED BY <3>1, <3>2
  <2>. QED BY <1>3, <2>1, <2>2, <2>3, <2>4, <2>5, <2>6 DEF PrivateInv, Busy, Wanted
<1>24. \A b : /\ Pending(b) => Pending(b)'
              /\ Pending(b)' => Pending(b) \/ \E i \in k0 + 1..Len(s) : b = s[i]
              /\ (\E i \in k0 + 1..Len(s) : b = s[i]) => Pending(b)'
  <2>1. \A b : Queued(b) => Queued(b)'
    BY <1>14 DEF Queued, Wanted
  <2>2. \A b : Queued(b)' => Queued(b) \/ \E i \in k0 + 1..Len(s) : b = s[i]
    <3>1. \A i \in 1..Len(queue') : i = Len(queue) + 1 \/ i \in 1..Len(queue)
      BY <1>14
    <3>. SUFFICES ASSUME NEW b, NEW i \in 1..Len(queue'), NEW m \in Wanted(queue'[i]), b = queue'[i].blocks[m]
                  PROVE  Queued(b) \/ \E n1 \in k0 + 1..Len(s) : b = s[n1]
      BY DEF Queued, Wanted
    <3>2. CASE i = Len(queue) + 1
      BY <1>14, <1>15, <3>2
    <3>3. CASE i \in 1..Len(queue)
      BY <1>14, <3>3 DEF Queued
    <3>. QED BY <3>1, <3>2, <3>3
  <2>3. \A b : (\E i \in k0 + 1..Len(s) : b = s[i]) => Queued(b)'
    <3>. SUFFICES ASSUME NEW i \in k0 + 1..Len(s) PROVE Queued(s[i])'
      OBVIOUS
    <3>. DEFINE a == Len(queue) + 1
    <3>1. a \in 1..Len(queue')
      BY <1>14
    <3>2. i \in Wanted(queue'[a]) /\ s[i] = queue'[a].blocks[i]
      BY <1>14, <1>15
    <3>. HIDE DEF a
    <3>. QED BY <3>1, <3>2 DEF Queued, Wanted
  <2>. QED BY <1>3, <2>1, <2>2, <2>3 DEF Pending
<1>25. DataInv'
  <2>1. \A q \in Request : status'[q] \in {"loading", "ready", "running"} => Ceil(computed'[q]) <= Len(held'[q])
    BY <1>1, <1>11, <1>13, <1>17 DEF DataInv
  <2>2. ASSUME NEW q \in Request, status'[q] = "loading", NEW i \in 1..Len(held'[q])
        PROVE  \/ data[held'[q][i]] = i
               \/ Pending(held[q][i])'
               \/ q \in suspect /\ i > Ceil(computed'[q])
               \/ q \in dropped
    <3>1. CASE q = r /\ i <= k0
      <4>1. i \in 1..k0 /\ held'[q][i] = hit[i] /\ hit[i] \in Block
        BY <1>4, <1>11, <1>13, <3>1
      <4>2. cached[hit[i]] = i
        BY <1>4, <4>1
      <4>. QED BY <1>1, <4>1, <4>2 DEF DataInv, CachedIsTrue
    <3>2. CASE q = r /\ i > k0
      <4>1. i \in k0 + 1..Len(s) /\ held'[q][i] = s[i]
        BY <1>4, <1>11, <1>13, <3>2, <2>2
      <4>. QED BY <1>24, <4>1
    <3>3. CASE q # r
      <4>1. /\ held'[q] = held[q] /\ computed'[q] = computed[q] /\ status[q] = "loading"
            /\ i \in 1..Len(held[q])
        BY <1>13, <1>17, <2>2, <3>3
      <4>2. \/ data[held[q][i]] = i
            \/ Pending(held[q][i])
            \/ q \in suspect /\ i > Ceil(computed[q])
            \/ q \in dropped
        BY <1>1, <4>1 DEF DataInv
      <4>. QED BY <1>24, <4>1, <4>2
    <3>. QED BY <1>4, <1>11, <1>13, <2>2, <3>1, <3>2, <3>3
  <2>3. ASSUME NEW q \in suspect
        PROVE  status'[q] = "loading" /\ \A i \in 1..Len(held'[q]) : ~Pending(held[q][i])'
    <3>1. q \in Request \ {r} /\ status[q] = "loading" /\ \A i \in 1..Len(held[q]) : ~Pending(held[q][i])
      BY <1>1, <1>20 DEF DataInv, Types
    <3>. QED BY <1>11, <1>13, <1>17, <1>24, <3>1
  <2>4. \A q \in Request : status'[q] \in {"ready", "running"} => \A i \in 1..Ceil(computed'[q]) : data[held'[q][i]] = i
    BY <1>1, <1>13, <1>17 DEF DataInv
  <2>5. CachedIsTrue'
    <3>. SUFFICES ASSUME NEW b \in Block, cached'[b] # 0 PROVE data[b] = cached'[b]
      BY <1>3 DEF CachedIsTrue
    <3>1. cached'[b] = cached[b]
      BY <1>12
    <3>. QED BY <1>1, <3>1 DEF DataInv, CachedIsTrue
  <2>. QED BY <1>3, <2>1, <2>2, <2>3, <2>4, <2>5 DEF DataInv
<1>. QED BY <1>19, <1>22, <1>23, <1>25 DEF LoadInv

\* A request that runs: its blocks are right up to n tokens, its own behind
\* them, and the forward pass fills the rest.
Runs(r, old, s, n) ==
  /\ n \in Nat /\ Ceil(n) <= Len(old) /\ Distinct(old)
  /\ \A i \in 1..Ceil(n) : data[old[i]] = i
  /\ \A i \in 1..Len(old) : i > Full(n) =>
       cached[old[i]] = 0 /\ \A q \in Request \ {r} : \A k \in 1..Len(held[q]) : held[q][k] # old[i]
  /\ s \in Slots(old, Tokens[r])
  /\ cached' = Allocated(s, old, Tokens[r], FALSE)
  /\ data' = Forward(s, n)
  /\ status[r] \in {"waiting", "ready"} /\ status' = [status EXCEPT ![r] = "running"]
  /\ computed' = [computed EXCEPT ![r] = Tokens[r]]
  /\ pooled' = [pooled EXCEPT ![r] = << >>] /\ loadSpec' \in [Request -> WaitingSpec]
  /\ UNCHANGED <<loading, queue, threadVars, outVars>>

\* Such a request has no job, nothing pending and, after the pass, only right blocks.
LEMMA RunInv ==
  ASSUME LoadInv, NEW r \in Request, NEW old, NEW s, NEW n, Runs(r, old, s, n),
         old \in Seq(Block), held' = [held EXCEPT ![r] = s],
         old = held[r] \/ \A i \in 1..Len(old) : cached[old[i]] = i
  PROVE  LoadInv'
<1>. USE DEF threadVars, outVars
<1>1. Types /\ JobInv /\ PrivateInv /\ DataInv
  BY DEF LoadInv
<1>2. /\ n \in Nat /\ Ceil(n) <= Len(old) /\ Distinct(old) /\ Len(old) \in Nat
      /\ s \in Slots(old, Tokens[r])
      /\ UNCHANGED <<loading, queue, recv, job, failed, invalid, received, dropped, engine, got, suspect>>
      /\ loadSpec' \in [Request -> WaitingSpec]
  BY DEF Runs
<1>3. held \in [Request -> Seq(Block)] /\ cached \in [Block -> Nat] /\ data \in [Block -> Nat]
  BY <1>1 DEF Types
<1>4. Tokens[r] \in Nat
  BY LoadAssumption
<1>5. Full(n) \in Nat /\ Ceil(n) \in Nat /\ Full(n) <= Ceil(n)
  BY <1>2, BlockCounts
<1>6. Full(Tokens[r]) \in Nat /\ Ceil(Tokens[r]) \in Nat /\ Full(Tokens[r]) <= Ceil(Tokens[r])
  BY <1>4, BlockCounts
<1>7. /\ s \in Seq(Block) /\ Distinct(s) /\ Len(old) <= Len(s) /\ Ceil(Tokens[r]) <= Len(s)
      /\ \A i \in 1..Len(old) : s[i] = old[i]
      /\ \A i \in Len(old) + 1..Len(s) : \A q \in Request :
           \A k \in 1..Len(held[q]) : held[q][k] # s[i]
  BY <1>2, <1>3, <1>4, SlotFacts
<1>8. Len(s) \in Nat /\ Full(Tokens[r]) <= Len(s)
  BY <1>6, <1>7
<1>9. /\ cached' \in [Block -> Nat]
      /\ \A b \in Block : (\A i \in 1..Len(s) : s[i] # b) => cached'[b] = cached[b]
      /\ \A i \in 1..Len(s) : i <= Full(Tokens[r]) => cached'[s[i]] = i
      /\ \A i \in 1..Len(s) : i > Full(Tokens[r]) =>
           cached'[s[i]] = IF i <= Len(old) THEN cached[s[i]] ELSE 0
  <2>1. cached' = Allocated(s, old, Tokens[r], FALSE)
    BY DEF Runs
  <2>2. /\ Allocated(s, old, Tokens[r], FALSE) \in [Block -> Nat]
        /\ \A b \in Block : (\A i \in 1..Len(s) : s[i] # b) => Allocated(s, old, Tokens[r], FALSE)[b] = cached[b]
        /\ \A i \in 1..Len(s) : i <= Full(Tokens[r]) => Allocated(s, old, Tokens[r], FALSE)[s[i]] = i
        /\ \A i \in 1..Len(s) : i > Full(Tokens[r]) =>
             Allocated(s, old, Tokens[r], FALSE)[s[i]] = IF i <= Len(old) THEN cached[s[i]] ELSE 0
    <3>. DEFINE m == Tokens[r]
    <3>1. m \in Nat /\ Full(m) <= Len(s) /\ old \in Seq(Block)
      BY <1>4, <1>8
    <3>. HIDE DEF m
    <3>2. /\ Allocated(s, old, m, FALSE) \in [Block -> Nat]
          /\ \A b \in Block : (\A i \in 1..Len(s) : s[i] # b) => Allocated(s, old, m, FALSE)[b] = cached[b]
          /\ \A i \in 1..Len(s) : i <= Full(m) => Allocated(s, old, m, FALSE)[s[i]] = i
          /\ \A i \in 1..Len(s) : i > Full(m) =>
               Allocated(s, old, m, FALSE)[s[i]] = IF i <= Len(old) THEN cached[s[i]] ELSE 0
      BY <1>3, <1>7, <3>1, AllocatedNowFacts, ZenonT(60)
    <3>. QED BY <3>2 DEF m
  <2>. QED BY <2>1, <2>2
<1>10. /\ held' \in [Request -> Seq(Block)] /\ held'[r] = s
       /\ \A q \in Request \ {r} : held'[q] = held[q]
       /\ \A q \in Request \ {r} : \A i \in 1..Len(held[q]) : Private(q, i) =>
            Private(q, i)' /\ \A k \in 1..Len(s) : s[k] # held[q][i]
  <2>1. Takes(r, old, s)
    BY <1>7, <1>9 DEF Takes
  <2>. QED BY <2>1, TakenFacts
<1>11. /\ data' \in [Block -> Nat]
       /\ \A b \in Block : (\A i \in Full(n) + 1..Len(s) : s[i] # b) => data'[b] = data[b]
       /\ \A i \in Full(n) + 1..Len(s) : data'[s[i]] = i
  <2>1. data' = Forward(s, n)
    BY DEF Runs
  <2>2. \A i \in 1..Ceil(n) : data[s[i]] = i
    <3>1. \A i \in 1..Ceil(n) : i \in 1..Len(old)
      BY <1>2, <1>5
    <3>. QED BY <1>7, <3>1 DEF Runs
  <2>3. /\ Forward(s, n) \in [Block -> Nat]
        /\ \A b \in Block : (\A i \in Full(n) + 1..Len(s) : s[i] # b) => Forward(s, n)[b] = data[b]
        /\ \A i \in Full(n) + 1..Len(s) : Forward(s, n)[s[i]] = i
    BY <1>2, <1>3, <1>7, <2>2, ForwardFacts
  <2>. QED BY <2>1, <2>3
<1>12. \A i \in 1..Len(s) : s[i] \in Block /\ data'[s[i]] = i
  <2>. SUFFICES ASSUME NEW i \in 1..Len(s) PROVE data'[s[i]] = i
    BY <1>7
  <2>1. CASE i > Full(n)
    BY <1>5, <1>8, <1>11, <2>1
  <2>2. CASE i <= Full(n)
    <3>1. i \in 1..Ceil(n) /\ i \in 1..Len(old)
      BY <1>2, <1>5, <2>2
    <3>2. data[s[i]] = i
      BY <1>7, <3>1 DEF Runs
    <3>3. \A k \in Full(n) + 1..Len(s) : s[k] # s[i]
      <4>. SUFFICES ASSUME NEW k \in Full(n) + 1..Len(s), s[k] = s[i] PROVE FALSE
        OBVIOUS
      <4>1. k \in 1..Len(s) /\ k # i
        BY <1>5, <1>8, <2>2
      <4>. QED BY <1>7, <4>1 DEF Distinct
    <3>4. s[i] \in Block
      BY <1>7
    <3>. QED BY <1>11, <3>2, <3>3, <3>4
  <2>. QED BY <1>5, <2>1, <2>2
<1>13. \A q \in Request \ {r} : \A k \in 1..Len(held[q]) : data'[held[q][k]] = data[held[q][k]]
  <2>. SUFFICES ASSUME NEW q \in Request \ {r}, NEW k \in 1..Len(held[q])
                PROVE  data'[held[q][k]] = data[held[q][k]]
    OBVIOUS
  <2>1. held[q][k] \in Block
    BY <1>3
  <2>2. ASSUME NEW i \in Full(n) + 1..Len(s) PROVE s[i] # held[q][k]
    <3>1. CASE i <= Len(old)
      <4>1. i \in 1..Len(old) /\ i > Full(n) /\ s[i] = old[i]
        BY <1>2, <1>5, <1>7, <3>1
      <4>. QED BY <4>1 DEF Runs
    <3>2. CASE i > Len(old)
      <4>1. i \in Len(old) + 1..Len(s)
        BY <1>2, <1>5, <1>8, <3>2
      <4>. QED BY <1>7, <4>1
    <3>. QED BY <1>2, <1>5, <3>1, <3>2
  <2>. QED BY <1>11, <2>1, <2>2
<1>14. /\ status[r] \in {"waiting", "ready"}
       /\ \A q \in Request \ {r} : status'[q] = status[q] /\ computed'[q] = computed[q]
       /\ status'[r] = "running" /\ computed'[r] = Tokens[r]
  BY <1>1 DEF Types, Runs
<1>15. (\A q : Past(q)' <=> Past(q)) /\ (\A b : Pending(b)' <=> Pending(b))
  BY <1>2 DEF Past, Pending, Queued, Wanted
<1>16. Types'
  <2>1. status' \in [Request -> {"waiting", "loading", "ready", "running", "done"}]
    BY <1>1 DEF Types, Runs
  <2>2. computed' \in [Request -> Nat]
    BY <1>1, <1>4 DEF Types, Runs
  <2>3. pooled' \in [Request -> Seq(Block) \cup {Unknown}]
    <3>1. << >> \in Seq(Block)
      OBVIOUS
    <3>. QED BY <1>1, <3>1 DEF Types, Runs
  <2>. QED BY <1>1, <1>2, <1>9, <1>10, <1>11, <2>1, <2>2, <2>3 DEF Types
<1>17. r \notin received \cup got \cup dropped /\ r \notin suspect /\ r \notin loading
  BY <1>1, <1>14 DEF JobInv, DataInv, LoadingIsExact
<1>18. /\ \A i \in 1..Len(queue) : queue[i] \in JobType /\ queue[i].req \in Request \ {r} /\ Sound(queue[i])
       /\ Busy => job.req \in Request \ {r} /\ Sound(job) /\ job \in JobType
  <2>0. \A i \in 1..Len(queue) : queue[i] \in JobType
    BY <1>1 DEF Types
  <2>1. \A i \in 1..Len(queue) : queue[i] \in JobType /\ Sound(queue[i]) /\ queue[i].req \in Request
    BY <1>1, <2>0 DEF JobInv, JobType
  <2>2. Busy => job.req \in Request /\ Sound(job) /\ job \in JobType
    BY <1>1 DEF JobInv, JobType
  <2>. QED BY <1>14, <2>1, <2>2 DEF Sound
<1>19. JobInv'
  <2>1. \A x \in JobType : x.req # r /\ Sound(x) =>
          /\ status'[x.req] = "loading" /\ x.blocks = held'[x.req] /\ x.from <= Len(x.blocks)
          /\ x.req \notin received' \cup got' \cup dropped'
    BY <1>2, <1>10, <1>14 DEF Sound, JobType
  <2>2. \A i \in 1..Len(queue) : Sound(queue[i])'
    BY <1>2, <1>18, <2>1 DEF Sound
  <2>3. Busy => Sound(job)'
    BY <1>2, <1>18, <2>1 DEF Sound
  <2>4. LoadingIsExact'
    BY <1>1, <1>2, <1>14 DEF JobInv, LoadingIsExact
  <2>5. \A q \in received \cup got \cup dropped : status'[q] = "loading"
    BY <1>1, <1>14, <1>17 DEF JobInv, Types
  <2>. QED BY <1>1, <1>2, <2>2, <2>3, <2>4, <2>5 DEF JobInv, Busy, Wanted
<1>20. PrivateInv'
  <2>0. \A q \in Request \ {r} : \A i \in 1..Len(held[q]) : Private(q, i) =>
          /\ cached'[held'[q][i]] = 0
          /\ \A p \in Request \ {q} : \A m \in 1..Len(held'[p]) : held'[p][m] # held'[q][i]
    <3>. SUFFICES ASSUME NEW q \in Request \ {r}, NEW i \in 1..Len(held[q]), Private(q, i)
                  PROVE  /\ cached'[held'[q][i]] = 0
                         /\ \A p \in Request \ {q} : \A m \in 1..Len(held'[p]) : held'[p][m] # held'[q][i]
      OBVIOUS
    <3>1. Private(q, i)'
      BY <1>10
    <3>. QED BY <3>1 DEF Private
  <2>1. \A q \in Request : \A i, k \in 1..Len(held'[q]) : held'[q][i] = held'[q][k] => i = k
    <3>. SUFFICES ASSUME NEW q \in Request
                  PROVE  \A i, k \in 1..Len(held'[q]) : held'[q][i] = held'[q][k] => i = k
      OBVIOUS
    <3>1. CASE q = r
      BY <1>7, <1>10, <3>1 DEF Distinct
    <3>2. CASE q # r
      <4>1. held'[q] = held[q]
        BY <1>10, <3>2
      <4>. QED BY <1>1, <4>1 DEF PrivateInv
    <3>. QED BY <3>1, <3>2
  <2>2. ASSUME NEW x \in JobType, x.req \in Request \ {r}, Sound(x), NEW k \in Wanted(x), Private(x.req, k)
        PROVE  Private(x.req, k)'
    <3>1. k \in 1..Len(held[x.req])
      <4>1. x.from \in Nat /\ k \in x.from + 1..Len(held[x.req])
        BY <2>2 DEF JobType, Wanted, Sound
      <4>2. Len(held[x.req]) \in Nat
        BY <1>3, <2>2
      <4>. QED BY <4>1, <4>2
    <3>. QED BY <2>0, <2>2, <3>1 DEF Private
  <2>3. \A i \in 1..Len(queue) : \A k \in Wanted(queue[i]) : Private(queue[i].req, k)'
    <3>. SUFFICES ASSUME NEW i \in 1..Len(queue), NEW k \in Wanted(queue[i])
                  PROVE  Private(queue[i].req, k)'
      OBVIOUS
    <3>1. Private(queue[i].req, k)
      BY <1>1 DEF PrivateInv
    <3>2. PICK x \in JobType : x = queue[i]
      BY <1>18
    <3>3. Private(x.req, k)'
      BY <1>18, <2>2, <3>1, <3>2
    <3>4. x = queue'[i]
      BY <1>2, <3>2
    <3>. QED BY <3>3, <3>4 DEF Private
  <2>4. Busy => \A k \in Wanted(job) : Private(job.req, k)'
    <3>. SUFFICES ASSUME Busy, NEW k \in Wanted(job)
                  PROVE  /\ cached'[held'[job.req][k]] = 0
                         /\ \A q \in Request \ {job.req} : \A m \in 1..Len(held'[q]) : held'[q][m] # held'[job.req][k]
      BY <1>2 DEF Private
    <3>1. Private(job.req, k)
      BY <1>1 DEF PrivateInv
    <3>2. PICK x \in JobType : x = job
      BY <1>18
    <3>3. Private(x.req, k)'
      BY <1>18, <2>2, <3>1, <3>2
    <3>. QED BY <3>2, <3>3 DEF Private
  <2>5. ASSUME NEW q \in Request, status'[q] \in {"loading", "ready"}, NEW i \in 1..Len(held'[q]), i > Full(computed'[q])
        PROVE  Private(q, i)'
    <3>1. q # r
      BY <1>14, <2>5
    <3>. QED BY <1>1, <1>10, <1>14, <2>5, <3>1 DEF PrivateInv
  <2>6. ASSUME NEW q \in Request, status'[q] = "loading", NEW i \in 1..Len(held'[q]), NEW k \in 1..Len(held'[q]),
               held'[q][i] \in invalid, i <= k
        PROVE  Private(q, k)'
    <3>1. q # r
      BY <1>14, <2>6
    <3>2. held'[q] = held[q] /\ status[q] = "loading" /\ k \in 1..Len(held[q])
      BY <1>10, <1>14, <2>6, <3>1
    <3>3. Private(q, k)
      BY <1>1, <2>6, <3>2 DEF PrivateInv
    <3>. QED BY <1>10, <3>1, <3>2, <3>3
  <2>7. \A b \in invalid : \E q \in Request :
          status'[q] = "loading" /\ Past(q)' /\ \E i \in 1..Len(held'[q]) : b = held'[q][i]
    <3>1. \A b \in invalid : \E q \in Request \ {r} :
            status[q] = "loading" /\ Past(q) /\ \E i \in 1..Len(held[q]) : b = held[q][i]
      BY <1>1, <1>14 DEF PrivateInv
    <3>. SUFFICES ASSUME NEW b \in invalid
                  PROVE  \E q \in Request : status'[q] = "loading" /\ Past(q)' /\ \E i \in 1..Len(held'[q]) : b = held'[q][i]
      OBVIOUS
    <3>2. PICK q \in Request \ {r} : status[q] = "loading" /\ Past(q) /\ \E i \in 1..Len(held[q]) : b = held[q][i]
      BY <3>1
    <3>3. status'[q] = "loading" /\ held'[q] = held[q] /\ Past(q)'
      BY <1>10, <1>14, <1>15, <3>2
    <3>. QED BY <3>2, <3>3
  <2>. QED BY <1>2, <2>1, <2>3, <2>4, <2>5, <2>6, <2>7, SMTT(30) DEF PrivateInv, Busy, Wanted
<1>21. DataInv'
  <2>1. \A q \in Request : status'[q] \in {"loading", "ready", "running"} => Ceil(computed'[q]) <= Len(held'[q])
    BY <1>1, <1>7, <1>10, <1>14 DEF DataInv
  <2>2. ASSUME NEW q \in Request, status'[q] = "loading", NEW i \in 1..Len(held'[q])
        PROVE  \/ data'[held'[q][i]] = i
               \/ Pending(held[q][i])'
               \/ q \in suspect /\ i > Ceil(computed'[q])
               \/ q \in dropped
    <3>1. q \in Request \ {r} /\ i \in 1..Len(held[q]) /\ status[q] = "loading"
          /\ held'[q] = held[q] /\ computed'[q] = computed[q]
      BY <1>10, <1>14, <2>2
    <3>2. \/ data[held[q][i]] = i
          \/ Pending(held[q][i])
          \/ q \in suspect /\ i > Ceil(computed[q])
          \/ q \in dropped
      BY <1>1, <3>1 DEF DataInv
    <3>3. data'[held[q][i]] = data[held[q][i]]
      BY <1>13, <3>1
    <3>5. held'[q][i] = held[q][i]
      BY <3>1
    <3>. QED BY <1>2, <3>1, <3>2, <3>3, <3>5 DEF Pending, Queued, Wanted
  <2>3. ASSUME NEW q \in suspect
        PROVE  status'[q] = "loading" /\ \A i \in 1..Len(held'[q]) : ~Pending(held[q][i])'
    <3>1. q \in Request \ {r} /\ status[q] = "loading" /\ \A i \in 1..Len(held[q]) : ~Pending(held[q][i])
      BY <1>1, <1>17 DEF DataInv, Types
    <3>2. held'[q] = held[q] /\ status'[q] = "loading"
      BY <1>10, <1>14, <3>1
    <3>. QED BY <1>2, <3>1, <3>2 DEF Pending, Queued, Wanted
  <2>4. ASSUME NEW q \in Request, status'[q] \in {"ready", "running"}, NEW i \in 1..Ceil(computed'[q])
        PROVE  data'[held'[q][i]] = i
    <3>1. CASE q = r
      <4>1. i \in 1..Len(s)
        BY <1>6, <1>7, <1>8, <1>14, <2>4, <3>1
      <4>. QED BY <1>10, <1>12, <3>1, <4>1
    <3>2. CASE q # r
      <4>1. status[q] \in {"ready", "running"} /\ computed'[q] = computed[q] /\ held'[q] = held[q]
        BY <1>10, <1>14, <2>4, <3>2
      <4>2. data[held[q][i]] = i
        BY <1>1, <2>4, <4>1 DEF DataInv
      <4>3. Ceil(computed[q]) \in Nat /\ Ceil(computed[q]) <= Len(held[q]) /\ Len(held[q]) \in Nat
        <5>1. computed[q] \in Nat
          BY <1>1 DEF Types
        <5>2. Ceil(computed[q]) <= Len(held[q])
          BY <1>1, <4>1 DEF DataInv
        <5>3. Len(held[q]) \in Nat
          BY <1>3
        <5>. QED BY <5>1, <5>2, <5>3, BlockCounts
      <4>4. i \in 1..Len(held[q])
        BY <2>4, <4>1, <4>3
      <4>. QED BY <1>13, <3>2, <4>1, <4>2, <4>4
    <3>. QED BY <3>1, <3>2
  <2>5. CachedIsTrue'
    <3>. SUFFICES ASSUME NEW b \in Block, cached'[b] # 0 PROVE data'[b] = cached'[b]
      BY DEF CachedIsTrue
    <3>1. CASE \E i \in 1..Len(s) : s[i] = b
      <4>1. PICK i \in 1..Len(s) : s[i] = b
        BY <3>1
      <4>2. data'[b] = i
        BY <1>12, <4>1
      <4>3. CASE i <= Full(Tokens[r])
        BY <1>9, <4>1, <4>2, <4>3
      <4>4. CASE i > Full(Tokens[r])
        <5>1. i <= Len(old) /\ cached'[b] = cached[b]
          BY <1>9, <4>1, <4>4
        <5>2. i \in 1..Len(old) /\ old[i] = b
          BY <1>2, <1>7, <4>1, <5>1
        <5>3. i <= Full(n)
          <6>1. i > Full(n) => cached[old[i]] = 0
            BY <5>2 DEF Runs
          <6>. QED BY <1>5, <5>1, <5>2, <6>1
        <5>4. data[b] = i
          BY <1>5, <5>2, <5>3 DEF Runs
        <5>. QED BY <1>1, <4>2, <5>1, <5>4 DEF DataInv, CachedIsTrue
      <4>. QED BY <1>6, <4>3, <4>4
    <3>2. CASE \A i \in 1..Len(s) : s[i] # b
      <4>1. \A i \in Full(n) + 1..Len(s) : i \in 1..Len(s)
        BY <1>5, <1>8
      <4>2. cached'[b] = cached[b] /\ data'[b] = data[b]
        BY <1>9, <1>11, <3>2, <4>1
      <4>. QED BY <1>1, <4>2 DEF DataInv, CachedIsTrue
    <3>. QED BY <3>1, <3>2
  <2>. QED BY <1>2, <2>1, <2>2, <2>3, <2>4, <2>5 DEF DataInv
<1>. QED BY <1>16, <1>19, <1>20, <1>21 DEF LoadInv

\* A request that runs at once stands on its local hit.
LEMMA AdmitRunInv ==
  ASSUME LoadInv, NEW r \in Request, AdmitRun(r)
  PROVE  LoadInv'
<1>1. Types /\ DataInv
  BY DEF LoadInv
<1>2. PICK hit \in ComputedBlocks(r) :
        /\ status[r] = "waiting" /\ NewMatchedTokens(r, BlockSize * Len(hit)) = 0
        /\ \E s \in Slots(hit, Tokens[r]) :
             /\ held' = [held EXCEPT ![r] = s]
             /\ cached' = Allocated(s, hit, Tokens[r], FALSE)
             /\ data' = Forward(s, BlockSize * Len(hit))
             /\ queue' = queue \o JobsOf(r, EnabledSpec(r, BlockSize * Len(hit)), s)
        /\ status' = [status EXCEPT ![r] = "running"]
        /\ computed' = [computed EXCEPT ![r] = Tokens[r]]
        /\ pooled' = [pooled EXCEPT ![r] = << >>]
        /\ loadSpec' = [loadSpec EXCEPT ![r] = NoSpec]
        /\ UNCHANGED <<loading, threadVars, outVars>>
  BY DEF AdmitRun, NoteBlocks
<1>3. PICK s \in Slots(hit, Tokens[r]) :
        /\ held' = [held EXCEPT ![r] = s]
        /\ cached' = Allocated(s, hit, Tokens[r], FALSE)
        /\ data' = Forward(s, BlockSize * Len(hit))
        /\ queue' = queue \o JobsOf(r, EnabledSpec(r, BlockSize * Len(hit)), s)
  BY <1>2
<1>4. /\ hit \in Seq(Block) /\ Distinct(hit) /\ Len(hit) \in Nat
      /\ \A i \in 1..Len(hit) : cached[hit[i]] = i
  BY HitFacts
<1>. DEFINE n == BlockSize * Len(hit)
<1>5. n \in Nat /\ Full(n) = Len(hit) /\ Ceil(n) = Len(hit)
  BY <1>4, WholeBlocks
<1>6. \A i \in 1..Len(hit) : data[hit[i]] = i
  <2>. SUFFICES ASSUME NEW i \in 1..Len(hit) PROVE data[hit[i]] = i
    OBVIOUS
  <2>1. hit[i] \in Block /\ cached[hit[i]] = i /\ i # 0
    BY <1>4
  <2>. QED BY <1>1, <2>1 DEF DataInv, CachedIsTrue
<1>7. data' = Forward(s, n)
  BY <1>3
<1>10. loadSpec' \in [Request -> WaitingSpec]
  BY <1>1, <1>2 DEF Types, WaitingSpec, NoSpec
<1>11. UNCHANGED queue
  <2>1. JobsOf(r, EnabledSpec(r, n), s) = << >>
    BY <1>1, <1>2, <1>5, SpecFacts
  <2>2. queue \in Seq(JobType)
    BY <1>1 DEF Types
  <2>. QED BY <1>3, <2>1, <2>2, ConcatEmptySeq
<1>. HIDE DEF n
<1>8. Runs(r, hit, s, n)
  <2>1. Ceil(n) <= Len(hit) /\ \A i \in 1..Ceil(n) : data[hit[i]] = i
    BY <1>4, <1>5, <1>6
  <2>2. ~\E i \in 1..Len(hit) : i > Full(n)
    BY <1>4, <1>5
  <2>. QED BY <1>2, <1>3, <1>4, <1>5, <1>7, <1>10, <1>11, <2>1, <2>2 DEF Runs
<1>. QED BY <1>3, <1>4, <1>8, RunInv

\* One that was parked stands on what counts of its load.
LEMMA ResumeInv ==
  ASSUME LoadInv, NEW r \in Request, Resume(r)
  PROVE  LoadInv'
<1>1. Types /\ PrivateInv /\ DataInv
  BY DEF LoadInv
<1>. DEFINE old == held[r]  n == computed[r]
<1>2. /\ status[r] = "ready"
      /\ status' = [status EXCEPT ![r] = "running"]
      /\ computed' = [computed EXCEPT ![r] = Tokens[r]]
      /\ pooled' = [pooled EXCEPT ![r] = << >>]
      /\ UNCHANGED <<loading, queue, threadVars, outVars>>
      /\ loadSpec' \in [Request -> WaitingSpec]
  BY <1>1 DEF Resume, NoteBlocks, Types
<1>3. PICK s \in Slots(old, Tokens[r]) :
        /\ held' = [held EXCEPT ![r] = s]
        /\ cached' = Allocated(s, old, Tokens[r], FALSE)
        /\ data' = Forward(s, n)
  BY DEF Resume
<1>4. old \in Seq(Block) /\ n \in Nat
  BY <1>1 DEF Types
<1>5. Distinct(old)
  BY <1>1 DEF PrivateInv, Distinct
<1>6. Ceil(n) <= Len(old) /\ \A i \in 1..Ceil(n) : data[old[i]] = i
  BY <1>1, <1>2 DEF DataInv
<1>7. \A i \in 1..Len(old) : i > Full(n) =>
        cached[old[i]] = 0 /\ \A q \in Request \ {r} : \A k \in 1..Len(held[q]) : held[q][k] # old[i]
  BY <1>1, <1>2 DEF PrivateInv, Private
<1>8. old = held[r]
  OBVIOUS
<1>. HIDE DEF old, n
<1>9. Runs(r, old, s, n)
  BY <1>2, <1>3, <1>4, <1>5, <1>6, <1>7 DEF Runs
<1>. QED BY <1>3, <1>4, <1>8, <1>9, RunInv

-----------------------------------------------------------------------------
(* The end of a step: what failed is cut off *)

\* Nothing is still to come for a request the thread is through with.
LEMMA PastFacts ==
  ASSUME LoadInv, NEW q \in Request, Past(q)
  PROVE  /\ \A i \in 1..Len(held[q]) : ~Queued(held[q][i])
         /\ \A i \in 1..Len(held[q]) : ~(Copied /\ held[q][i] \in failed)
<1>1. Types /\ JobInv /\ PrivateInv
  BY DEF LoadInv
<1>2. ASSUME NEW i \in 1..Len(held[q]), NEW a \in 1..Len(queue), NEW k \in Wanted(queue[a]),
             held[q][i] = queue[a].blocks[k]
      PROVE  FALSE
  <2>1. Sound(queue[a]) /\ Private(queue[a].req, k)
    BY <1>1 DEF JobInv, PrivateInv
  <2>2. q = queue[a].req
    BY <1>2, <2>1 DEF Private, Sound
  <2>3. recv = "finish" /\ job.req = q
    BY <2>1, <2>2 DEF Past, Sound
  <2>. QED BY <1>1, <2>2, <2>3 DEF JobInv, Busy
<1>3. ASSUME NEW i \in 1..Len(held[q]), Copied, held[q][i] \in failed
      PROVE  FALSE
  <2>1. Busy /\ Sound(job)
    BY <1>1, <1>3 DEF JobInv, Busy
  <2>2. PICK k \in Wanted(job) : held[q][i] = job.blocks[k]
    BY <1>1, <1>3 DEF JobInv
  <2>3. Private(job.req, k)
    BY <1>1, <2>1 DEF PrivateInv
  <2>4. q = job.req
    BY <2>1, <2>2, <2>3 DEF Private, Sound
  <2>. QED BY <1>3, <2>1, <2>4 DEF Past, Sound
<1>. QED BY <1>2, <1>3 DEF Queued

\* A request with an invalid block keeps the blocks before the first one;
\* those from there on are its own.
LEMMA HurtFacts ==
  ASSUME LoadInv, NEW q \in Request, q \in Hurt(invalid)
  PROVE  /\ status[q] = "loading" /\ Past(q) /\ q \notin suspect
         /\ Good(q, invalid) \in Nat /\ Good(q, invalid) < Len(held[q])
         /\ \A i \in 1..Good(q, invalid) : held[q][i] \notin invalid
         /\ \A k \in 1..Len(held[q]) : k > Good(q, invalid) => Private(q, k)
<1>1. Types /\ JobInv /\ PrivateInv /\ DataInv
  BY DEF LoadInv
<1>2. status[q] = "loading" /\ held[q] \in Seq(Block)
  BY <1>1 DEF Hurt, Types
<1>3. PICK x \in 1..Len(held[q]) : held[q][x] \in invalid
  <2>1. \A b \in Range(held[q]) : \E k \in 1..Len(held[q]) : held[q][k] = b
    BY <1>2 DEF Range
  <2>. QED BY <2>1 DEF Hurt
<1>4. Past(q)
  <2>1. PICK p \in Request : /\ status[p] = "loading" /\ Past(p)
                             /\ \E i \in 1..Len(held[p]) : held[q][x] = held[p][i] /\ Private(p, i)
    BY <1>3, InvalidOwned
  <2>2. p = q
    BY <2>1 DEF Private
  <2>. QED BY <2>1, <2>2
<1>5. q \notin suspect
  BY <1>1, <1>3 DEF DataInv, Pending
<1>. DEFINE n == Len(held[q])
            S == {i \in 1..n : held[q][i] \notin invalid}
            g == PrefixIn(S, n)
<1>6. n \in Nat
  BY <1>2
<1>7. Good(q, invalid) = g
  BY DEF Good
<1>8. g \in 0..n /\ (\A i \in 1..g : i \in S) /\ (g < n => g + 1 \notin S)
  <2>. HIDE DEF n, S
  <2>. QED BY <1>6, PrefixFacts
<1>. HIDE DEF g
<1>9. \A i \in 1..g : held[q][i] \notin invalid
  BY <1>8
<1>10. g < x
  BY <1>3, <1>6, <1>8, <1>9
<1>11. g + 1 \in 1..n /\ held[q][g + 1] \in invalid
  BY <1>3, <1>6, <1>8, <1>10
<1>12. ASSUME NEW k \in 1..n, k > g PROVE Private(q, k)
  <2>1. g + 1 <= k
    BY <1>6, <1>8, <1>12
  <2>. QED BY <1>1, <1>2, <1>11, <2>1 DEF PrivateInv
<1>13. g < n
  BY <1>6, <1>8, <1>11
<1>. QED BY <1>2, <1>4, <1>5, <1>7, <1>8, <1>9, <1>12, <1>13

\* Cut requests keep blocks before the first bad one; collected ones are through
\* with their load, and what they cache is there.
LEMMA UpdateInv == ASSUME LoadInv, UpdateFromOutput PROVE LoadInv'
<1>1. Types /\ JobInv /\ PrivateInv /\ DataInv
  BY DEF LoadInv
<1>. DEFINE hurt   == Hurt(invalid)
            counts == [q \in Request |-> IF q \in hurt THEN BlockSize * Good(q, invalid) ELSE computed[q]]
            lost   == {q \in got : q \in suspect \cup hurt /\ counts[q] = 0}
            kept   == got \ lost
<1>2. /\ invalid' = {} /\ suspect' = (suspect \cup hurt) \ got /\ computed' = counts
      /\ status' = [q \in Request |-> IF q \in lost THEN "waiting" ELSE IF q \in kept THEN "ready" ELSE status[q]]
      /\ held' = [q \in Request |-> IF q \in lost THEN << >> ELSE held[q]]
      /\ cached' = [b \in Block |-> IF Places(kept, counts, b) = {} THEN cached[b]
                                    ELSE CHOOSE i \in Places(kept, counts, b) : TRUE]
      /\ loading' = loading \ got /\ engine' = "schedule" /\ got' = {}
      /\ UNCHANGED <<data, loadSpec, pooled, queue, recv, job, failed, received, dropped>>
  BY DEF UpdateFromOutput, StillLoading
<1>3. lost \subseteq got /\ kept \subseteq got /\ got \subseteq Request /\ lost \cap kept = {} /\ got = lost \cup kept
  BY <1>1 DEF Types
<1>4. hurt \subseteq Request /\ \A q \in hurt : status[q] = "loading"
  BY DEF Hurt
<1>5. ASSUME NEW q \in hurt
      PROVE  /\ counts[q] \in Nat /\ Full(counts[q]) = Good(q, invalid) /\ Ceil(counts[q]) = Good(q, invalid)
             /\ Good(q, invalid) \in Nat
  <2>1. q \in Request /\ Good(q, invalid) \in Nat
    BY <1>4, HurtFacts
  <2>2. counts[q] = BlockSize * Good(q, invalid)
    BY <2>1
  <2>. QED BY <2>1, <2>2, WholeBlocks
<1>6. \A q \in Request : q \notin hurt => counts[q] = computed[q]
  OBVIOUS
<1>7. counts \in [Request -> Nat]
  <2>1. ASSUME NEW q \in Request PROVE counts[q] \in Nat
    BY <1>1, <1>5, <1>6 DEF Types
  <2>2. counts = [q \in Request |-> counts[q]]
    OBVIOUS
  <2>. HIDE DEF counts
  <2>. QED BY <2>1, <2>2
<1>8. \A q \in Request : \A i \in 1..Len(held[q]) : held[q][i] \in invalid /\ status[q] = "loading" => q \in hurt
  BY DEF Hurt, Range
<1>. HIDE DEF hurt, counts, lost, kept
<1>9. \A q \in got : q \in Request /\ status[q] = "loading" /\ Past(q) /\ q \notin dropped
  BY <1>1, <1>3 DEF JobInv, Past
<1>10. \A q \in Request : Full(counts[q]) \in Nat /\ Ceil(counts[q]) \in Nat /\ Full(counts[q]) <= Ceil(counts[q])
  <2>1. \A q \in Request : counts[q] \in Nat
    BY <1>7
  <2>. QED BY <2>1, BlockCounts
<1>11. ASSUME NEW q \in Request, status[q] \in {"loading", "ready", "running"}
       PROVE  Ceil(counts[q]) <= Len(held[q])
  <2>1. CASE q \in hurt
    BY <1>5, <2>1, HurtFacts DEF hurt
  <2>2. CASE q \notin hurt
    BY <1>1, <1>6, <1>11, <2>2 DEF DataInv
  <2>. QED BY <2>1, <2>2
<1>12. ASSUME NEW q \in Request, status[q] \in {"loading", "ready"}, NEW i \in 1..Len(held[q]), i > Full(counts[q])
       PROVE  Private(q, i)
  <2>1. CASE q \in hurt
    BY <1>5, <1>12, <2>1, HurtFacts DEF hurt
  <2>2. CASE q \notin hurt
    BY <1>1, <1>6, <1>12, <2>2 DEF PrivateInv
  <2>. QED BY <2>1, <2>2
<1>13. ASSUME NEW q \in got, NEW i \in 1..Ceil(counts[q])
       PROVE  i \in 1..Len(held[q]) /\ data[held[q][i]] = i
  <2>0. q \in Request /\ status[q] = "loading" /\ Past(q) /\ held[q] \in Seq(Block)
    BY <1>1, <1>9 DEF Types
  <2>1. i \in 1..Len(held[q])
    <3>1. Ceil(counts[q]) \in Nat /\ Ceil(counts[q]) <= Len(held[q]) /\ Len(held[q]) \in Nat
      BY <1>10, <1>11, <2>0
    <3>. QED BY <3>1
  <2>2. held[q][i] \notin invalid
    <3>1. CASE q \in hurt
      BY <1>5, <2>0, <3>1, HurtFacts DEF hurt
    <3>2. CASE q \notin hurt
      BY <1>8, <2>0, <2>1, <3>2
    <3>. QED BY <3>1, <3>2
  <2>3. ~Pending(held[q][i])
    BY <2>0, <2>1, <2>2, PastFacts DEF Pending
  <2>4. ~(q \in suspect /\ i > Ceil(computed[q]))
    <3>1. CASE q \in hurt
      BY <2>0, <3>1, HurtFacts DEF hurt
    <3>2. CASE q \notin hurt
      BY <1>6, <1>10, <2>0, <3>2
    <3>. QED BY <3>1, <3>2
  <2>. QED BY <1>1, <1>9, <2>0, <2>1, <2>3, <2>4 DEF DataInv
<1>14. \A b \in Block : \A i \in Places(kept, counts, b) :
         \E q \in kept : i \in 1..Full(counts[q]) /\ held[q][i] = b
  BY DEF Places
<1>15. \A q \in kept : \A i \in 1..Full(counts[q]) : i \in Nat /\ i \in 1..Len(held[q]) /\ data[held[q][i]] = i
  <2>. SUFFICES ASSUME NEW q \in kept, NEW i \in 1..Full(counts[q])
                PROVE  i \in Nat /\ i \in 1..Len(held[q]) /\ data[held[q][i]] = i
    OBVIOUS
  <2>1. q \in got /\ q \in Request
    BY <1>3
  <2>2. i \in 1..Ceil(counts[q])
    BY <1>10, <2>1
  <2>. QED BY <1>13, <2>1, <2>2
<1>16. \A b \in Block : \/ cached'[b] = cached[b] /\ Places(kept, counts, b) = {}
                        \/ cached'[b] \in Nat /\ data[b] = cached'[b]
  <2>. SUFFICES ASSUME NEW b \in Block, Places(kept, counts, b) # {}
                PROVE  cached'[b] \in Nat /\ data[b] = cached'[b]
    BY <1>2
  <2>1. cached'[b] \in Places(kept, counts, b)
    BY <1>2
  <2>2. PICK q \in kept : cached'[b] \in 1..Full(counts[q]) /\ held[q][cached'[b]] = b
    BY <1>14, <2>1
  <2>. QED BY <1>15, <2>2
<1>17. Types'
  <2>1. cached' \in [Block -> Nat]
    <3>1. \A b \in Block : cached'[b] \in Nat
      BY <1>1, <1>16 DEF Types
    <3>2. cached' = [b \in Block |-> cached'[b]]
      BY <1>2
    <3>. QED BY <3>1, <3>2
  <2>2. held' \in [Request -> Seq(Block)]
    <3>1. << >> \in Seq(Block)
      OBVIOUS
    <3>. QED BY <1>1, <1>2, <3>1 DEF Types
  <2>3. status' \in [Request -> {"waiting", "loading", "ready", "running", "done"}]
    BY <1>1, <1>2 DEF Types
  <2>4. suspect' \subseteq Request /\ loading' \subseteq Request
    BY <1>1, <1>2, <1>4 DEF Types
  <2>. QED BY <1>1, <1>2, <1>7, <2>1, <2>2, <2>3, <2>4 DEF Types
<1>18. /\ \A q \in Request \ got : status'[q] = status[q] /\ held'[q] = held[q]
       /\ \A q \in lost : status'[q] = "waiting" /\ held'[q] = << >>
       /\ \A q \in kept : status'[q] = "ready" /\ held'[q] = held[q]
  BY <1>2, <1>3
<1>19. JobInv'
  <2>1. \A x \in JobType : Sound(x) =>
          /\ status'[x.req] = "loading" /\ x.blocks = held'[x.req] /\ x.from <= Len(x.blocks)
          /\ x.req \notin received' \cup got' \cup dropped'
    BY <1>2, <1>18 DEF Sound, JobType
  <2>2. \A i \in 1..Len(queue) : queue[i] \in JobType
    BY <1>1 DEF Types
  <2>3. \A i \in 1..Len(queue) : Sound(queue[i])'
    BY <1>1, <1>2, <2>1, <2>2 DEF Sound, JobInv
  <2>4. Busy => job \in JobType /\ Sound(job)'
    BY <1>1, <1>2, <2>1 DEF Sound, JobInv
  <2>5. LoadingIsExact'
    <3>1. \A q \in Request : status'[q] = "loading" <=> status[q] = "loading" /\ q \notin got
      BY <1>3, <1>18
    <3>. QED BY <1>1, <1>2, <3>1 DEF JobInv, LoadingIsExact
  <2>6. \A q \in received \cup dropped : status'[q] = "loading"
    <3>1. \A q \in received \cup dropped : q \in Request /\ q \notin got /\ status[q] = "loading"
      BY <1>1 DEF JobInv, Types
    <3>. QED BY <1>18, <3>1
  <2>. QED BY <1>1, <1>2, <2>3, <2>4, <2>5, <2>6 DEF JobInv, Busy, Wanted
<1>20. ASSUME NEW q \in Request, q \notin lost, NEW i \in 1..Len(held[q]), Private(q, i),
              q \in kept => i > Full(counts[q])
       PROVE  /\ cached'[held'[q][i]] = 0
              /\ \A p \in Request \ {q} : \A m \in 1..Len(held'[p]) : held'[p][m] # held'[q][i]
  <2>1. held'[q] = held[q] /\ held[q][i] \in Block
    BY <1>1, <1>2, <1>20 DEF Types
  <2>2. Places(kept, counts, held[q][i]) = {}
    <3>. SUFFICES ASSUME NEW k \in Places(kept, counts, held[q][i]) PROVE FALSE
      OBVIOUS
    <3>1. PICK p \in kept : k \in 1..Full(counts[p]) /\ held[p][k] = held[q][i]
      BY <1>14, <2>1
    <3>2. p \in Request /\ k \in 1..Len(held[p]) /\ Full(counts[p]) \in Nat
      BY <1>3, <1>10, <1>15, <3>1
    <3>3. p = q
      BY <1>20, <3>1, <3>2 DEF Private
    <3>4. k = i
      BY <1>1, <3>1, <3>2, <3>3 DEF PrivateInv
    <3>. QED BY <1>20, <3>1, <3>2, <3>3, <3>4
  <2>3. cached'[held[q][i]] = 0
    BY <1>2, <1>20, <2>1, <2>2 DEF Private
  <2>4. \A p \in Request \ {q} : \A m \in 1..Len(held'[p]) : m \in 1..Len(held[p]) /\ held'[p][m] = held[p][m]
    BY <1>2
  <2>. QED BY <1>20, <2>1, <2>3, <2>4 DEF Private
<1>21. ASSUME NEW x \in JobType, Sound(x), NEW k \in Wanted(x), Private(x.req, k)
       PROVE  Private(x.req, k)'
  <2>1. x.req \in Request /\ x.req \notin got
    BY <1>21 DEF Sound, JobType
  <2>2. x.from \in Nat /\ Len(held[x.req]) \in Nat /\ k \in x.from + 1..Len(held[x.req])
    <3>1. held[x.req] \in Seq(Block)
      BY <1>1, <2>1 DEF Types
    <3>. QED BY <1>21, <3>1 DEF Sound, JobType, Wanted
  <2>3. k \in 1..Len(held[x.req]) /\ x.req \notin lost /\ x.req \notin kept
    BY <1>3, <2>1, <2>2
  <2>. QED BY <1>20, <1>21, <2>1, <2>3 DEF Private
<1>22. PrivateInv'
  <2>1. \A q \in Request : \A i, k \in 1..Len(held'[q]) : held'[q][i] = held'[q][k] => i = k
    <3>1. \A q \in Request : held'[q] = << >> \/ held'[q] = held[q]
      BY <1>2
    <3>. QED BY <1>1, <3>1 DEF PrivateInv
  <2>2. ASSUME NEW i \in 1..Len(queue), NEW k \in Wanted(queue[i])
        PROVE  Private(queue[i].req, k)'
    <3>1. Private(queue[i].req, k) /\ Sound(queue[i])
      BY <1>1 DEF PrivateInv, JobInv
    <3>2. PICK x \in JobType : x = queue[i]
      BY <1>1 DEF Types
    <3>3. Private(x.req, k)'
      BY <1>21, <3>1, <3>2
    <3>4. x = queue'[i]
      BY <1>2, <3>2
    <3>. QED BY <3>3, <3>4 DEF Private
  <2>3. ASSUME Busy, NEW k \in Wanted(job)
        PROVE  Private(job.req, k)'
    <3>1. Private(job.req, k) /\ Sound(job)
      BY <1>1, <2>3 DEF PrivateInv, JobInv
    <3>2. PICK x \in JobType : x = job
      BY <1>1, <2>3 DEF JobInv
    <3>3. Private(x.req, k)'
      BY <1>21, <3>1, <3>2
    <3>4. x = job'
      BY <1>2, <3>2
    <3>. QED BY <3>3, <3>4 DEF Private
  <2>4. ASSUME NEW q \in Request, status'[q] \in {"loading", "ready"}, NEW i \in 1..Len(held'[q]), i > Full(computed'[q])
        PROVE  Private(q, i)'
    <3>1. q \notin lost
      BY <1>18, <2>4
    <3>2. held'[q] = held[q] /\ status[q] \in {"loading", "ready"}
      BY <1>9, <1>3, <1>18, <2>4, <3>1
    <3>3. i \in 1..Len(held[q]) /\ i > Full(counts[q])
      BY <1>2, <2>4, <3>2
    <3>4. Private(q, i)
      BY <1>12, <3>2, <3>3
    <3>. QED BY <1>20, <3>1, <3>3, <3>4 DEF Private
  <2>. QED BY <1>2, <2>1, <2>2, <2>3, <2>4 DEF PrivateInv, Busy, Wanted
<1>23. \A b : Pending(b)' <=> Queued(b) \/ (Copied /\ b \in failed)
  BY <1>2 DEF Pending, Queued, Wanted
<1>24. DataInv'
  <2>1. \A q \in Request : status'[q] \in {"loading", "ready", "running"} => Ceil(computed'[q]) <= Len(held'[q])
    <3>. SUFFICES ASSUME NEW q \in Request, status'[q] \in {"loading", "ready", "running"}
                  PROVE  Ceil(computed'[q]) <= Len(held'[q])
      OBVIOUS
    <3>1. held'[q] = held[q] /\ status[q] \in {"loading", "ready", "running"}
      BY <1>3, <1>9, <1>18
    <3>. QED BY <1>2, <1>11, <3>1
  <2>2. ASSUME NEW q \in Request, status'[q] = "loading", NEW i \in 1..Len(held'[q])
        PROVE  \/ data[held'[q][i]] = i
               \/ Pending(held[q][i])'
               \/ q \in suspect' /\ i > Ceil(computed'[q])
               \/ q \in dropped
    <3>1. q \notin got /\ held'[q] = held[q] /\ status[q] = "loading" /\ i \in 1..Len(held[q])
      BY <1>3, <1>18, <2>2
    <3>2. \/ data[held[q][i]] = i
          \/ Pending(held[q][i])
          \/ q \in suspect /\ i > Ceil(computed[q])
          \/ q \in dropped
      BY <1>1, <3>1 DEF DataInv
    <3>0. CASE q \in dropped
      BY <3>0
    <3>3. CASE q \in hurt
      <4>1. q \notin suspect /\ q \in suspect' /\ Past(q)
        BY <1>2, <3>1, <3>3, HurtFacts DEF hurt
      <4>2. CASE i > Ceil(computed'[q])
        BY <4>1, <4>2
      <4>3. CASE i <= Ceil(computed'[q])
        <5>1. i \in 1..Good(q, invalid)
          BY <1>2, <1>5, <3>1, <3>3, <4>3
        <5>2. held[q][i] \notin invalid
          BY <3>3, <5>1, HurtFacts DEF hurt
        <5>3. ~Pending(held[q][i])
          BY <3>1, <4>1, <5>2, PastFacts DEF Pending
        <5>. QED BY <3>0, <3>1, <3>2, <4>1, <5>3
      <4>4. Ceil(computed'[q]) \in Nat /\ i \in Nat
        BY <1>2, <1>10
      <4>. QED BY <4>2, <4>3, <4>4
    <3>4. CASE q \notin hurt
      <4>1. held[q][i] \notin invalid
        BY <1>8, <3>1, <3>4
      <4>2. CASE data[held[q][i]] = i
        BY <3>1, <4>2
      <4>3. CASE Pending(held[q][i])
        <5>1. Queued(held[q][i]) \/ (Copied /\ held[q][i] \in failed)
          BY <4>1, <4>3 DEF Pending
        <5>2. PICK b : b = held[q][i]
          OBVIOUS
        <5>3. Pending(b)'
          BY <1>23, <5>1, <5>2
        <5>. QED BY <3>1, <5>2, <5>3
      <4>4. CASE q \in suspect /\ i > Ceil(computed[q])
        BY <1>2, <1>6, <3>1, <3>4, <4>4
      <4>. QED BY <3>0, <3>2, <4>2, <4>3, <4>4
    <3>. QED BY <3>3, <3>4
  <2>3. ASSUME NEW q \in suspect'
        PROVE  status'[q] = "loading" /\ \A i \in 1..Len(held'[q]) : ~Pending(held[q][i])'
    <3>1. q \in Request \ got /\ (q \in suspect \/ q \in hurt)
      BY <1>1, <1>2, <1>4, <2>3 DEF Types
    <3>2. status[q] = "loading" /\ status'[q] = "loading" /\ held'[q] = held[q]
      BY <1>1, <1>4, <1>18, <3>1 DEF DataInv
    <3>3. \A i \in 1..Len(held[q]) : ~Queued(held[q][i]) /\ ~(Copied /\ held[q][i] \in failed)
      <4>1. CASE q \in suspect
        BY <1>1, <4>1 DEF DataInv, Pending
      <4>2. CASE q \in hurt
        BY <3>1, <4>2, HurtFacts, PastFacts DEF hurt
      <4>. QED BY <3>1, <4>1, <4>2
    <3>4. ASSUME NEW i \in 1..Len(held'[q])
          PROVE  ~Pending(held[q][i])'
      <4>1. PICK b : b = held'[q][i]
        OBVIOUS
      <4>2. ~Pending(b)'
        BY <1>23, <3>2, <3>3, <4>1
      <4>. QED BY <4>1, <4>2
    <3>. QED BY <3>2, <3>4
  <2>4. ASSUME NEW q \in Request, status'[q] \in {"ready", "running"}, NEW i \in 1..Ceil(computed'[q])
        PROVE  data[held'[q][i]] = i
    <3>1. CASE q \in got
      <4>1. held'[q] = held[q]
        BY <1>3, <1>18, <2>4, <3>1
      <4>. QED BY <1>2, <1>13, <2>4, <3>1, <4>1
    <3>2. CASE q \notin got
      <4>1. status[q] \in {"ready", "running"} /\ held'[q] = held[q]
        BY <1>18, <2>4, <3>2
      <4>2. q \notin hurt
        BY <1>4, <4>1
      <4>. QED BY <1>1, <1>2, <1>6, <2>4, <4>1, <4>2 DEF DataInv
    <3>. QED BY <3>1, <3>2
  <2>5. CachedIsTrue'
    BY <1>1, <1>2, <1>16 DEF DataInv, CachedIsTrue
  <2>. QED BY <1>2, <2>1, <2>2, <2>3, <2>4, <2>5 DEF DataInv
<1>. QED BY <1>17, <1>19, <1>22, <1>24 DEF LoadInv

-----------------------------------------------------------------------------
(* Types in full: nothing leaves the positions the prompts have *)

\* A finite set of naturals has an upper bound.
LEMMA FiniteBounded ==
  ASSUME NEW S \in SUBSET Nat, IsFiniteSet(S)
  PROVE  \E n \in Nat : S \in SUBSET (0..n)
<1>1. PICK m \in Nat : ExistsBijection(1..m, S)
  BY FS_NatBijection
<1>2. PICK f \in [1..m -> S] : \A x \in S : \E i \in 1..m : f[i] = x
  BY <1>1 DEF ExistsBijection, Bijection, Surjection
<1>. DEFINE Less == {ss \in Nat \X Nat : ss[1] < ss[2]}
            Above(k) == \E n \in Nat : \A i \in 1..k : f[i] <= n
            T == {k \in 0..m : ~Above(k)}
<1>3. IsWellFoundedOn(Less, Nat)
  BY NatLessThanWellFounded DEF OpToRel
<1>4. T = {}
  <2>. SUFFICES ASSUME T # {} PROVE FALSE
    OBVIOUS
  <2>1. T \subseteq Nat
    OBVIOUS
  <2>. HIDE DEF Less
  <2>2. PICK k \in T : \A z \in T : <<z, k>> \notin Less
    BY <1>3, <2>1, WFMin
  <2>3. \A z \in T : ~(z < k)
    BY <2>1, <2>2 DEF Less
  <2>4. k \in 0..m /\ ~Above(k)
    BY <2>2
  <2>5. Above(0)
    <3>1. \A i \in 1..0 : f[i] <= 0
      OBVIOUS
    <3>. QED BY <3>1
  <2>6. k - 1 \in 0..m /\ k - 1 < k
    BY <2>4, <2>5
  <2>7. Above(k - 1)
    BY <2>3, <2>6
  <2>8. PICK n \in Nat : \A i \in 1..k - 1 : f[i] <= n
    BY <2>7
  <2>9. k \in 1..m /\ k - 1 \in Nat /\ k \in Nat
    <3>1. k \in 0..m
      BY <2>4
    <3>. HIDE DEF Above, T
    <3>. QED BY <2>6, <3>1
  <2>10. \A i \in 1..k : i = k \/ i \in 1..k - 1
    BY <2>9
  <2>11. \A i \in 1..k : i \in 1..m
    BY <2>9
  <2>12. \A i \in 1..m : f[i] \in Nat
    BY <1>2
  <2>13. f[k] \in Nat
    BY <2>9, <2>12
  <2>. HIDE DEF Above, T
  <2>14. \A i \in 1..k : f[i] <= n + f[k]
    <3>. SUFFICES ASSUME NEW i \in 1..k PROVE f[i] <= n + f[k]
      OBVIOUS
    <3>1. f[i] \in Nat
      BY <2>11, <2>12
    <3>2. f[i] = f[k] \/ f[i] <= n
      BY <2>8, <2>10
    <3>. QED BY <2>13, <3>1, <3>2
  <2>15. n + f[k] \in Nat
    BY <2>13
  <2>16. Above(k)
    BY <2>14, <2>15 DEF Above
  <2>. QED BY <2>4, <2>16
<1>5. Above(m)
  <2>1. m \in 0..m
    OBVIOUS
  <2>. QED BY <1>4, <2>1
<1>6. PICK n \in Nat : \A i \in 1..m : f[i] <= n
  BY <1>5
<1>7. S \in SUBSET (0..n)
  BY <1>2, <1>6
<1>. QED BY <1>7

\* Every block a prompt needs has a position.
LEMMA InPosition ==
  ASSUME NEW r \in Request, NEW i \in 1..Ceil(Tokens[r])
  PROVE  i \in Position
<1>. DEFINE S == {Ceil(Tokens[q]) : q \in Request}
<1>1. \A q \in Request : Ceil(Tokens[q]) \in Nat
  BY LoadAssumption, BlockCounts
<1>2. S \in SUBSET Nat /\ Ceil(Tokens[r]) \in S
  BY <1>1
<1>3. IsFiniteSet(S)
  <2>. DEFINE f == [q \in Request |-> Ceil(Tokens[q])]
  <2>1. f \in Surjection(Request, S)
    BY DEF Surjection
  <2>. QED BY <2>1, LoadAssumption, FS_Surjection
<1>. HIDE DEF S
<1>4. PICK n \in Nat : S \in SUBSET (0..n)
  BY <1>2, <1>3, FiniteBounded
<1>5. Max(S) \in S /\ Max(S) >= Ceil(Tokens[r])
  BY <1>2, <1>4, MaxExists
<1>6. Max(S) \in Nat
  BY <1>2, <1>5
<1>. QED BY <1>1, <1>5, <1>6 DEF Position, S

\* The positions a request may fill, and how far it may count as computed.
BoundInv ==
  /\ store \subseteq Position
  /\ \A b \in Block : data[b] \in {0} \cup Position
  /\ \A r \in Request : computed[r] <= Tokens[r]
  /\ \A r \in Request : Len(held[r]) <= Ceil(Tokens[r])

\* Nothing is held, copied or stored at the start.
LEMMA InitBound == Init => BoundInv
<1>. SUFFICES ASSUME Init PROVE BoundInv
  OBVIOUS
<1>1. \A r \in Request : Tokens[r] \in Nat /\ Ceil(Tokens[r]) \in Nat
  BY LoadAssumption, BlockCounts
<1>2. \A r \in Request : computed[r] = 0 /\ Len(held[r]) = 0
  BY DEF Init
<1>. QED BY <1>1, <1>2 DEF Init, BoundInv

\* A local hit is shorter than the prompt, and so is what the store promises:
\* their slots stay among the prompt's.
LEMMA HitBounds ==
  ASSUME NEW r \in Request, NEW hit \in ComputedBlocks(r)
  PROVE  /\ Len(hit) <= Ceil(Tokens[r])
         /\ HitTokens(r) <= Tokens[r]
<1>1. Tokens[r] \in Nat \ {0} /\ BlockSize \in Nat /\ Tokens[r] - 1 \in Nat
  BY LoadAssumption
<1>2. /\ Full(Tokens[r]) \in Nat /\ BlockSize * Full(Tokens[r]) <= Tokens[r]
      /\ Full(Tokens[r] - 1) \in Nat /\ Ceil(Tokens[r]) \in Nat
      /\ Full(Tokens[r]) <= Ceil(Tokens[r])
  BY <1>1, BlockCounts
<1>3. Full(Tokens[r] - 1) <= Full(Tokens[r])
  BY <1>1, FullMonotonic
<1>4. Len(hit) \in Nat /\ Len(hit) <= Full(Tokens[r] - 1)
  BY HitFacts
<1>. DEFINE p == PrefixIn(store, Full(Tokens[r]))
<1>5. p \in Nat /\ p <= Full(Tokens[r])
  BY <1>2, PrefixFacts
<1>. HIDE DEF p
<1>6. BlockSize * p <= BlockSize * Full(Tokens[r])
  BY <1>1, <1>2, <1>5
<1>7. Lookup(r) <= Tokens[r] /\ Lookup(r) \in Nat
  BY <1>1, <1>2, <1>5, <1>6 DEF Lookup, p
<1>8. HitTokens(r) <= Tokens[r]
  BY <1>1, <1>7 DEF HitTokens
<1>. QED BY <1>2, <1>3, <1>4, <1>8

\* Slots for no more tokens than the prompt has, behind blocks that fit it.
LEMMA SlotBounds ==
  ASSUME Types, NEW r \in Request, NEW old \in Seq(Block), Distinct(old),
         Len(old) <= Ceil(Tokens[r]),
         NEW n \in Nat, n <= Tokens[r], NEW s \in Slots(old, n)
  PROVE  /\ s \in Seq(Block) /\ Len(s) <= Ceil(Tokens[r])
         /\ \A i \in 1..Len(s) : i \in Position
<1>1. held \in [Request -> Seq(Block)]
  BY DEF Types
<1>2. s \in Seq(Block) /\ (Len(s) = Len(old) \/ Len(s) = Ceil(n))
  BY <1>1, SlotFacts
<1>3. Tokens[r] \in Nat
  BY LoadAssumption
<1>4. Ceil(n) <= Ceil(Tokens[r]) /\ Ceil(n) \in Nat /\ Ceil(Tokens[r]) \in Nat
  BY <1>3, FullMonotonic, BlockCounts
<1>5. Len(s) <= Ceil(Tokens[r]) /\ Len(s) \in Nat
  BY <1>2, <1>4
<1>6. \A i \in 1..Len(s) : i \in 1..Ceil(Tokens[r])
  BY <1>4, <1>5
<1>. QED BY <1>2, <1>5, <1>6, InPosition

\* A pass over blocks with positions writes positions.
LEMMA ForwardBound ==
  ASSUME \A b \in Block : data[b] \in {0} \cup Position,
         NEW s \in Seq(Block), NEW n \in Nat, \A i \in 1..Len(s) : i \in Position
  PROVE  \A b \in Block : Forward(s, n)[b] \in {0} \cup Position
<1>. SUFFICES ASSUME NEW b \in Block PROVE Forward(s, n)[b] \in {0} \cup Position
  OBVIOUS
<1>. DEFINE c == CHOOSE i \in 1..Len(s) : s[i] = b
<1>1. CASE \E i \in Full(n) + 1..Len(s) : s[i] = b
  <2>1. Full(n) \in Nat
    BY BlockCounts
  <2>2. \E i \in 1..Len(s) : s[i] = b
    BY <1>1, <2>1
  <2>3. c \in 1..Len(s)
    BY <2>2
  <2>. HIDE DEF c
  <2>4. Forward(s, n)[b] \in {0, c}
    BY <1>1 DEF Forward, c
  <2>. QED BY <2>3, <2>4
<1>2. CASE ~\E i \in Full(n) + 1..Len(s) : s[i] = b
  <2>1. Forward(s, n)[b] = data[b]
    BY <1>2 DEF Forward
  <2>. QED BY <2>1
<1>. QED BY <1>1, <1>2

\* What one request gets leaves the others' bounds alone.
LEMMA GivenBound ==
  ASSUME Types, BoundInv, NEW r \in Request, NEW s, NEW n \in Nat,
         store' = store, \A b \in Block : data'[b] \in {0} \cup Position,
         held' = [held EXCEPT ![r] = s], Len(s) <= Ceil(Tokens[r]),
         computed' = [computed EXCEPT ![r] = n], n <= Tokens[r]
  PROVE  BoundInv'
<1>1. \A q \in Request : held'[q] = IF q = r THEN s ELSE held[q]
  BY DEF Types
<1>2. \A q \in Request : computed'[q] = IF q = r THEN n ELSE computed[q]
  BY DEF Types
<1>3. \A q \in Request : Len(held'[q]) <= Ceil(Tokens[q]) /\ computed'[q] <= Tokens[q]
  BY <1>1, <1>2 DEF BoundInv
<1>. QED BY <1>3 DEF BoundInv, Position

\* A load gets no more slots than its prompt has.
LEMMA AdmitLoadBound ==
  ASSUME LoadInv, BoundInv, NEW r \in Request, AdmitLoad(r)
  PROVE  BoundInv'
<1>1. Types
  BY DEF LoadInv
<1>0. PICK hit \in ComputedBlocks(r) :
        \E s \in Slots(hit, HitTokens(r)) : held' = [held EXCEPT ![r] = s]
  BY DEF AdmitLoad
<1>2. PICK s \in Slots(hit, HitTokens(r)) : held' = [held EXCEPT ![r] = s]
  BY <1>0
<1>3. computed' = [computed EXCEPT ![r] = HitTokens(r)] /\ UNCHANGED <<store, data>>
  BY DEF AdmitLoad
<1>4. hit \in Seq(Block) /\ Distinct(hit)
  BY HitFacts
<1>5. HitTokens(r) \in Nat
  <2>1. 0 \in Nat
    OBVIOUS
  <2>. QED BY <2>1, HitTokensFacts
<1>6. Len(hit) <= Ceil(Tokens[r]) /\ HitTokens(r) <= Tokens[r]
  BY HitBounds
<1>7. Len(s) <= Ceil(Tokens[r])
  BY <1>1, <1>4, <1>5, <1>6, SlotBounds
<1>8. \A b \in Block : data'[b] \in {0} \cup Position
  BY <1>3 DEF BoundInv
<1>. QED BY <1>1, <1>2, <1>3, <1>5, <1>6, <1>7, <1>8, GivenBound

\* A request that runs holds its prompt and computes all of it.
LEMMA RunBound ==
  ASSUME LoadInv, BoundInv, NEW r \in Request,
         NEW old \in Seq(Block), Distinct(old), Len(old) <= Ceil(Tokens[r]),
         NEW s \in Slots(old, Tokens[r]), NEW n \in Nat,
         store' = store, data' = Forward(s, n), held' = [held EXCEPT ![r] = s],
         computed' = [computed EXCEPT ![r] = Tokens[r]]
  PROVE  BoundInv'
<1>1. Types
  BY DEF LoadInv
<1>2. Tokens[r] \in Nat /\ Tokens[r] <= Tokens[r]
  BY LoadAssumption
<1>3. /\ s \in Seq(Block) /\ Len(s) <= Ceil(Tokens[r])
      /\ \A i \in 1..Len(s) : i \in Position
  BY <1>1, <1>2, SlotBounds
<1>4. \A b \in Block : data[b] \in {0} \cup Position
  BY DEF BoundInv
<1>5. \A b \in Block : data'[b] \in {0} \cup Position
  BY <1>3, <1>4, ForwardBound
<1>. QED BY <1>1, <1>2, <1>3, <1>5, GivenBound

\* The copy writes a block's place in the request it belongs to.
LEMMA GetBound == ASSUME LoadInv, BoundInv, Get PROVE BoundInv'
<1>1. Types /\ JobInv
  BY DEF LoadInv
<1>. DEFINE j == Head(queue)
<1>2. queue # << >> /\ UNCHANGED <<store, held, computed>>
  BY DEF Get, CopyIn
<1>3. j \in JobType /\ Sound(j)
  <2>1. 1 \in 1..Len(queue) /\ j = queue[1]
    BY <1>1, <1>2 DEF Types
  <2>. QED BY <1>1, <2>1 DEF Types, JobInv
<1>4. \A b \in Block : data'[b] = data[b] \/ data'[b] = 0
        \/ ((\E i \in Wanted(j) : j.blocks[i] = b) /\ data'[b] = CHOOSE i \in Wanted(j) : j.blocks[i] = b)
  BY DEF Get, CopyIn
<1>. HIDE DEF j
<1>5. j.req \in Request /\ j.blocks = held[j.req] /\ j.from \in Nat /\ Len(held[j.req]) \in Nat
  BY <1>1, <1>3 DEF Sound, JobType, Types
<1>6. Len(held[j.req]) <= Ceil(Tokens[j.req]) /\ Ceil(Tokens[j.req]) \in Nat
  BY <1>5, LoadAssumption, BlockCounts DEF BoundInv
<1>7. \A i \in Wanted(j) : i \in 1..Ceil(Tokens[j.req])
  BY <1>5, <1>6 DEF Wanted
<1>8. \A i \in Wanted(j) : i \in Position
  BY <1>5, <1>7, InPosition
<1>9. \A b \in Block : data'[b] \in {0} \cup Position
  <2>. SUFFICES ASSUME NEW b \in Block PROVE data'[b] \in {0} \cup Position
    OBVIOUS
  <2>1. CASE data'[b] = data[b] \/ data'[b] = 0
    BY <2>1 DEF BoundInv
  <2>2. CASE (\E i \in Wanted(j) : j.blocks[i] = b) /\ data'[b] = CHOOSE i \in Wanted(j) : j.blocks[i] = b
    <3>1. data'[b] \in Wanted(j)
      BY <2>2
    <3>. QED BY <1>8, <3>1
  <2>. QED BY <1>4, <2>1, <2>2
<1>. QED BY <1>2, <1>9 DEF BoundInv, Position

\* A cut request counts the whole blocks before a bad one: fewer than it holds.
LEMMA UpdateBound == ASSUME LoadInv, BoundInv, UpdateFromOutput PROVE BoundInv'
<1>1. Types
  BY DEF LoadInv
<1>2. /\ \A q \in Request : computed'[q] = IF q \in Hurt(invalid) THEN BlockSize * Good(q, invalid) ELSE computed[q]
      /\ \A q \in Request : held'[q] = << >> \/ held'[q] = held[q]
      /\ UNCHANGED <<store, data>>
  BY DEF UpdateFromOutput
<1>3. \A q \in Request : /\ Tokens[q] \in Nat /\ BlockSize \in Nat
                         /\ Full(Tokens[q]) \in Nat /\ Ceil(Tokens[q]) \in Nat
                         /\ Ceil(Tokens[q]) <= Full(Tokens[q]) + 1
                         /\ BlockSize * Full(Tokens[q]) <= Tokens[q]
  BY LoadAssumption, BlockCounts
<1>4. ASSUME NEW q \in Request PROVE computed'[q] <= Tokens[q]
  <2>1. CASE q \in Hurt(invalid)
    <3>. DEFINE g == Good(q, invalid)  f == Full(Tokens[q])
    <3>1. g \in Nat /\ g < Len(held[q]) /\ Len(held[q]) \in Nat
      BY <1>1, <2>1, HurtFacts DEF Types
    <3>2. Len(held[q]) <= Ceil(Tokens[q]) /\ Ceil(Tokens[q]) <= f + 1 /\ f \in Nat /\ Ceil(Tokens[q]) \in Nat
      BY <1>3 DEF BoundInv
    <3>3. BlockSize * f <= Tokens[q] /\ BlockSize \in Nat /\ Tokens[q] \in Nat
      BY <1>3
    <3>4. computed'[q] = BlockSize * g
      BY <1>2, <2>1
    <3>. HIDE DEF g, f
    <3>5. g <= f
      BY <3>1, <3>2
    <3>6. BlockSize * g <= BlockSize * f
      BY <3>1, <3>2, <3>3, <3>5
    <3>7. BlockSize * g \in Nat /\ BlockSize * f \in Nat
      BY <3>1, <3>2, <3>3
    <3>. QED BY <3>3, <3>4, <3>6, <3>7
  <2>2. CASE q \notin Hurt(invalid)
    BY <1>2, <2>2 DEF BoundInv
  <2>. QED BY <2>1, <2>2
<1>5. ASSUME NEW q \in Request PROVE Len(held'[q]) <= Ceil(Tokens[q])
  <2>1. CASE held'[q] = << >>
    BY <1>3, <2>1
  <2>2. CASE held'[q] = held[q]
    BY <2>2 DEF BoundInv
  <2>. QED BY <1>2, <2>1, <2>2
<1>. QED BY <1>2, <1>4, <1>5 DEF BoundInv, Position

\* One case per action.
LEMMA StepBound ==
  ASSUME LoadInv, BoundInv, [Next]_vars
  PROVE  BoundInv'
<1>1. Types /\ PrivateInv
  BY DEF LoadInv
<1>2. ASSUME UNCHANGED <<store, data, held, computed>> PROVE BoundInv'
  BY <1>2 DEF BoundInv, Position
<1>3. ASSUME NEW r \in Request, AdmitFails(r) PROVE BoundInv'
  BY <1>2, <1>3 DEF AdmitFails, hbmVars
<1>4. ASSUME NEW r \in Request, AdmitRun(r) PROVE BoundInv'
  <2>0. PICK hit \in ComputedBlocks(r) :
          \E s \in Slots(hit, Tokens[r]) :
            data' = Forward(s, BlockSize * Len(hit)) /\ held' = [held EXCEPT ![r] = s]
    BY <1>4 DEF AdmitRun
  <2>1. PICK s \in Slots(hit, Tokens[r]) :
          data' = Forward(s, BlockSize * Len(hit)) /\ held' = [held EXCEPT ![r] = s]
    BY <2>0
  <2>2. computed' = [computed EXCEPT ![r] = Tokens[r]] /\ store' = store
    BY <1>4 DEF AdmitRun
  <2>3. hit \in Seq(Block) /\ Distinct(hit)
    BY HitFacts
  <2>4. Len(hit) <= Ceil(Tokens[r])
    BY HitBounds
  <2>5. BlockSize * Len(hit) \in Nat
    BY <2>3, LoadAssumption
  <2>. QED BY <2>1, <2>2, <2>3, <2>4, <2>5, RunBound
<1>5. ASSUME NEW r \in Request, Resume(r) PROVE BoundInv'
  <2>1. PICK s \in Slots(held[r], Tokens[r]) :
          data' = Forward(s, computed[r]) /\ held' = [held EXCEPT ![r] = s]
    BY <1>5 DEF Resume
  <2>2. computed' = [computed EXCEPT ![r] = Tokens[r]] /\ store' = store
    BY <1>5 DEF Resume
  <2>3. held[r] \in Seq(Block) /\ computed[r] \in Nat
    BY <1>1 DEF Types
  <2>4. Distinct(held[r])
    BY <1>1 DEF PrivateInv, Distinct
  <2>5. Len(held[r]) <= Ceil(Tokens[r])
    BY DEF BoundInv
  <2>. QED BY <2>1, <2>2, <2>3, <2>4, <2>5, RunBound
<1>6. ASSUME NEW r \in Request, Leave(r) PROVE BoundInv'
  <2>1. /\ \A q \in Request : held'[q] = IF q = r THEN << >> ELSE held[q]
        /\ \A q \in Request : computed'[q] = IF q = r THEN 0 ELSE computed[q]
        /\ UNCHANGED <<store, data>>
    BY <1>1, <1>6 DEF Leave, Types
  <2>2. \A q \in Request : Tokens[q] \in Nat /\ Ceil(Tokens[q]) \in Nat
    BY LoadAssumption, BlockCounts
  <2>3. \A q \in Request : Len(held'[q]) <= Ceil(Tokens[q]) /\ computed'[q] <= Tokens[q]
    <3>. SUFFICES ASSUME NEW q \in Request
                  PROVE  Len(held'[q]) <= Ceil(Tokens[q]) /\ computed'[q] <= Tokens[q]
      OBVIOUS
    <3>1. CASE q = r
      <4>1. Len(held'[q]) = 0 /\ computed'[q] = 0
        BY <2>1, <3>1
      <4>. QED BY <2>2, <4>1
    <3>2. CASE q # r
      BY <2>1, <3>2 DEF BoundInv
    <3>. QED BY <3>1, <3>2
  <2>. QED BY <2>1, <2>3 DEF BoundInv, Position
<1>7. ASSUME NEW r \in Request, Schedule(r) PROVE BoundInv'
  BY <1>3, <1>4, <1>5, <1>6, <1>7, AdmitLoadBound DEF Schedule
<1>8. CASE Thread
  <2>1. CASE GetRaises
    <3>1. \A b \in Block : data'[b] = data[b] \/ data'[b] = 0
      BY <2>1 DEF GetRaises
    <3>. QED BY <2>1, <3>1 DEF GetRaises, BoundInv, Position
  <2>. QED BY <1>2, <1>8, <2>1, GetBound DEF Thread, Report, Finish, hbmVars
<1>9. CASE EndStep
  BY <1>2, <1>9, UpdateBound DEF EndStep, CollectFinished, hbmVars
<1>10. CASE StoreChanges
  <2>1. store' \subseteq Position /\ UNCHANGED <<data, held, computed>>
    BY <1>10 DEF StoreChanges, Publish, Evict, BoundInv, hbmVars
  <2>. QED BY <2>1 DEF BoundInv, Position
<1>11. CASE UNCHANGED vars
  BY <1>2, <1>11 DEF vars, hbmVars
<1>. QED BY <1>7, <1>8, <1>9, <1>10, <1>11 DEF Next

-----------------------------------------------------------------------------
(* The invariant and what follows from it *)

\* One case per action.
LEMMA StepInv == LoadInv /\ [Next]_vars => LoadInv'
<1>. SUFFICES ASSUME LoadInv, [Next]_vars PROVE LoadInv'
  OBVIOUS
<1>1. ASSUME NEW r \in Request, AdmitFails(r) PROVE LoadInv'
  BY <1>1, AdmitFailsInv
<1>2. CASE StoreChanges
  <2>1. UNCHANGED <<hbmVars, status, computed, poolVars, queue, threadVars, outVars>>
    BY <1>2 DEF StoreChanges
  <2>. QED BY <2>1, OtherInv DEF poolVars, LoadInv, Types
<1>3. CASE UNCHANGED vars
  <2>1. UNCHANGED <<hbmVars, status, computed, poolVars, queue, threadVars, outVars>>
    BY <1>3 DEF vars
  <2>. QED BY <2>1, OtherInv DEF poolVars, LoadInv, Types
<1>4. ASSUME NEW r \in Request, Schedule(r) PROVE LoadInv'
  BY <1>1, <1>4, AdmitLoadInv, AdmitRunInv, ResumeInv, LeaveInv DEF Schedule
<1>5. CASE Thread
  BY <1>5, GetInv, GetRaisesInv, ReportInv, FinishInv DEF Thread, Get
<1>6. CASE EndStep
  BY <1>6, CollectInv, UpdateInv DEF EndStep
<1>. QED BY <1>2, <1>3, <1>4, <1>5, <1>6 DEF Next

\* The invariant holds in every state the specification reaches.
THEOREM LoadInvariant == Spec => []LoadInv
BY InitInv, StepInv, PTL DEF Spec

\* What counts as computed is in its block: blocks of a load that failed, or
\* that is not over, are never attended to, because vLLM collects the failed
\* blocks of a load no later than its end and cuts the request before them.
THEOREM ComputedTokensAreThere == Spec => []ComputedIsTrue
<1>1. LoadInv => ComputedIsTrue
  <2>. SUFFICES ASSUME LoadInv, NEW r \in Request, status[r] \in {"ready", "running"},
                       NEW i \in 1..Ceil(computed[r])
                PROVE  i <= Len(held[r]) /\ data[held[r][i]] = i
    BY DEF ComputedIsTrue
  <2>1. Types /\ DataInv
    BY DEF LoadInv
  <2>2. computed[r] \in Nat /\ Len(held[r]) \in Nat
    BY <2>1 DEF Types
  <2>3. Ceil(computed[r]) \in Nat
    BY <2>2, BlockCounts
  <2>4. Ceil(computed[r]) <= Len(held[r]) /\ data[held[r][i]] = i
    BY <2>1 DEF DataInv
  <2>. QED BY <2>2, <2>3, <2>4
<1>. QED BY <1>1, LoadInvariant, PTL

\* A block in the prefix cache holds what its hash says, also while other
\* blocks are being loaded, cut off or given to another request.
THEOREM CacheIsTrue == Spec => []CachedIsTrue
<1>1. LoadInv => CachedIsTrue
  BY DEF LoadInv, DataInv
<1>. QED BY <1>1, LoadInvariant, PTL

\* The receiving thread writes only into blocks that the request it loads
\* for holds, and no other does, from the job's making to its end.
THEOREM LoadsIntoOwnBlocks == Spec => []LoadsOwnBlocks
<1>1. LoadInv => LoadsOwnBlocks
  <2>. SUFFICES ASSUME LoadInv, NEW j \in Jobs
                PROVE  /\ status[j.req] = "loading" /\ j.blocks = held[j.req]
                       /\ \A i \in Wanted(j) : \A q \in Request \ {j.req} : j.blocks[i] \notin Range(held[q])
    BY DEF LoadsOwnBlocks
  <2>1. Types /\ JobInv /\ PrivateInv
    BY DEF LoadInv
  <2>2. Sound(j) /\ \A k \in Wanted(j) : Private(j.req, k)
    <3>1. CASE j \in Range(queue)
      <4>1. PICK a \in 1..Len(queue) : j = queue[a]
        BY <2>1, <3>1 DEF Range, Types
      <4>. QED BY <2>1, <4>1 DEF JobInv, PrivateInv
    <3>2. CASE Busy /\ j = job
      BY <2>1, <3>2 DEF JobInv, PrivateInv
    <3>. QED BY <3>1, <3>2 DEF Jobs, Busy
  <2>. SUFFICES ASSUME NEW i \in Wanted(j), NEW q \in Request \ {j.req}, j.blocks[i] \in Range(held[q])
                PROVE  FALSE
    BY <2>2 DEF Sound
  <2>3. held[q] \in Seq(Block)
    BY <2>1 DEF Types
  <2>4. \A b \in Range(held[q]) : \E k \in 1..Len(held[q]) : held[q][k] = b
    BY <2>3 DEF Range
  <2>5. PICK k \in 1..Len(held[q]) : held[q][k] = j.blocks[i]
    BY <2>4
  <2>. QED BY <2>2, <2>5 DEF Sound, Private
<1>. QED BY <1>1, LoadInvariant, PTL

\* The worker is told to collect exactly the parked requests: ids are added
\* where a load is made and dropped where its end is taken in, never between.
THEOREM CollectedExactly == Spec => []LoadingIsExact
<1>1. LoadInv => LoadingIsExact
  BY DEF LoadInv, JobInv
<1>. QED BY <1>1, LoadInvariant, PTL

\* No block outside the prompts, no token beyond them: the store's hashes,
\* what the blocks contain and what the prefix cache calls them are positions
\* of a prompt, nothing counts more tokens than the prompt has, and every job
\* names blocks and a first one among them.
THEOREM TypesHold == Spec => []TypeOK
<1>. DEFINE Untraced == recv # "trace"
<1>0. Untraced /\ [Next]_vars => Untraced'
  <2>. SUFFICES ASSUME Untraced, [Next]_vars PROVE Untraced'
    OBVIOUS
  <2>1. ASSUME NEW r \in Request, Schedule(r) PROVE recv' = recv
    BY <2>1 DEF Schedule, AdmitFails, AdmitLoad, AdmitRun, Resume, Leave, threadVars
  <2>2. CASE Thread
    BY <2>2 DEF Thread, Get, GetRaises, Report, Finish
  <2>3. CASE EndStep \/ StoreChanges \/ UNCHANGED vars
    BY <2>3 DEF EndStep, CollectFinished, UpdateFromOutput, StoreChanges, vars, threadVars
  <2>. QED BY <2>1, <2>2, <2>3 DEF Next
<1>1. Init => LoadInv /\ BoundInv /\ Untraced
  BY InitInv, InitBound DEF Init
<1>2. LoadInv /\ BoundInv /\ Untraced /\ [Next]_vars => (LoadInv /\ BoundInv /\ Untraced)'
  BY <1>0, StepInv, StepBound
<1>3. LoadInv /\ BoundInv /\ Untraced => TypeOK
  <2>. SUFFICES ASSUME LoadInv, BoundInv, Untraced PROVE TypeOK
    OBVIOUS
  <2>1. Types /\ JobInv /\ DataInv
    BY DEF LoadInv
  <2>2. data \in [Block -> {0} \cup Position]
    BY <2>1 DEF Types, BoundInv
  <2>3. cached \in [Block -> {0} \cup Position]
    <3>1. \A b \in Block : cached[b] = 0 \/ cached[b] = data[b]
      BY <2>1 DEF DataInv, CachedIsTrue
    <3>. QED BY <2>1, <3>1 DEF Types, BoundInv
  <2>4. \A r \in Request : computed[r] \in 0..Tokens[r]
    <3>1. \A r \in Request : computed[r] \in Nat /\ Tokens[r] \in Nat /\ computed[r] <= Tokens[r]
      BY <2>1, LoadAssumption DEF Types, BoundInv
    <3>. QED BY <3>1
  <2>5. \A j \in Jobs : j \in JobType /\ Sound(j)
    <3>1. \A j \in Range(queue) : \E a \in 1..Len(queue) : j = queue[a]
      BY <2>1 DEF Range, Types
    <3>2. \A a \in 1..Len(queue) : queue[a] \in JobType /\ Sound(queue[a])
      BY <2>1 DEF Types, JobInv
    <3>. QED BY <2>1, <3>1, <3>2 DEF Jobs, JobInv, Busy
  <2>6. \A j \in Jobs : j.req \in Request /\ j.blocks \in Seq(Block) /\ j.from \in 0..Len(j.blocks)
    <3>1. \A j \in Jobs : /\ j.req \in Request /\ j.blocks \in Seq(Block)
                          /\ j.from \in Nat /\ j.from <= Len(j.blocks)
      BY <2>5 DEF Sound, JobType
    <3>. QED BY <3>1
  <2>7. loadSpec \in [Request -> [vllm : Nat, kvpool : Nat, canLoad : BOOLEAN]]
    <3>1. WaitingSpec \subseteq [vllm : Nat, kvpool : Nat, canLoad : BOOLEAN]
      BY DEF WaitingSpec
    <3>. QED BY <2>1, <3>1 DEF Types
  <2>. QED BY <2>1, <2>2, <2>3, <2>4, <2>6, <2>7 DEF TypeOK, Types, BoundInv
<1>. QED BY <1>1, <1>2, <1>3, PTL DEF Spec
=============================================================================
