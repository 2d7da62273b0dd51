------------------------ MODULE RuntimeControlProofs ------------------------
(***************************************************************************)
(* Proofs about RuntimeControl, for every number of concurrencies, faults  *)
(* and interruptions.  One inductive invariant carries all of them: it     *)
(* says which generation the manager can be in at each step of the run.    *)
(***************************************************************************)
EXTENDS RuntimeControl, TLAPS

\* The file the run writes for concurrency c, which runs on generation c.
Question(c) == [generation |-> c, id |-> c]

\* What each place of the manager says of its traps and its pids.
ManagerInv ==
  /\ manager \in {"delete", "gone", "killed"} => traps = "reset"
  /\ manager \in {"start", "set master", "wait master", "set vllm", "wait vllm",
                  "loop", "handle", "cleanup"} => traps = "set"
  /\ manager \in {"wait master", "set vllm", "wait vllm", "loop", "handle"} =>
       masterPid = generation
  /\ manager \in {"wait vllm", "loop", "handle"} => vllmPid = generation
  /\ traps = "set" /\ manager \in {"stop vllm", "stop master"} =>
       masterPid = generation /\ vllmPid = generation

\* Only processes of this generation run, and none while a new one begins.
ProcessInv ==
  /\ running \subseteq {master(generation), vllm(generation)}
  /\ manager = "start" => running = {}
  /\ traps = "set" /\ manager = "stop master" => vllm(generation) \notin running
  /\ faults = 0 =>
       /\ manager \in {"set master", "wait master"} => master(generation) \in running
       /\ manager \in {"set vllm", "wait vllm", "loop", "handle"} =>
            {master(generation), vllm(generation)} \subseteq running

\* DRAM needs a master; what the index or the run remembers is on the SSD.
DataInv ==
  /\ master(generation) \notin running => dram = {} /\ index = {}
  /\ manager # "gone" =>
       sessionDir = "present" /\ index \subseteq ssd /\ asked.index \subseteq ssd

\* "ready" is written for this generation, and only until it is being stopped.
StatusInv ==
  /\ status.state # "failed"
  /\ status.state = "ready" =>
       /\ status.generation = generation
       /\ status.id = generation - 1
       /\ manager \in {"loop", "handle", "cleanup"}
       /\ faults = 0 => {master(generation), vllm(generation)} \subseteq running

\* start_runtime is given the request that began its generation.
RequestInv ==
  traps = "set" /\ manager # "cleanup" =>
    requestId = IF manager \in {"stop vllm", "stop master"}
                THEN generation ELSE generation - 1

\* Where the run is bounds the generation, and the other way round.
ClientInv ==
  /\ generation \in {conc, conc + 1}
  /\ client \in {"begin", "stages", "settle", "signal"} => generation = conc
  /\ client \in {"stages", "settle", "signal", "recover", "r4"} \/ (client = "begin" /\ conc > 1) =>
       manager \notin {"start", "set master", "wait master", "set vllm", "wait vllm"}
  /\ client \in {"signal", "wait", "recover", "r4"} => asked.generation = conc
  /\ client = "signal" /\ traps = "set" => request = Question(conc)
  /\ client \in {"recover", "r4"} => generation = conc + 1
  /\ client \in {"wait", "recover", "r4"} /\ generation = conc + 1 => dram = {}
  /\ traps = "set" /\ manager \in {"handle", "stop vllm", "stop master"} =>
       /\ generation = conc /\ restartRequested = "0"
       /\ client \in {"wait", "exit", "end"}
  /\ manager = "handle" => request = Question(conc)
  /\ traps = "set" /\ restartRequested = "1" =>
       /\ generation = conc /\ request = Question(conc)
       /\ manager \in {"loop", "cleanup"}
       /\ client \in {"wait", "exit", "end"}

RInv == TypeOK /\ ManagerInv /\ ProcessInv /\ DataInv /\ StatusInv /\ RequestInv /\ ClientInv

-----------------------------------------------------------------------------
(* Helpers *)

\* A master is not a vLLM.
LEMMA Different == \A g, h : master(g) # vllm(h)
  BY DEF master, vllm

\* The facts about numbers that the steps below need.
LEMMA Numbers ==
  ASSUME TypeOK
  PROVE  /\ generation \in Nat /\ generation \in 1..generation
         /\ conc \in Nat /\ conc \in 1..Concurrencies
         /\ MaxFaults \in Nat /\ MaxSignals \in Nat /\ Concurrencies \in Nat
  <1>1. MaxFaults \in Nat /\ MaxSignals \in Nat /\ Concurrencies \in Nat
    BY RuntimeAssumption
  <1>2. generation \in 1..(Concurrencies + 1)
    BY DEF TypeOK, ManagerTypes
  <1>3. conc \in 1..Concurrencies
    BY DEF TypeOK, ClientTypes, Item
  <1> QED  BY <1>1, <1>2, <1>3

\* DRAM and the index are lost unless the master of this generation stays.
LEMMA EndsKeeps ==
  ASSUME RInv, NEW P, Ends(P)
  PROVE  /\ running' = running \ P
         /\ UNCHANGED <<sessionDir, ssd>>
         /\ \/ dram' = {} /\ index' = {}
            \/ UNCHANGED <<dram, index>> /\ master(generation) \notin P \cap running
  <1>1. CASE master(generation) \in P \cap running
    <2>1. generation \in 1..generation  BY Numbers DEF RInv
    <2> QED  BY <1>1, <2>1 DEF Ends
  <1>2. CASE master(generation) \notin P \cap running
    BY <1>2 DEF Ends
  <1> QED  BY <1>1, <1>2

\* write_runtime_status writes a status.
LEMMA FileTyped ==
  ASSUME RInv, NEW i \in 0..Concurrencies,
         NEW s \in {"starting", "ready", "restarting", "failed", "stopping"}
  PROVE  /\ Status(s, i) \in Files
         /\ Status(s, i).state = s
         /\ Status(s, i).generation = generation
         /\ Status(s, i).id = i
  BY DEF RInv, TypeOK, ManagerTypes, Status, Files

\* Every request the manager handles is acceptable: the run wrote it for this
\* generation and is waiting, or over.
LEMMA Accepted ==
  ASSUME RInv, HandleRequest
  PROVE  /\ manager = "handle" /\ traps = "set" /\ generation = conc
         /\ client \in {"wait", "exit", "end"}
         /\ status' = Status("restarting", conc)
         /\ requestId' = conc /\ manager' = "stop vllm" /\ restartRequested' = "0"
  <1>1. /\ manager = "handle" /\ traps = "set" /\ generation = conc
        /\ client \in {"wait", "exit", "end"} /\ request = Question(conc)
        /\ restartRequested = "0"
    BY DEF RInv, ManagerInv, ClientInv, HandleRequest
  <1>2. request.generation = generation /\ request.id = conc
    BY <1>1 DEF Question
  <1>3. Acceptable
    BY <1>2 DEF Acceptable
  <1>4. /\ status' = Restarting /\ requestId' = request.id
        /\ manager' = "stop vllm" /\ UNCHANGED restartRequested
    BY <1>3 DEF HandleRequest
  <1> QED  BY <1>1, <1>2, <1>4 DEF Restarting

\* Counting a fault or an interruption.
LEMMA OneMore ==
  ASSUME RInv
  PROVE  /\ faults < MaxFaults /\ faults' = faults + 1 =>
              faults' \in 0..MaxFaults /\ faults' # 0
         /\ signals < MaxSignals /\ signals' = signals + 1 => signals' \in 0..MaxSignals
  BY Numbers DEF RInv, TypeOK, ClientTypes

-----------------------------------------------------------------------------
(* Every action keeps the invariant *)

LEMMA KeepsStartMaster == ASSUME RInv, StartMaster PROVE RInv'
  <1>1. ManagerTypes' /\ ManagerInv' /\ RequestInv'
    BY DEF RInv, TypeOK, StartMaster, ManagerTypes, ManagerInv, RequestInv
  <1>2. FileTypes' /\ StatusInv'
    BY FileTyped DEF RInv, TypeOK, StartMaster, ManagerTypes, FileTypes, StatusInv
  <1>3. RuntimeTypes' /\ ProcessInv' /\ DataInv'
    BY Numbers DEF RInv, TypeOK, StartMaster, RuntimeTypes, ProcessInv, dataVars,
           clientVars, Processes, DataInv
  <1>4. ClientTypes' /\ ClientInv'
    BY DEF RInv, TypeOK, StartMaster, ClientTypes, dataVars, clientVars, ClientInv
  <1> QED
    BY <1>1, <1>2, <1>3, <1>4 DEF RInv, TypeOK

LEMMA KeepsSetMasterPid == ASSUME RInv, SetMasterPid PROVE RInv'
  <1>1. ManagerTypes' /\ ManagerInv' /\ RequestInv'
    BY DEF RInv, TypeOK, SetMasterPid, ManagerTypes, ManagerInv, RequestInv
  <1>2. FileTypes' /\ StatusInv'
    BY DEF RInv, TypeOK, SetMasterPid, FileTypes, StatusInv
  <1>3. RuntimeTypes' /\ ProcessInv' /\ DataInv'
    BY DEF RInv, TypeOK, SetMasterPid, RuntimeTypes, Processes, dataVars, clientVars,
           ProcessInv, DataInv
  <1>4. ClientTypes' /\ ClientInv'
    BY DEF RInv, TypeOK, SetMasterPid, ClientTypes, dataVars, clientVars, ClientInv
  <1> QED
    BY <1>1, <1>2, <1>3, <1>4 DEF RInv, TypeOK

LEMMA KeepsStartVllm == ASSUME RInv, StartVllm PROVE RInv'
  <1>1. ManagerTypes' /\ ManagerInv' /\ RequestInv'
    BY DEF RInv, TypeOK, StartVllm, ManagerTypes, ManagerInv, RequestInv
  <1>2. FileTypes' /\ StatusInv'
    BY DEF RInv, TypeOK, StartVllm, FileTypes, StatusInv
  <1>3. RuntimeTypes' /\ ProcessInv' /\ DataInv'
    BY Numbers DEF RInv, TypeOK, StartVllm, RuntimeTypes, ProcessInv, dataVars, clientVars,
           Processes, DataInv
  <1>4. ClientTypes' /\ ClientInv'
    BY DEF RInv, TypeOK, StartVllm, ClientTypes, dataVars, clientVars, ClientInv
  <1> QED
    BY <1>1, <1>2, <1>3, <1>4 DEF RInv, TypeOK

LEMMA KeepsSetVllmPid == ASSUME RInv, SetVllmPid PROVE RInv'
  <1>1. ManagerTypes' /\ ManagerInv' /\ RequestInv'
    BY DEF RInv, TypeOK, SetVllmPid, ManagerTypes, ManagerInv, RequestInv
  <1>2. FileTypes' /\ StatusInv'
    BY DEF RInv, TypeOK, SetVllmPid, FileTypes, StatusInv
  <1>3. RuntimeTypes' /\ ProcessInv' /\ DataInv'
    BY DEF RInv, TypeOK, SetVllmPid, RuntimeTypes, Processes, dataVars, clientVars,
           ProcessInv, DataInv
  <1>4. ClientTypes' /\ ClientInv'
    BY DEF RInv, TypeOK, SetVllmPid, ClientTypes, dataVars, clientVars, ClientInv
  <1> QED
    BY <1>1, <1>2, <1>3, <1>4 DEF RInv, TypeOK

LEMMA KeepsBecomeReady == ASSUME RInv, BecomeReady PROVE RInv'
  <1>1. StatusInv'
    <2>1. /\ manager = "wait vllm" /\ vllm(vllmPid) \in running /\ manager' = "loop"
          /\ status' = Status("ready", requestId)
          /\ UNCHANGED <<running, faults, generation>>
      BY DEF BecomeReady, Answer
    <2>2. requestId = generation - 1 /\ requestId \in 0..Concurrencies
      BY <2>1 DEF RInv, TypeOK, ManagerTypes, ManagerInv, RequestInv
    <2>3. status'.state = "ready" /\ status'.generation = generation /\ status'.id = requestId
      BY <2>1, <2>2, FileTyped
    <2>4. faults = 0 => {master(generation), vllm(generation)} \subseteq running
      BY <2>1 DEF RInv, ProcessInv
    <2> QED  BY <2>1, <2>2, <2>3, <2>4 DEF StatusInv
  <1>2. ManagerTypes' /\ ManagerInv' /\ RequestInv'
    BY DEF RInv, TypeOK, BecomeReady, ManagerTypes, ManagerInv, RequestInv
  <1>3. FileTypes'
    BY FileTyped DEF RInv, TypeOK, BecomeReady, ManagerTypes, FileTypes, Answer
  <1>4. RuntimeTypes' /\ ProcessInv' /\ DataInv'
    BY DEF RInv, TypeOK, BecomeReady, RuntimeTypes, Processes, dataVars, clientVars,
           ProcessInv, DataInv
  <1>5. ClientTypes' /\ ClientInv'
    BY DEF RInv, TypeOK, BecomeReady, ClientTypes, dataVars, clientVars, ClientInv
  <1> QED
    BY <1>1, <1>2, <1>3, <1>4, <1>5 DEF RInv, TypeOK

LEMMA KeepsNoticeDeath == ASSUME RInv, NoticeDeath PROVE RInv'
  <1>1. ManagerTypes' /\ ManagerInv' /\ RequestInv'
    BY DEF RInv, TypeOK, NoticeDeath, ManagerTypes, ManagerInv, RequestInv
  <1>2. FileTypes' /\ StatusInv'
    BY DEF RInv, TypeOK, NoticeDeath, FileTypes, StatusInv
  <1>3. RuntimeTypes' /\ ProcessInv' /\ DataInv'
    BY DEF RInv, TypeOK, NoticeDeath, RuntimeTypes, Processes, dataVars, clientVars,
           ProcessInv, DataInv
  <1>4. ClientTypes' /\ ClientInv'
    BY DEF RInv, TypeOK, NoticeDeath, ClientTypes, dataVars, clientVars, ClientInv
  <1> QED
    BY <1>1, <1>2, <1>3, <1>4 DEF RInv, TypeOK

LEMMA KeepsStartTimesOut == ASSUME RInv, StartTimesOut PROVE RInv'
  <1>1. ClientTypes'
    BY OneMore DEF RInv, TypeOK, ClientTypes, StartTimesOut, dataVars, clientVars
  <1>2. ManagerTypes' /\ ManagerInv' /\ RequestInv'
    BY DEF RInv, TypeOK, StartTimesOut, ManagerTypes, ManagerInv, RequestInv
  <1>3. FileTypes' /\ StatusInv'
    BY DEF RInv, TypeOK, StartTimesOut, FileTypes, StatusInv
  <1>4. RuntimeTypes' /\ ProcessInv' /\ DataInv'
    BY DEF RInv, TypeOK, StartTimesOut, RuntimeTypes, Processes, dataVars, clientVars,
           ProcessInv, DataInv
  <1>5. ClientInv'
    BY DEF RInv, TypeOK, StartTimesOut, ClientInv, dataVars, clientVars
  <1> QED
    BY <1>1, <1>2, <1>3, <1>4, <1>5 DEF RInv, TypeOK

LEMMA KeepsTakeRequest == ASSUME RInv, TakeRequest PROVE RInv'
  <1>1. ManagerTypes' /\ ManagerInv' /\ RequestInv'
    BY DEF RInv, TypeOK, TakeRequest, ClearFlag, ManagerTypes, ManagerInv, RequestInv
  <1>2. FileTypes' /\ StatusInv'
    BY DEF RInv, TypeOK, TakeRequest, FileTypes, StatusInv
  <1>3. RuntimeTypes' /\ ProcessInv' /\ DataInv'
    BY DEF RInv, TypeOK, TakeRequest, RuntimeTypes, Processes, dataVars, clientVars,
           ProcessInv, DataInv
  <1>4. ClientTypes'
    BY DEF RInv, TypeOK, TakeRequest, ClientTypes, dataVars, clientVars
  <1>5. ClientInv'
    <2>1. traps = "set" /\ restartRequested' = "0" /\ manager' = "handle"
      BY DEF RInv, ManagerInv, TakeRequest, ClearFlag
    <2>2. /\ generation = conc /\ request = Question(conc) /\ client \in {"wait", "exit", "end"}
      BY <2>1 DEF RInv, ClientInv, TakeRequest
    <2> QED
      BY <2>1, <2>2 DEF RInv, TakeRequest, dataVars, clientVars, ClientInv, Question
  <1> QED
    BY <1>1, <1>2, <1>3, <1>4, <1>5 DEF RInv, TypeOK

LEMMA KeepsHandleRequest == ASSUME RInv, HandleRequest PROVE RInv'
  <1>1. UNCHANGED <<generation, masterPid, vllmPid, traps, request, running, sessionDir,
                    ssd, dram, index, client, conc, asked, r4, faults, signals>>
    BY DEF HandleRequest, dataVars, clientVars
  <1>2. /\ manager = "handle" /\ traps = "set" /\ generation = conc
        /\ client \in {"wait", "exit", "end"}
        /\ status' = Status("restarting", conc)
        /\ requestId' = conc /\ manager' = "stop vllm" /\ restartRequested' = "0"
    BY Accepted
  <1>3. conc \in 0..Concurrencies /\ conc \in Nat
    BY Numbers DEF RInv
  <1>4. status' \in Files /\ status'.state = "restarting"
    BY <1>2, <1>3, FileTyped
  <1>5. ManagerTypes'
    BY <1>1, <1>2, <1>3 DEF RInv, TypeOK, ManagerTypes
  <1>6. FileTypes'
    BY <1>1, <1>4 DEF RInv, TypeOK, FileTypes, Item, Files
  <1>7. RuntimeTypes' /\ ClientTypes'
    BY <1>1 DEF RInv, TypeOK, RuntimeTypes, ClientTypes, Processes, Item
  <1>8. ManagerInv' /\ RequestInv'
    BY <1>1, <1>2 DEF RInv, ManagerInv, RequestInv
  <1>9. ProcessInv' /\ DataInv'
    BY <1>1, <1>2 DEF RInv, ProcessInv, DataInv
  <1>10. StatusInv'
    BY <1>4 DEF StatusInv
  <1>11. ClientInv'
    <2>1. restartRequested' # "1"
      BY ONLY <1>2
    <2>3. (/\ generation \in {conc, conc + 1}
           /\ client \in {"begin", "stages", "settle", "signal"} => generation = conc
           /\ client \in {"stages", "settle", "signal", "recover", "r4"}
                 \/ (client = "begin" /\ conc > 1) =>
                manager \notin {"start", "set master", "wait master", "set vllm", "wait vllm"}
           /\ client \in {"signal", "wait", "recover", "r4"} => asked.generation = conc
           /\ client = "signal" /\ traps = "set" => request = Question(conc))'
      BY <1>1, <1>2 DEF RInv, ClientInv, Question
    <2>4. (/\ client \in {"recover", "r4"} => generation = conc + 1
           /\ client \in {"wait", "recover", "r4"} /\ generation = conc + 1 => dram = {})'
      BY <1>1, <1>2 DEF RInv, ClientInv
    <2>5. (/\ traps = "set" /\ manager \in {"handle", "stop vllm", "stop master"} =>
                /\ generation = conc /\ restartRequested = "0"
                /\ client \in {"wait", "exit", "end"}
           /\ manager = "handle" => request = Question(conc))'
      BY <1>1, <1>2
    <2>6. (traps = "set" /\ restartRequested = "1" =>
             /\ generation = conc /\ request = Question(conc)
             /\ manager \in {"loop", "cleanup"}
             /\ client \in {"wait", "exit", "end"})'
      BY <2>1
    <2> QED
      BY <2>3, <2>4, <2>5, <2>6 DEF ClientInv
  <1> QED
    BY <1>5, <1>6, <1>7, <1>8, <1>9, <1>10, <1>11 DEF RInv, TypeOK

LEMMA KeepsStopVllm == ASSUME RInv, StopVllm PROVE RInv'
  <1>1. ProcessInv'
    <2>1. /\ manager = "stop vllm" /\ manager' = "stop master"
          /\ running' = running \ {vllm(vllmPid)}
          /\ UNCHANGED <<generation, traps, faults>>
      BY EndsKeeps DEF StopVllm
    <2>2. traps = "set" => vllmPid = generation
      BY <2>1 DEF RInv, ManagerInv
    <2> QED  BY <2>1, <2>2 DEF RInv, ProcessInv
  <1>2. ManagerTypes' /\ ManagerInv' /\ RequestInv'
    BY DEF RInv, TypeOK, StopVllm, ManagerTypes, ManagerInv, RequestInv
  <1>3. FileTypes' /\ StatusInv'
    BY DEF RInv, TypeOK, StopVllm, FileTypes, StatusInv
  <1>4. RuntimeTypes' /\ DataInv'
    BY EndsKeeps DEF RInv, TypeOK, StopVllm, RuntimeTypes, clientVars, Processes, DataInv
  <1>5. ClientTypes' /\ ClientInv'
    BY EndsKeeps DEF RInv, TypeOK, StopVllm, ClientTypes, clientVars, ClientInv
  <1> QED
    BY <1>1, <1>2, <1>3, <1>4, <1>5 DEF RInv, TypeOK

LEMMA KeepsStopMaster == ASSUME RInv, StopMaster PROVE RInv'
  <1>1. ManagerTypes' /\ RuntimeTypes' /\ ProcessInv' /\ RequestInv'
    <2>1. /\ manager = "stop master" /\ masterPid' = 0 /\ vllmPid' = 0
          /\ running' = running \ {master(masterPid)}
          /\ UNCHANGED <<sessionDir, ssd>>
          /\ dram' \subseteq Item /\ index' \subseteq Item
          /\ UNCHANGED <<traps, restartRequested, requestId, faults>>
      BY EndsKeeps DEF RInv, TypeOK, RuntimeTypes, StopMaster
    <2>2. CASE traps = "set"
      <3>1. generation' = generation + 1 /\ manager' = "start"
        BY <2>2 DEF StopMaster, GoOn
      <3>2. /\ generation = conc /\ masterPid = generation /\ vllm(generation) \notin running
            /\ requestId = generation
        BY <2>1, <2>2 DEF RInv, ManagerInv, ProcessInv, ClientInv, RequestInv
      <3>3. running' = {}
        BY <2>1, <3>2 DEF RInv, ProcessInv
      <3>4. generation' \in 1..(Concurrencies + 1) /\ generation' - 1 = generation
        BY <3>1, <3>2, Numbers DEF RInv
      <3>5. ManagerTypes'  BY <2>1, <3>1, <3>4 DEF RInv, TypeOK, ManagerTypes
      <3>6. RuntimeTypes'  BY <2>1, <3>3 DEF RInv, TypeOK, RuntimeTypes
      <3>7. ProcessInv'  BY <3>1, <3>3 DEF ProcessInv
      <3>8. RequestInv'  BY <2>1, <3>1, <3>2, <3>4 DEF RequestInv
      <3> QED  BY <3>5, <3>6, <3>7, <3>8
    <2>3. CASE traps # "set"
      <3>1. UNCHANGED generation /\ manager' = "delete"
        BY <2>3 DEF StopMaster, GoOn
      <3>5. ManagerTypes'  BY <2>1, <3>1 DEF RInv, TypeOK, ManagerTypes
      <3>6. RuntimeTypes'  BY <2>1, <3>1 DEF RInv, TypeOK, RuntimeTypes, Processes
      <3>7. ProcessInv'  BY <2>1, <2>3, <3>1 DEF RInv, ProcessInv
      <3>8. RequestInv'  BY <2>1, <2>3, <3>1 DEF RequestInv
      <3> QED  BY <3>5, <3>6, <3>7, <3>8
    <2> QED  BY <2>2, <2>3
  <1>2. ManagerInv'
    BY DEF RInv, TypeOK, StopMaster, ManagerTypes, ManagerInv, GoOn
  <1>3. FileTypes' /\ StatusInv'
    BY DEF RInv, TypeOK, StopMaster, FileTypes, StatusInv
  <1>4. DataInv'
    BY EndsKeeps DEF RInv, TypeOK, StopMaster, ManagerInv, DataInv, GoOn, clientVars
  <1>5. ClientTypes' /\ ClientInv'
    BY EndsKeeps DEF RInv, TypeOK, StopMaster, ClientTypes, GoOn, clientVars, ManagerInv,
           DataInv, ClientInv
  <1> QED
    BY <1>1, <1>2, <1>3, <1>4, <1>5 DEF RInv, TypeOK

LEMMA KeepsBeginCleanup == ASSUME RInv, BeginCleanup PROVE RInv'
  <1>1. FileTypes' /\ StatusInv'
    <2>1. status' = Status("stopping", 0) /\ UNCHANGED request
      BY DEF BeginCleanup
    <2>2. 0 \in 0..Concurrencies
      BY Numbers DEF RInv
    <2>3. status' \in Files /\ status'.state = "stopping"
      BY <2>1, <2>2, FileTyped
    <2>4. FileTypes'  BY <2>1, <2>3 DEF RInv, TypeOK, FileTypes, Files
    <2>5. StatusInv'  BY <2>3 DEF StatusInv
    <2> QED  BY <2>4, <2>5
  <1>2. ManagerTypes' /\ ManagerInv' /\ RequestInv'
    BY DEF RInv, TypeOK, BeginCleanup, ManagerTypes, ManagerInv, RequestInv
  <1>3. RuntimeTypes' /\ ProcessInv' /\ DataInv'
    BY DEF RInv, TypeOK, BeginCleanup, RuntimeTypes, Processes, dataVars, clientVars,
           ProcessInv, DataInv
  <1>4. ClientTypes' /\ ClientInv'
    BY DEF RInv, TypeOK, BeginCleanup, ClientTypes, dataVars, clientVars, ClientInv
  <1> QED
    BY <1>1, <1>2, <1>3, <1>4 DEF RInv, TypeOK

LEMMA KeepsDeleteSession == ASSUME RInv, DeleteSession PROVE RInv'
  <1>1. ManagerTypes' /\ ManagerInv' /\ RequestInv'
    BY DEF RInv, TypeOK, DeleteSession, ManagerTypes, ManagerInv, RequestInv
  <1>2. FileTypes' /\ StatusInv'
    BY DEF RInv, TypeOK, DeleteSession, FileTypes, NoFile, StatusInv
  <1>3. RuntimeTypes' /\ ProcessInv' /\ DataInv'
    BY DEF RInv, TypeOK, DeleteSession, RuntimeTypes, ProcessInv, Processes, DataInv
  <1>4. ClientTypes' /\ ClientInv'
    BY DEF RInv, TypeOK, DeleteSession, ClientTypes, clientVars, ManagerInv, ClientInv
  <1> QED
    BY <1>1, <1>2, <1>3, <1>4 DEF RInv, TypeOK

LEMMA KeepsOperatorStops == ASSUME RInv, OperatorStops PROVE RInv'
  <1>1. ClientTypes'
    BY OneMore DEF RInv, TypeOK, ClientTypes, OperatorStops, dataVars, clientVars
  <1>2. ManagerTypes' /\ ManagerInv' /\ RequestInv'
    BY DEF RInv, TypeOK, OperatorStops, ManagerTypes, ManagerInv, RequestInv, Terminate
  <1>3. FileTypes' /\ StatusInv'
    BY DEF RInv, TypeOK, OperatorStops, FileTypes, ManagerInv, StatusInv, Terminate
  <1>4. RuntimeTypes' /\ ProcessInv' /\ DataInv'
    BY DEF RInv, TypeOK, OperatorStops, RuntimeTypes, Processes, dataVars, clientVars,
           ProcessInv, ManagerAlive, Terminate, DataInv
  <1>5. ClientInv'
    BY DEF RInv, TypeOK, OperatorStops, ClientInv, Terminate, dataVars, clientVars
  <1> QED
    BY <1>1, <1>2, <1>3, <1>4, <1>5 DEF RInv, TypeOK

LEMMA KeepsCrash == ASSUME RInv, NEW p \in running, Crash(p) PROVE RInv'
  <1>1. ClientTypes'
    BY OneMore DEF RInv, TypeOK, ClientTypes, Crash, clientVars, managerVars
  <1>2. ProcessInv'
    <2>1. /\ running' = running \ {p} /\ faults' # 0
          /\ UNCHANGED <<manager, generation, traps>>
      BY EndsKeeps, OneMore DEF Crash, managerVars
    <2> QED  BY <2>1 DEF RInv, ProcessInv
  <1>3. StatusInv'
    <2>1. faults' # 0 /\ UNCHANGED <<manager, generation, status>>
      BY EndsKeeps, OneMore DEF Crash, managerVars
    <2> QED  BY <2>1 DEF RInv, StatusInv
  <1>4. ManagerTypes' /\ ManagerInv' /\ RequestInv'
    BY DEF RInv, TypeOK, Crash, ManagerTypes, managerVars, ManagerInv, RequestInv
  <1>5. FileTypes'
    BY DEF RInv, TypeOK, Crash, FileTypes
  <1>6. RuntimeTypes' /\ DataInv'
    BY EndsKeeps DEF RInv, TypeOK, Crash, RuntimeTypes, managerVars, clientVars, Processes,
           DataInv
  <1>7. ClientInv'
    BY Different, EndsKeeps DEF RInv, TypeOK, Crash, ClientInv, managerVars, clientVars
  <1> QED
    BY <1>1, <1>2, <1>3, <1>4, <1>5, <1>6, <1>7 DEF RInv, TypeOK

LEMMA KeepsReachSsd == ASSUME RInv, NEW d \in Item, ReachSsd(d) PROVE RInv'
  <1>1. ManagerTypes' /\ ManagerInv' /\ RequestInv'
    BY DEF RInv, TypeOK, ReachSsd, ManagerTypes, managerVars, ManagerInv, RequestInv
  <1>2. FileTypes' /\ StatusInv'
    BY DEF RInv, TypeOK, ReachSsd, FileTypes, managerVars, StatusInv
  <1>3. RuntimeTypes' /\ ProcessInv' /\ DataInv'
    BY Different DEF RInv, TypeOK, ReachSsd, RuntimeTypes, ProcessInv, Serves, managerVars,
           clientVars, Processes, DataInv
  <1>4. ClientTypes' /\ ClientInv'
    BY DEF RInv, TypeOK, ReachSsd, ClientTypes, managerVars, clientVars, ClientInv
  <1> QED
    BY <1>1, <1>2, <1>3, <1>4 DEF RInv, TypeOK

LEMMA KeepsBegin == ASSUME RInv, Begin PROVE RInv'
  <1>1. ManagerTypes' /\ ManagerInv' /\ RequestInv'
    BY DEF RInv, TypeOK, Begin, ManagerTypes, managerVars, ManagerInv, RequestInv
  <1>2. FileTypes' /\ StatusInv'
    BY DEF RInv, TypeOK, Begin, FileTypes, managerVars, StatusInv
  <1>3. RuntimeTypes' /\ ProcessInv' /\ DataInv'
    BY DEF RInv, TypeOK, Begin, RuntimeTypes, Processes, managerVars, dataVars, ProcessInv,
           DataInv
  <1>4. ClientTypes' /\ ClientInv'
    BY DEF RInv, TypeOK, Begin, ClientTypes, Verified, ReadyNow, managerVars, StatusInv, ClientInv
  <1> QED
    BY <1>1, <1>2, <1>3, <1>4 DEF RInv, TypeOK

LEMMA KeepsRunStages == ASSUME RInv, RunStages PROVE RInv'
  <1>1. ManagerTypes' /\ ManagerInv' /\ RequestInv'
    BY DEF RInv, TypeOK, RunStages, ManagerTypes, managerVars, ManagerInv, RequestInv
  <1>2. FileTypes' /\ StatusInv'
    BY DEF RInv, TypeOK, RunStages, FileTypes, managerVars, StatusInv
  <1>3. RuntimeTypes' /\ ProcessInv' /\ DataInv'
    BY DEF RInv, TypeOK, RunStages, RuntimeTypes, ClientTypes, ProcessInv, Serves,
           managerVars, Processes, DataInv
  <1>4. ClientTypes' /\ ClientInv'
    BY DEF RInv, TypeOK, RunStages, ClientTypes, managerVars, ClientInv
  <1> QED
    BY <1>1, <1>2, <1>3, <1>4 DEF RInv, TypeOK

LEMMA KeepsWriteRequest == ASSUME RInv, WriteRequest PROVE RInv'
  <1>1. FileTypes' /\ ClientTypes'
    <2>1. /\ client = "settle" /\ status.state = "ready"
          /\ request' = [generation |-> status.generation, id |-> conc]
          /\ asked' = [generation |-> status.generation, index |-> index]
          /\ client' = "signal"
          /\ UNCHANGED <<status, generation, conc, r4, faults, signals>>
      BY DEF WriteRequest, ReadyNow, managerVars
    <2>2. status.generation = conc
      BY <2>1 DEF RInv, StatusInv, ClientInv
    <2>3. conc \in 1..Concurrencies /\ conc \in 0..Concurrencies /\ index \subseteq Item
      BY Numbers DEF RInv, TypeOK, RuntimeTypes
    <2>4. FileTypes'  BY <2>1, <2>2, <2>3 DEF RInv, TypeOK, FileTypes, Item, Files
    <2>5. ClientTypes'  BY <2>1, <2>2, <2>3 DEF RInv, TypeOK, ClientTypes
    <2> QED  BY <2>4, <2>5
  <1>2. ManagerTypes' /\ ManagerInv' /\ RequestInv'
    BY DEF RInv, TypeOK, WriteRequest, ManagerTypes, managerVars, ManagerInv, RequestInv
  <1>3. StatusInv'
    BY DEF RInv, TypeOK, WriteRequest, StatusInv, managerVars
  <1>4. RuntimeTypes' /\ ProcessInv' /\ DataInv'
    BY DEF RInv, TypeOK, WriteRequest, RuntimeTypes, Processes, managerVars, dataVars,
           ProcessInv, DataInv
  <1>5. ClientInv'
    BY DEF RInv, TypeOK, WriteRequest, StatusInv, ClientInv, ReadyNow, managerVars, Question
  <1> QED
    BY <1>1, <1>2, <1>3, <1>4, <1>5 DEF RInv, TypeOK

LEMMA KeepsSendUsr1 == ASSUME RInv, SendUsr1 PROVE RInv'
  <1>1. ClientInv'
    <2>1. client = "signal" /\ client' = "wait" /\ generation = conc /\ asked.generation = conc
      BY DEF RInv, ClientInv, SendUsr1
    <2>2. UNCHANGED <<generation, conc, asked, request, traps, dram>>
      BY DEF SendUsr1, dataVars
    <2>3. conc # conc + 1
      BY Numbers DEF RInv
    <2>4. CASE traps = "set"
      <3>1. UNCHANGED manager /\ manager \in {"loop", "cleanup"} /\ request = Question(conc)
        BY <2>1, <2>4 DEF RInv, TypeOK, ManagerTypes, ManagerInv, ClientInv, SendUsr1, Usr1
      <3> QED  BY <2>1, <2>2, <2>3, <3>1 DEF ClientInv, Question
    <2>5. CASE traps # "set"
      <3>1. manager # "handle" /\ manager' # "handle"
        BY <2>5 DEF RInv, ManagerInv, SendUsr1, Usr1
      <3> QED  BY <2>1, <2>2, <2>3, <2>5, <3>1 DEF ClientInv
    <2> QED  BY <2>4, <2>5
  <1>2. ManagerTypes' /\ ManagerInv' /\ RequestInv'
    BY DEF RInv, TypeOK, SendUsr1, ManagerTypes, ManagerInv, RequestInv, Usr1
  <1>3. FileTypes' /\ StatusInv'
    BY DEF RInv, TypeOK, SendUsr1, FileTypes, ManagerInv, StatusInv, Usr1
  <1>4. RuntimeTypes' /\ ProcessInv' /\ DataInv'
    BY DEF RInv, TypeOK, SendUsr1, RuntimeTypes, Processes, dataVars, ProcessInv,
           ManagerAlive, Usr1, DataInv
  <1>5. ClientTypes'
    BY DEF RInv, TypeOK, SendUsr1, ClientTypes
  <1> QED
    BY <1>1, <1>2, <1>3, <1>4, <1>5 DEF RInv, TypeOK

LEMMA KeepsSeeRestarted == ASSUME RInv, SeeRestarted PROVE RInv'
  <1>1. ClientInv'
    <2>1. /\ client = "wait" /\ client' = "recover"
          /\ status.state = "ready" /\ status.generation = asked.generation + 1
          /\ UNCHANGED <<generation, conc, asked, request, traps, dram, manager,
                         restartRequested>>
      BY DEF SeeRestarted, IsReady, ReadyNow, managerVars, dataVars
    <2>2. /\ generation = conc + 1 /\ asked.generation = conc
          /\ manager \in {"loop", "handle", "cleanup"} /\ dram = {}
      BY <2>1 DEF RInv, StatusInv, ClientInv
    <2>3. conc # conc + 1
      BY Numbers DEF RInv
    <2> QED  BY <2>1, <2>2, <2>3 DEF RInv, ClientInv
  <1>2. ManagerTypes' /\ ManagerInv' /\ RequestInv'
    BY DEF RInv, TypeOK, SeeRestarted, ManagerTypes, managerVars, ManagerInv, RequestInv
  <1>3. FileTypes' /\ StatusInv'
    BY DEF RInv, TypeOK, SeeRestarted, FileTypes, managerVars, StatusInv
  <1>4. RuntimeTypes' /\ ProcessInv' /\ DataInv'
    BY DEF RInv, TypeOK, SeeRestarted, RuntimeTypes, Processes, managerVars, dataVars,
           ProcessInv, DataInv
  <1>5. ClientTypes'
    BY DEF RInv, TypeOK, SeeRestarted, ClientTypes
  <1> QED
    BY <1>1, <1>2, <1>3, <1>4, <1>5 DEF RInv, TypeOK

LEMMA KeepsSeeRecovered == ASSUME RInv, SeeRecovered PROVE RInv'
  <1>1. ManagerTypes' /\ ManagerInv' /\ RequestInv'
    BY DEF RInv, TypeOK, SeeRecovered, ManagerTypes, managerVars, ManagerInv, RequestInv
  <1>2. FileTypes' /\ StatusInv'
    BY DEF RInv, TypeOK, SeeRecovered, FileTypes, managerVars, StatusInv
  <1>3. RuntimeTypes' /\ ProcessInv' /\ DataInv'
    BY DEF RInv, TypeOK, SeeRecovered, RuntimeTypes, Processes, managerVars, dataVars,
           ProcessInv, DataInv
  <1>4. ClientTypes' /\ ClientInv'
    BY DEF RInv, TypeOK, SeeRecovered, ClientTypes, managerVars, dataVars, ClientInv
  <1> QED
    BY <1>1, <1>2, <1>3, <1>4 DEF RInv, TypeOK

LEMMA KeepsRunR4 == ASSUME RInv, RunR4 PROVE RInv'
  <1>1. ClientTypes'
    <2>1. conc' \in Item /\ client' \in {"begin", "exit"}
      BY Numbers DEF RInv, TypeOK, ClientTypes, RunR4, Item
    <2>2. asked' \in [generation : 0..Concurrencies, index : SUBSET Item]
      BY Numbers DEF RInv, RunR4, NoQuestion
    <2>3. r4' \subseteq Item
      BY DEF RInv, TypeOK, ClientTypes, RunR4
    <2> QED  BY <2>1, <2>2, <2>3 DEF RInv, TypeOK, ClientTypes, RunR4
  <1>2. ManagerTypes' /\ ManagerInv' /\ RequestInv'
    BY DEF RInv, TypeOK, RunR4, ManagerTypes, managerVars, ManagerInv, RequestInv
  <1>3. FileTypes' /\ StatusInv'
    BY DEF RInv, TypeOK, RunR4, FileTypes, managerVars, StatusInv
  <1>4. RuntimeTypes' /\ ProcessInv' /\ DataInv'
    BY DEF RInv, TypeOK, RunR4, RuntimeTypes, Processes, managerVars, dataVars, ProcessInv,
           DataInv, NoQuestion
  <1>5. ClientInv'
    <2>1. /\ client = "r4" /\ generation = conc + 1
          /\ manager \notin {"start", "set master", "wait master", "set vllm", "wait vllm"}
          /\ manager = "handle" => FALSE
          /\ traps = "set" => manager \notin {"stop vllm", "stop master"} /\ restartRequested # "1"
      BY DEF RInv, ManagerInv, ClientInv, RunR4
    <2>2. /\ UNCHANGED <<manager, generation, traps, restartRequested, request, dram>>
          /\ \/ conc' = conc + 1 /\ client' = "begin"
             \/ conc' = conc /\ client' = "exit"
      BY DEF RunR4, managerVars, dataVars
    <2> QED
      BY <2>1, <2>2 DEF ClientInv
  <1> QED
    BY <1>1, <1>2, <1>3, <1>4, <1>5 DEF RInv, TypeOK

LEMMA KeepsFail == ASSUME RInv, Fail PROVE RInv'
  <1>1. ManagerTypes' /\ ManagerInv' /\ RequestInv'
    BY DEF RInv, TypeOK, Fail, ManagerTypes, managerVars, ManagerInv, RequestInv
  <1>2. FileTypes' /\ StatusInv'
    BY DEF RInv, TypeOK, Fail, FileTypes, managerVars, StatusInv
  <1>3. RuntimeTypes' /\ ProcessInv' /\ DataInv'
    BY DEF RInv, TypeOK, Fail, RuntimeTypes, Processes, managerVars, dataVars, ProcessInv,
           DataInv
  <1>4. ClientTypes' /\ ClientInv'
    BY DEF RInv, TypeOK, Fail, ClientTypes, managerVars, ClientInv
  <1> QED
    BY <1>1, <1>2, <1>3, <1>4 DEF RInv, TypeOK

LEMMA KeepsInterrupted == ASSUME RInv, Interrupted PROVE RInv'
  <1>1. ClientTypes'
    BY OneMore DEF RInv, TypeOK, ClientTypes, Interrupted, dataVars
  <1>2. ManagerTypes' /\ ManagerInv' /\ RequestInv'
    BY DEF RInv, TypeOK, Interrupted, ManagerTypes, managerVars, ManagerInv, RequestInv
  <1>3. FileTypes' /\ StatusInv'
    BY DEF RInv, TypeOK, Interrupted, FileTypes, managerVars, StatusInv
  <1>4. RuntimeTypes' /\ ProcessInv' /\ DataInv'
    BY DEF RInv, TypeOK, Interrupted, RuntimeTypes, Processes, managerVars, dataVars,
           ProcessInv, DataInv
  <1>5. ClientInv'
    BY DEF RInv, TypeOK, Interrupted, ClientInv, managerVars
  <1> QED
    BY <1>1, <1>2, <1>3, <1>4, <1>5 DEF RInv, TypeOK

LEMMA KeepsExit == ASSUME RInv, Exit PROVE RInv'
  <1>1. ManagerTypes' /\ ManagerInv' /\ RequestInv'
    BY DEF RInv, TypeOK, Exit, ManagerTypes, ManagerInv, RequestInv, Terminate
  <1>2. FileTypes' /\ StatusInv'
    BY DEF RInv, TypeOK, Exit, FileTypes, ManagerInv, StatusInv, Terminate
  <1>3. RuntimeTypes' /\ ProcessInv' /\ DataInv'
    BY DEF RInv, TypeOK, Exit, RuntimeTypes, Processes, dataVars, ProcessInv, ManagerAlive,
           Terminate, DataInv
  <1>4. ClientTypes' /\ ClientInv'
    BY DEF RInv, TypeOK, Exit, ClientTypes, Terminate, ClientInv
  <1> QED
    BY <1>1, <1>2, <1>3, <1>4 DEF RInv, TypeOK

-----------------------------------------------------------------------------
(* The theorems *)

LEMMA InitRInv == Init => RInv
  <1> SUFFICES ASSUME Init PROVE RInv
    OBVIOUS
  <1>1. /\ 1 \in 1..(Concurrencies + 1) /\ 1 \in 1..Concurrencies
        /\ 0 \in 0..Concurrencies /\ 0 \in 0..MaxFaults /\ 0 \in 0..MaxSignals
    BY RuntimeAssumption
  <1>2. ManagerTypes
    BY <1>1 DEF Init, ManagerTypes
  <1>3. FileTypes
    BY DEF Init, FileTypes
  <1>4. RuntimeTypes
    BY DEF Init, RuntimeTypes
  <1>5. ClientTypes
    BY <1>1 DEF Init, ClientTypes, Item, NoQuestion
  <1>6. ManagerInv /\ ProcessInv /\ DataInv
    BY DEF Init, ManagerInv, ProcessInv, DataInv, NoQuestion
  <1>7. StatusInv
    BY DEF Init, StatusInv, NoFile
  <1>8. RequestInv /\ ClientInv
    BY DEF Init, RequestInv, ClientInv
  <1> QED
    BY <1>2, <1>3, <1>4, <1>5, <1>6, <1>7, <1>8 DEF RInv, TypeOK

LEMMA StutterRInv == ASSUME RInv, UNCHANGED vars PROVE RInv'
  <1> USE DEF vars, managerVars, dataVars, clientVars
  <1>1. ManagerTypes' /\ FileTypes'
    BY DEF RInv, TypeOK, ManagerTypes, FileTypes
  <1>2. RuntimeTypes' /\ ClientTypes'
    BY DEF RInv, TypeOK, RuntimeTypes, ClientTypes, Processes
  <1>3. ManagerInv' /\ ProcessInv' /\ DataInv'
    BY DEF RInv, ManagerInv, ProcessInv, DataInv
  <1>4. StatusInv' /\ RequestInv'
    BY DEF RInv, StatusInv, RequestInv
  <1>5. ClientInv'
    BY DEF RInv, ClientInv
  <1> QED
    BY <1>1, <1>2, <1>3, <1>4, <1>5 DEF RInv, TypeOK

LEMMA NextRInv == RInv /\ [Next]_vars => RInv'
  <1>1. ASSUME RInv, Manager PROVE RInv'
    BY <1>1, KeepsStartMaster, KeepsSetMasterPid, KeepsStartVllm, KeepsSetVllmPid,
       KeepsBecomeReady, KeepsNoticeDeath, KeepsTakeRequest, KeepsHandleRequest, KeepsStopVllm,
       KeepsStopMaster, KeepsBeginCleanup, KeepsDeleteSession DEF Manager
  <1>2. ASSUME RInv, Client PROVE RInv'
    BY <1>2, KeepsBegin, KeepsRunStages, KeepsWriteRequest, KeepsSendUsr1,
       KeepsSeeRestarted, KeepsSeeRecovered, KeepsRunR4, KeepsFail, KeepsExit DEF Client
  <1> QED
    BY <1>1, <1>2, KeepsStartTimesOut, KeepsOperatorStops, KeepsCrash, KeepsReachSsd,
       KeepsInterrupted, StutterRInv DEF Next

LEMMA RInvAlways == Spec => []RInv
  BY InitRInv, NextRInv, PTL DEF Spec

\* Every variable keeps its type; above all, RUNTIME_GENERATION is at most one
\* more than the concurrency the run is at.
THEOREM TypesCorrect == Spec => []TypeOK
  BY RInvAlways, PTL DEF RInv

\* stop_runtime_processes before the next start_runtime: processes of two
\* generations never run together, whatever crashes or times out.
THEOREM GenerationsNeverOverlap == Spec => []OneGeneration
  <1>1. ASSUME RInv, NEW p \in running PROVE p[2] = generation
    <2>1. p = <<"master", generation>> \/ p = <<"vllm", generation>>
      BY <1>1 DEF RInv, ProcessInv, master, vllm
    <2> QED
      BY <2>1
  <1>2. RInv => OneGeneration
    BY <1>1 DEF OneGeneration
  <1> QED
    BY <1>2, RInvAlways, PTL

\* "ready", as write_runtime_status leaves it in the file, is true until
\* something crashes: that generation runs and nothing else does.
THEOREM StatusIsTrue == Spec => []ReadyMeansRunning
  <1>1. RInv => ReadyMeansRunning
    BY DEF RInv, ProcessInv, StatusInv, ReadyMeansRunning, ReadyNow
  <1> QED
    BY <1>1, RInvAlways, PTL

\* What request_runtime_restart accepts as the answer is the restart it asked
\* for: a new generation, DRAM empty, the SSD session and its items kept.
THEOREM AnswersAreTrue == Spec => []RestartAnswerTrue
  <1>1. ASSUME RInv, client = "recover", ReadyNow, faults = 0
        PROVE  /\ generation = asked.generation + 1
               /\ running = {master(generation), vllm(generation)}
               /\ dram = {}
               /\ sessionDir = "present" /\ asked.index \subseteq ssd
    <2>1. generation = conc + 1 /\ asked.generation = conc /\ dram = {}
      BY <1>1 DEF RInv, ClientInv
    <2>2. running = {master(generation), vllm(generation)} /\ manager \in {"loop", "handle", "cleanup"}
      BY <1>1 DEF RInv, ProcessInv, StatusInv, ReadyNow
    <2>3. sessionDir = "present" /\ asked.index \subseteq ssd
      BY <1>1, <2>2 DEF RInv, DataInv
    <2> QED
      BY <2>1, <2>2, <2>3
  <1>2. RInv => RestartAnswerTrue
    BY <1>1 DEF RestartAnswerTrue
  <1> QED
    BY <1>2, RInvAlways, PTL

\* handle_restart_request never refuses a request of the run.
THEOREM RequestsAreAccepted == Spec => []NoRejection
  <1>1. RInv => NoRejection
    BY DEF RInv, StatusInv, NoRejection
  <1> QED
    BY <1>1, RInvAlways, PTL

-----------------------------------------------------------------------------
(* A manager that ends by itself *)

\* Only the operator or a deadline can reach the manager while it has started
\* a process whose pid it does not know yet.  Without them it comes to its
\* cleanup knowing the pid of all that runs: the run is over only when no
\* restart is under way.
TidyInv ==
  signals = 0 =>
    /\ traps = "set" /\ (client = "begin" => conc > 1) => status.state # "no file"
    /\ client \in {"exit", "end"} /\ traps = "set" =>
         manager \in {"loop", "cleanup"} /\ restartRequested = "0"
    /\ manager \in {"set master", "wait master"} => vllm(generation) \notin running
    /\ manager \in {"wait master", "wait vllm", "loop", "handle", "cleanup", "stop vllm"} =>
         running \subseteq {master(masterPid), vllm(vllmPid)}
    /\ manager = "stop master" => running \subseteq {master(masterPid)}
    /\ manager \in {"delete", "gone"} => running = {}
    /\ manager = "gone" => sessionDir = "deleted"

\* The manager's steps up to "ready".
LEMMA TidyStarts ==
  ASSUME RInv, TidyInv,
         \/ StartMaster \/ SetMasterPid \/ StartVllm \/ SetVllmPid \/ BecomeReady
         \/ NoticeDeath \/ StartTimesOut
  PROVE  TidyInv'
  <1>1. CASE StartMaster
    <2>1. /\ manager = "start" /\ manager' = "set master" /\ status' = Status("starting", requestId)
          /\ running' = running \cup {master(generation)}
          /\ UNCHANGED <<generation, traps, restartRequested, sessionDir, client, conc, signals>>
      BY <1>1 DEF StartMaster, clientVars, dataVars
    <2>2. running = {} /\ traps = "set"
      BY <2>1 DEF RInv, ManagerInv, ProcessInv
    <2>3. status'.state # "no file"
      BY <2>1 DEF Status
    <2>4. vllm(generation) \notin running'
      BY <2>1, <2>2, Different
    <2>5. signals = 0 => client \notin {"exit", "end"}
      BY <2>1, <2>2 DEF TidyInv
    <2> QED
      BY <2>1, <2>3, <2>4, <2>5 DEF TidyInv
  <1>2. CASE SetMasterPid
    BY <1>2 DEF RInv, ManagerInv, ProcessInv, TidyInv, SetMasterPid, clientVars, dataVars
  <1>3. CASE StartVllm
    BY <1>3 DEF RInv, ManagerInv, ProcessInv, TidyInv, StartVllm, clientVars, dataVars
  <1>4. CASE SetVllmPid
    <2>1. masterPid = generation /\ running \subseteq {master(generation), vllm(generation)}
      BY <1>4 DEF RInv, ManagerInv, ProcessInv, SetVllmPid
    <2> QED
      BY <1>4, <2>1 DEF RInv, ManagerInv, TidyInv, SetVllmPid, clientVars, dataVars
  <1>5. CASE BecomeReady
    BY <1>5 DEF RInv, ManagerInv, TidyInv, BecomeReady, Answer, Status, clientVars, dataVars
  <1>6. CASE NoticeDeath
    BY <1>6 DEF RInv, ManagerInv, TidyInv, NoticeDeath, clientVars, dataVars
  <1>7. CASE StartTimesOut
    BY <1>7 DEF RInv, ManagerInv, TidyInv, StartTimesOut, clientVars, dataVars
  <1> QED
    BY <1>1, <1>2, <1>3, <1>4, <1>5, <1>6, <1>7

\* A restart and the cleanup stop what runs, by the pids they know.
LEMMA TidyStops ==
  ASSUME RInv, TidyInv,
         TakeRequest \/ HandleRequest \/ StopVllm \/ StopMaster \/ BeginCleanup \/ DeleteSession
  PROVE  TidyInv'
  <1>1. CASE HandleRequest
    <2>1. /\ manager = "handle" /\ traps = "set" /\ manager' = "stop vllm"
          /\ status' = Status("restarting", conc)
      BY <1>1, Accepted
    <2>2. UNCHANGED <<generation, masterPid, vllmPid, traps, running, sessionDir, client, conc,
                      signals>>
      BY <1>1 DEF HandleRequest, clientVars, dataVars
    <2>3. status'.state = "restarting"
      BY <2>1 DEF Status
    <2> QED
      BY <2>1, <2>2, <2>3 DEF TidyInv
  <1>6. CASE TakeRequest
    <2>1. /\ manager = "loop" /\ restartRequested = "1" /\ manager' = "handle" /\ traps = "set"
          /\ UNCHANGED <<generation, masterPid, vllmPid, traps, status, running, sessionDir,
                         client, conc, signals>>
      BY <1>6 DEF RInv, ManagerInv, TakeRequest, clientVars, dataVars
    <2> QED
      BY <2>1 DEF TidyInv
  <1>2. CASE StopVllm
    <2>1. /\ manager = "stop vllm" /\ manager' = "stop master"
          /\ running' = running \ {vllm(vllmPid)}
          /\ UNCHANGED <<generation, masterPid, traps, restartRequested, status, sessionDir, client,
                         conc, signals>>
      BY <1>2, EndsKeeps DEF StopVllm, clientVars
    <2> QED
      BY <2>1 DEF TidyInv
  <1>3. CASE StopMaster
    <2>1. /\ manager = "stop master" /\ running' = running \ {master(masterPid)}
          /\ manager' = IF traps = "set" THEN "start" ELSE "delete"
          /\ UNCHANGED <<traps, restartRequested, status, sessionDir, client, conc, signals>>
      BY <1>3, EndsKeeps DEF StopMaster, GoOn, clientVars
    <2> QED
      BY <2>1 DEF TidyInv
  <1>4. CASE BeginCleanup
    BY <1>4 DEF TidyInv, BeginCleanup, clientVars, dataVars
  <1>5. CASE DeleteSession
    <2>1. traps = "reset"
      BY <1>5 DEF DeleteSession, RInv, ManagerInv
    <2> QED
      BY <1>5, <2>1 DEF TidyInv, DeleteSession, clientVars
  <1> QED
    BY <1>1, <1>2, <1>3, <1>4, <1>5, <1>6

\* Signals of the operator are counted; a crash only takes processes away.
LEMMA TidyOutside ==
  ASSUME RInv, TidyInv,
         \/ OperatorStops \/ Interrupted
         \/ \E p \in running : Crash(p)
         \/ \E d \in Item : ReachSsd(d)
  PROVE  TidyInv'
  <1>1. CASE OperatorStops \/ Interrupted
    <2>1. signals \in Nat /\ signals' = signals + 1
      BY <1>1, Numbers DEF RInv, TypeOK, ClientTypes, OperatorStops, Interrupted
    <2>2. signals' # 0
      BY <2>1
    <2> QED
      BY <2>2 DEF TidyInv
  <1>2. ASSUME NEW p \in running, Crash(p) PROVE TidyInv'
    <2>1. /\ running' = running \ {p} /\ sessionDir' = sessionDir
          /\ UNCHANGED <<managerVars, status, clientVars, signals>>
      BY <1>2, EndsKeeps DEF Crash
    <2> QED
      BY <2>1 DEF TidyInv, managerVars, clientVars
  <1>3. ASSUME NEW d \in Item, ReachSsd(d) PROVE TidyInv'
    BY <1>3 DEF TidyInv, ReachSsd, managerVars, clientVars
  <1> QED
    BY <1>1, <1>2, <1>3

\* The run, as long as it is not over, leaves the manager's pids alone.
LEMMA TidyRuns ==
  ASSUME RInv, TidyInv,
         \/ Begin \/ RunStages \/ WriteRequest \/ SendUsr1 \/ SeeRestarted \/ SeeRecovered
  PROVE  TidyInv'
  <1>1. CASE Begin \/ RunStages \/ WriteRequest \/ SeeRestarted \/ SeeRecovered
    <2>1. UNCHANGED <<managerVars, status, running, sessionDir, signals>>
      BY <1>1 DEF Begin, RunStages, WriteRequest, SeeRestarted, SeeRecovered, dataVars
    <2>2. client' \notin {"exit", "end"}
      BY <1>1 DEF Begin, RunStages, WriteRequest, SeeRestarted, SeeRecovered
    <2>3. client = "begin" => status.state # "no file"
      BY <1>1 DEF Begin, RunStages, WriteRequest, SeeRestarted, SeeRecovered, Verified, ReadyNow
    <2> QED
      BY <2>1, <2>2, <2>3 DEF TidyInv, managerVars
  <1>2. CASE SendUsr1
    <2>1. /\ client = "signal" /\ client' = "wait"
          /\ manager' = IF traps = "set" THEN manager ELSE "killed"
          /\ UNCHANGED <<generation, masterPid, vllmPid, traps, status, running, sessionDir,
                         signals>>
      BY <1>2 DEF SendUsr1, Usr1, dataVars
    <2> QED
      BY <2>1 DEF TidyInv
  <1> QED
    BY <1>1, <1>2

\* When the run is over, no restart is under way; its TERM meets a manager
\* that watches, or one that is cleaning up already.
LEMMA TidyEnds ==
  ASSUME RInv, TidyInv, RunR4 \/ Fail \/ Exit
  PROVE  TidyInv'
  <1>1. CASE RunR4
    <2>1. /\ client = "r4" /\ UNCHANGED <<managerVars, status, running, sessionDir, signals>>
          /\ client' = "exit" \/ (client' = "begin" /\ conc' > 1)
      BY <1>1, Numbers DEF RInv, RunR4, dataVars
    <2>2. traps = "set" => manager \in {"loop", "cleanup"} /\ restartRequested = "0"
      BY <2>1 DEF RInv, TypeOK, ManagerTypes, ManagerInv, ClientInv
    <2> QED
      BY <2>1, <2>2 DEF TidyInv, managerVars
  <1>2. CASE Fail
    <2>1. /\ UNCHANGED <<managerVars, status, running, sessionDir, conc, signals>>
          /\ client' = "exit"
          /\ client = "begin" => conc > 1
      BY <1>2 DEF Fail, Fails, dataVars
    <2>2. signals = 0 /\ traps = "set" => client \in {"begin", "stages", "settle", "r4", "recover"}
      <3>1. traps = "set" => ManagerAlive
        BY DEF RInv, ManagerInv, ManagerAlive
      <3>2. signals = 0 /\ traps = "set" /\ client = "wait" => status # NoFile
        <4>1. NoFile.state = "no file"
          BY DEF NoFile
        <4>2. signals = 0 /\ traps = "set" /\ client = "wait" => status.state # "no file"
          BY DEF TidyInv
        <4> QED
          BY <4>1, <4>2
      <3>3. status.state # "failed"
        BY DEF RInv, StatusInv
      <3> QED
        BY <1>2, <3>1, <3>2, <3>3 DEF Fail, Fails
    <2>3. signals = 0 /\ traps = "set" => manager \in {"loop", "cleanup"} /\ restartRequested = "0"
      <3>1. /\ client \in {"begin", "stages", "settle", "r4", "recover"} /\ traps = "set"
              => /\ manager \notin {"start", "set master", "wait master", "set vllm", "wait vllm"}
                 /\ manager \notin {"handle", "stop vllm", "stop master"}
                 /\ restartRequested # "1"
        BY <2>1 DEF RInv, ClientInv
      <3>2. traps = "set" => manager \notin {"delete", "gone", "killed"}
        BY DEF RInv, ManagerInv
      <3> QED
        BY <2>1, <2>2, <3>1, <3>2 DEF RInv, TypeOK, ManagerTypes, managerVars
    <2> QED
      BY <2>1, <2>3 DEF TidyInv, managerVars, clientVars
  <1>3. CASE Exit
    <2>1. /\ client = "exit" /\ client' = "end"
          /\ manager' \in {manager, IF traps = "set" THEN "cleanup" ELSE "killed"}
          /\ UNCHANGED <<generation, masterPid, vllmPid, restartRequested, traps, status, running,
                         sessionDir, signals>>
      BY <1>3 DEF Exit, Terminate, dataVars
    <2> QED
      BY <2>1 DEF TidyInv
  <1> QED
    BY <1>1, <1>2, <1>3

\* The first step of a manager finds nothing running.
LEMMA TidyInit == Init => TidyInv
  BY DEF Init, TidyInv

\* No step ends it.
LEMMA TidyNext == RInv /\ TidyInv /\ [Next]_vars => TidyInv'
  <1>1. ASSUME RInv, TidyInv, UNCHANGED vars PROVE TidyInv'
    BY <1>1 DEF TidyInv, vars, managerVars, dataVars, clientVars
  <1> QED
    BY <1>1, TidyStarts, TidyStops, TidyOutside, TidyRuns, TidyEnds DEF Next, Manager, Client

\* cleanup_runtime after a crash, a start timeout or the TERM of a run that is
\* over: a manager that comes to its end by itself has stopped every process
\* and deleted the SSD session.
THEOREM LeavesNothing == Spec => []TidyUnlessInterrupted
  <1>1. TidyInv => TidyUnlessInterrupted
    BY DEF TidyInv, TidyUnlessInterrupted
  <1> QED
    BY <1>1, RInvAlways, TidyInit, TidyNext, PTL DEF Spec
=============================================================================
