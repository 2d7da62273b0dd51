--------------------------- MODULE RuntimeControl ---------------------------
(***************************************************************************)
(* The runtime manager (StartUp.sh, window one) and a benchmark run        *)
(* (Run-all, window two).  The manager starts mooncake_master and vLLM,    *)
(* watches them, restarts both on request while it preserves the SSD       *)
(* session directory, and deletes that directory in its final cleanup.     *)
(* The run asks for one restart per concurrency, between R3 and R4.        *)
(*                                                                         *)
(* The two share a status file (manager to run), a request file (run to    *)
(* manager) and signals: USR1 asks for a restart, INT or TERM ends the     *)
(* manager.  Bash runs a trap between two commands, so every step of the   *)
(* manager below may be preceded by one.                                   *)
(*                                                                         *)
(* A process is <<kind, generation>>: a generation starts one master and   *)
(* one vLLM, which stands for its whole process tree.  A pid is the        *)
(* generation it belongs to, 0 the empty string.  The data of one          *)
(* concurrency is one item, that is in DRAM, on the SSD, or both.          *)
(***************************************************************************)
EXTENDS Integers, FiniteSets

CONSTANTS
  Concurrencies,  \* the length of VB_RUN_CONCURRENCIES
  CleanupAfterRun,\* VB_CLEANUP_AFTER_RUN
  MaxFaults,      \* bound: crashes of runtime processes, start timeouts
  MaxSignals      \* bound: interruptions of either window by the operator or a deadline

ASSUME RuntimeAssumption ==
  /\ Concurrencies \in Nat \ {0}
  /\ CleanupAfterRun \in BOOLEAN
  /\ MaxFaults \in Nat /\ MaxSignals \in Nat

VARIABLES
  \* StartUp.sh
  manager,          \* where the manager is
  generation,       \* RUNTIME_GENERATION
  masterPid,        \* MASTER_PID
  vllmPid,          \* VLLM_PID
  requestId,        \* $1 of start_runtime: the run's request id, 0 for "initial"
  restartRequested, \* RESTART_REQUESTED
  traps,            \* "set", or "reset" by the cleanup
  \* shared by both
  status,           \* the runtime status file
  request,          \* the runtime request file
  \* the operating system, Mooncake's data
  running,          \* processes of the runtime
  sessionDir,       \* the SSD session directory: "present" or "deleted"
  ssd,              \* items in that directory
  dram,             \* items in the master's segment
  index,            \* items the master knows to be on the SSD
  \* Run-all
  client,           \* where the run is
  conc,             \* its current concurrency; also the id of its request
  asked,            \* what request_runtime_restart remembers
  r4,               \* concurrencies whose R4 is done
  \* bounds
  faults, signals

managerVars == <<manager, generation, masterPid, vllmPid, requestId,
                 restartRequested, traps>>
dataVars    == <<sessionDir, ssd, dram, index>>
clientVars  == <<client, conc, asked, r4>>
vars == <<managerVars, status, request, running, dataVars, clientVars, faults, signals>>

Item    == 1..Concurrencies
NoFile  == [state |-> "no file", generation |-> 0, id |-> 0]
Nothing == [generation |-> 0, id |-> 0]   \* an empty request, or none
Status(state, id) == [state |-> state, generation |-> generation, id |-> id]

master(g) == <<"master", g>>
vllm(g)   == <<"vllm", g>>

\* The runtime answers: both metrics end points and vLLM's requests.
Serves(g) == {master(g), vllm(g)} \subseteq running

\* The processes of P end.  DRAM and the index go with the master.
Ends(P) ==
  /\ running' = running \ P
  /\ IF \E g \in 1..generation : master(g) \in P \cap running
     THEN dram' = {} /\ index' = {}
     ELSE UNCHANGED <<dram, index>>
  /\ UNCHANGED <<sessionDir, ssd>>

-----------------------------------------------------------------------------
(* StartUp.sh *)

\* start_runtime: the status is written and mooncake_master is put into the
\* background ...
StartMaster ==
  /\ manager = "start"
  /\ status' = Status("starting", requestId)
  /\ running' = running \cup {master(generation)}
  /\ manager' = "set master"
  /\ UNCHANGED <<generation, masterPid, vllmPid, requestId, restartRequested,
                 traps, request, dataVars, clientVars, faults, signals>>

\* ... and only the next command learns its pid.
SetMasterPid ==
  /\ manager = "set master"
  /\ masterPid' = generation
  /\ manager' = "wait master"
  /\ UNCHANGED <<generation, vllmPid, requestId, restartRequested, traps,
                 status, request, running, dataVars, clientVars, faults, signals>>

\* wait_master_ready returns 0, and vLLM is started.
StartVllm ==
  /\ manager = "wait master"
  /\ master(masterPid) \in running
  /\ running' = running \cup {vllm(generation)}
  /\ manager' = "set vllm"
  /\ UNCHANGED <<generation, masterPid, vllmPid, requestId, restartRequested, traps,
                 status, request, dataVars, clientVars, faults, signals>>

SetVllmPid ==
  /\ manager = "set vllm"
  /\ vllmPid' = generation
  /\ manager' = "wait vllm"
  /\ UNCHANGED <<generation, masterPid, requestId, restartRequested, traps,
                 status, request, running, dataVars, clientVars, faults, signals>>

\* Mutant: the answer does not say which request it answers.
AnswerWithoutId == Status("ready", 0)

\* What a restart is answered with.
Answer == Status("ready", requestId)

\* wait_vllm_ready, which looks at vLLM alone, returns 0: the status says so.
BecomeReady ==
  /\ manager = "wait vllm"
  /\ vllm(vllmPid) \in running
  /\ status' = Answer
  /\ manager' = "loop"
  /\ UNCHANGED <<generation, masterPid, vllmPid, requestId, restartRequested, traps,
                 request, running, dataVars, clientVars, faults, signals>>

\* Either wait function returns 1 because its process is gone, or the loop
\* finds one of the two gone: the EXIT trap runs.
NoticeDeath ==
  /\ \/ manager = "wait master" /\ master(masterPid) \notin running
     \/ manager = "wait vllm" /\ vllm(vllmPid) \notin running
     \/ manager = "loop" /\ ~ {master(masterPid), vllm(vllmPid)} \subseteq running
  /\ manager' = "cleanup"
  /\ UNCHANGED <<generation, masterPid, vllmPid, requestId, restartRequested, traps,
                 status, request, running, dataVars, clientVars, faults, signals>>

\* Either wait function runs out of time.
StartTimesOut ==
  /\ manager \in {"wait master", "wait vllm"}
  /\ faults < MaxFaults
  /\ faults' = faults + 1
  /\ manager' = "cleanup"
  /\ UNCHANGED <<generation, masterPid, vllmPid, requestId, restartRequested, traps,
                 status, request, running, dataVars, clientVars, signals>>

\* Mutant: the request is expected to name the next generation.
AcceptableNext == request.generation = generation + 1

\* The request is for a restart of this generation.
Acceptable == request.generation = generation

\* Mutant: the flag stays set.
KeepFlag == UNCHANGED restartRequested

\* RESTART_REQUESTED=0, before the request file is read.
ClearFlag == restartRequested' = "0"

\* Mutant: the status file keeps its old state.
SayNothing == status

\* The status while the runtime is being stopped.
Restarting == Status("restarting", request.id)

\* The loop finds the flag and calls handle_restart_request: its first command.
TakeRequest ==
  /\ manager = "loop"
  /\ restartRequested = "1"
  /\ ClearFlag
  /\ manager' = "handle"
  /\ UNCHANGED <<generation, masterPid, vllmPid, requestId, traps, status, request,
                 running, dataVars, clientVars, faults, signals>>

\* The file is read and answered; a refusal goes back to the loop.
HandleRequest ==
  /\ manager = "handle"
  /\ IF Acceptable
     THEN /\ status' = Restarting
          /\ requestId' = request.id
          /\ manager' = "stop vllm"
     ELSE /\ status' = Status("failed", request.id)
          /\ manager' = "loop"
          /\ UNCHANGED requestId
  /\ UNCHANGED <<generation, masterPid, vllmPid, restartRequested, traps, request,
                 running, dataVars, clientVars, faults, signals>>

\* stop_process_tree VLLM_PID: nothing when it is not running, else TERM and,
\* after at most 60 seconds, KILL.
StopVllm ==
  /\ manager = "stop vllm"
  /\ Ends({vllm(vllmPid)})
  /\ manager' = "stop master"
  /\ UNCHANGED <<generation, masterPid, vllmPid, requestId, restartRequested, traps,
                 status, request, clientVars, faults, signals>>

\* Mutant: the cleanup counts as a restart, too.
AlwaysNextGeneration ==
  generation' = generation + 1 /\ manager' = IF traps = "set" THEN "start" ELSE "delete"

\* A restart goes on with the next generation, the cleanup with the session
\* directory.
GoOn ==
  IF traps = "set" THEN generation' = generation + 1 /\ manager' = "start"
             ELSE UNCHANGED generation /\ manager' = "delete"

\* Mutant: stop_runtime_processes forgets the master.
LeaveMaster ==
  /\ manager = "stop master"
  /\ masterPid' = 0 /\ vllmPid' = 0
  /\ GoOn
  /\ UNCHANGED <<requestId, restartRequested, traps, status, request, running,
                 dataVars, clientVars, faults, signals>>

\* stop_process_tree MASTER_PID; both pids are emptied.
StopMaster ==
  /\ manager = "stop master"
  /\ Ends({master(masterPid)})
  /\ masterPid' = 0 /\ vllmPid' = 0
  /\ GoOn
  /\ UNCHANGED <<requestId, restartRequested, traps, status, request, clientVars,
                 faults, signals>>

\* cleanup_runtime: the traps go first.
BeginCleanup ==
  /\ manager = "cleanup"
  /\ traps' = "reset"
  /\ status' = Status("stopping", 0)
  /\ manager' = "stop vllm"
  /\ UNCHANGED <<generation, masterPid, vllmPid, requestId, restartRequested,
                 request, running, dataVars, clientVars, faults, signals>>

\* delete_ssd_session, then the control files.  A process that was left
\* behind may write into the directory while it is being deleted.
DeleteSession ==
  /\ manager = "delete"
  /\ \/ sessionDir' = "deleted" /\ ssd' = {}
     \/ running # {} /\ UNCHANGED <<sessionDir, ssd>>
  /\ status' = NoFile
  /\ request' = Nothing
  /\ manager' = "gone"
  /\ UNCHANGED <<generation, masterPid, vllmPid, requestId, restartRequested, traps,
                 running, dram, index, clientVars, faults, signals>>

Manager ==
  \/ StartMaster \/ SetMasterPid \/ StartVllm \/ SetVllmPid \/ BecomeReady
  \/ NoticeDeath \/ TakeRequest \/ HandleRequest \/ StopVllm \/ StopMaster
  \/ BeginCleanup \/ DeleteSession

-----------------------------------------------------------------------------
(* Signals to the manager *)

ManagerAlive == manager \notin {"gone", "killed"}

\* INT or TERM: the cleanup, or the default action once the traps are reset.
Terminate == manager' = IF traps = "set" THEN "cleanup" ELSE "killed"

\* USR1: the flag, or the default action once the traps are reset.
Usr1 ==
  IF traps = "set" THEN restartRequested' = "1" /\ UNCHANGED manager
             ELSE manager' = "killed" /\ UNCHANGED restartRequested

\* The operator ends window one.
OperatorStops ==
  /\ ManagerAlive
  /\ signals < MaxSignals
  /\ signals' = signals + 1
  /\ Terminate
  /\ UNCHANGED <<generation, masterPid, vllmPid, requestId, restartRequested, traps,
                 status, request, running, dataVars, clientVars, faults>>

-----------------------------------------------------------------------------
(* External: the runtime's processes and Mooncake *)

\* A process dies of its own.
Crash(p) ==
  /\ p \in running
  /\ faults < MaxFaults
  /\ faults' = faults + 1
  /\ Ends({p})
  /\ UNCHANGED <<managerVars, status, request, clientVars, signals>>

\* Eager offload of an item in DRAM, or recovery of an item a former
\* generation left on the SSD.
ReachSsd(d) ==
  /\ \E g \in 1..generation : Serves(g)
  /\ d \in (dram \cup ssd) \ index
  /\ sessionDir = "present"
  /\ ssd' = ssd \cup {d}
  /\ index' = index \cup {d}
  /\ UNCHANGED <<managerVars, status, request, running, sessionDir, dram, clientVars,
                 faults, signals>>

-----------------------------------------------------------------------------
(* Run-all *)

\* The run's view of the manager: the pid with its start time, and the status.
ReadyNow   == status.state = "ready"
IsReady(g) == ReadyNow /\ status.generation = g

NoQuestion == [generation |-> 0, index |-> {}]

\* What verify_preconditions asks of window one.
Verified == ManagerAlive /\ ReadyNow /\ Serves(generation)

\* run_concurrency: every concurrency is a process of its own and verifies
\* first.  The operator starts the run, the first of them, when window one is
\* ready.
Begin ==
  /\ client = "begin"
  /\ Verified
  /\ client' = "stages"
  /\ UNCHANGED <<managerVars, status, request, running, dataVars, conc, asked, r4,
                 faults, signals>>

\* R1, R2, R3 of every batch: R1 stores the item, wait_mooncake_settle sees it.
RunStages ==
  /\ client = "stages"
  /\ Serves(generation)
  /\ dram' = dram \cup {conc}
  /\ client' = "settle"
  /\ UNCHANGED <<managerVars, status, request, running, sessionDir, ssd, index, conc,
                 asked, r4, faults, signals>>

\* wait_ssd_replicas and wait_ssd_settle see the item on the SSD; then the
\* first part of request_runtime_restart, up to its request in the file.
WriteRequest ==
  /\ client = "settle"
  /\ Serves(generation)
  /\ conc \in index /\ dram # {}
  /\ ManagerAlive /\ ReadyNow
  /\ asked' = [generation |-> status.generation, index |-> index]
  /\ request' = [generation |-> status.generation, id |-> conc]
  /\ client' = "signal"
  /\ UNCHANGED <<managerVars, status, running, dataVars, conc, r4, faults, signals>>

SendUsr1 ==
  /\ client = "signal"
  /\ ManagerAlive
  /\ Usr1
  /\ client' = "wait"
  /\ UNCHANGED <<generation, masterPid, vllmPid, requestId, traps, status,
                 request, running, dataVars, conc, asked, r4, faults, signals>>

\* Mutant: any ready status is taken for the answer.
SeeAnyReady ==
  /\ client = "wait"
  /\ ManagerAlive
  /\ ReadyNow
  /\ client' = "recover"
  /\ UNCHANGED <<managerVars, status, request, running, dataVars, conc, asked, r4,
                 faults, signals>>

\* The status is ready, for this request and in the next generation.
SeeRestarted ==
  /\ client = "wait"
  /\ ManagerAlive
  /\ IsReady(asked.generation + 1)
  /\ status.id = conc
  /\ client' = "recover"
  /\ UNCHANGED <<managerVars, status, request, running, dataVars, conc, asked, r4,
                 faults, signals>>

\* Still ready, DRAM empty and everything on the SSD found again, for a while.
SeeRecovered ==
  /\ client = "recover"
  /\ ManagerAlive
  /\ IsReady(asked.generation + 1)
  /\ Serves(generation)
  /\ asked.index \subseteq index /\ dram = {}
  /\ client' = "r4"
  /\ UNCHANGED <<managerVars, status, request, running, dataVars, conc, asked, r4,
                 faults, signals>>

\* R4 of every batch, result and session; the next concurrency or the end.
RunR4 ==
  /\ client = "r4"
  /\ Serves(generation)
  /\ r4' = r4 \cup {conc}
  /\ asked' = NoQuestion
  /\ IF conc < Concurrencies
     THEN conc' = conc + 1 /\ client' = "begin"
     ELSE UNCHANGED conc /\ client' = "exit"
  /\ UNCHANGED <<managerVars, status, request, running, dataVars, faults, signals>>

\* What each part of the run fails on: a runtime that does not answer, a
\* manager that is gone, a status that is not the one waited for.
Fails ==
  \/ client = "begin" /\ conc > 1 /\ ~Verified
  \/ client \in {"stages", "settle", "r4"} /\ ~Serves(generation)
  \/ client = "settle" /\ ~(ManagerAlive /\ ReadyNow)
  \/ client = "signal" /\ ~ManagerAlive
  \/ client = "wait" /\ \/ ~ManagerAlive
                        \/ status = NoFile
                        \/ status.state = "failed" /\ status.id = conc
  \/ client = "recover" /\ ~(ManagerAlive /\ IsReady(asked.generation + 1))

Fail ==
  /\ Fails
  /\ client' = "exit"
  /\ UNCHANGED <<managerVars, status, request, running, dataVars, conc, asked, r4,
                 faults, signals>>

\* Ctrl-C in window two, or a deadline of the run that passes too early.
Interrupted ==
  /\ client \notin {"exit", "end"}
  /\ client = "begin" => conc > 1
  /\ signals < MaxSignals
  /\ signals' = signals + 1
  /\ client' = "exit"
  /\ UNCHANGED <<managerVars, status, request, running, dataVars, conc, asked, r4, faults>>

\* cleanup_started_runtime, the EXIT trap of the run.
Exit ==
  /\ client = "exit"
  /\ IF CleanupAfterRun /\ ManagerAlive THEN Terminate ELSE UNCHANGED manager
  /\ client' = "end"
  /\ UNCHANGED <<generation, masterPid, vllmPid, requestId, restartRequested, traps,
                 status, request, running, dataVars, conc, asked, r4,
                 faults, signals>>

Client ==
  \/ Begin \/ RunStages \/ WriteRequest \/ SendUsr1 \/ SeeRestarted \/ SeeRecovered
  \/ RunR4 \/ Fail \/ Exit

-----------------------------------------------------------------------------
Init ==
  /\ manager = "start"
  /\ generation = 1
  /\ masterPid = 0 /\ vllmPid = 0
  /\ requestId = 0
  /\ restartRequested = "0"
  /\ traps = "set"
  /\ status = NoFile
  /\ request = Nothing
  /\ running = {}
  /\ sessionDir = "present"
  /\ ssd = {} /\ dram = {} /\ index = {}
  /\ client = "begin" /\ conc = 1 /\ asked = NoQuestion /\ r4 = {}
  /\ faults = 0 /\ signals = 0

Next ==
  \/ Manager \/ StartTimesOut \/ OperatorStops
  \/ \E p \in running : Crash(p)
  \/ \E d \in Item : ReachSsd(d)
  \/ Client \/ Interrupted

\* Both scripts run on, and Mooncake writes what it has to write.  Nothing
\* has to crash, to time out or to be interrupted.
Fairness ==
  /\ WF_vars(Manager)
  /\ WF_vars(Client)
  /\ WF_vars(\E d \in Item : ReachSsd(d))

Spec == Init /\ [][Next]_vars
FairSpec == Spec /\ Fairness

-----------------------------------------------------------------------------
(* Properties *)

Files == [state : {"starting", "ready", "restarting", "failed", "stopping"},
          generation : 1..(Concurrencies + 1), id : 0..Concurrencies]

ManagerTypes ==
  /\ manager \in {"start", "set master", "wait master", "set vllm", "wait vllm",
                  "loop", "handle", "stop vllm", "stop master", "cleanup", "delete", "gone", "killed"}
  /\ generation \in 1..(Concurrencies + 1)
  /\ masterPid \in {0, generation} /\ vllmPid \in {0, generation}
  /\ requestId \in 0..Concurrencies
  /\ restartRequested \in {"0", "1"} /\ traps \in {"set", "reset"}

FileTypes ==
  /\ status \in Files \cup {NoFile}
  /\ request \in [generation : 1..Concurrencies, id : Item] \cup {Nothing}

Processes == {master(g) : g \in 1..generation} \cup {vllm(g) : g \in 1..generation}

RuntimeTypes ==
  /\ running \subseteq Processes
  /\ sessionDir \in {"present", "deleted"}
  /\ ssd \subseteq Item /\ dram \subseteq Item /\ index \subseteq Item

ClientTypes ==
  /\ client \in {"begin", "stages", "settle", "signal", "wait", "recover", "r4", "exit", "end"}
  /\ conc \in Item
  /\ asked \in [generation : 0..Concurrencies, index : SUBSET Item]
  /\ r4 \subseteq Item
  /\ faults \in 0..MaxFaults /\ signals \in 0..MaxSignals

\* The variables have their types; above all, a generation is never more than
\* one ahead of the concurrencies the run has.
TypeOK == ManagerTypes /\ FileTypes /\ RuntimeTypes /\ ClientTypes

\* A generation starts only when nothing of an older one runs any more: two
\* masters or two vLLMs would share the ports, the NPU and the SSD directory.
OneGeneration == \A p, q \in running : p[2] = q[2]

\* "ready" in the status file is true until something crashes: the runtime of
\* that generation runs and nothing else does, through restarts and cleanup.
ReadyMeansRunning ==
  ReadyNow /\ faults = 0 =>
    running = {master(status.generation), vllm(status.generation)}

\* When the run takes the status for the answer to its request, the restart it
\* asked for has been done: new processes, DRAM empty, everything that was on
\* the SSD still there ("stop vLLM and mooncake_master, preserve the session").
RestartAnswerTrue ==
  client = "recover" /\ ReadyNow /\ faults = 0 =>
    /\ generation = asked.generation + 1
    /\ running = {master(generation), vllm(generation)}
    /\ dram = {}
    /\ sessionDir = "present" /\ asked.index \subseteq ssd

\* No request of the run is refused: the flag is cleared before the file is
\* read and the generation is published with "ready", so that neither an old
\* signal nor an old generation meets a new request.
NoRejection == status.state # "failed"

\* A manager that ends by itself, after a crash, a start timeout or the TERM
\* of a run that is over, leaves no process and no SSD cache.
TidyUnlessInterrupted ==
  manager = "gone" /\ signals = 0 => running = {} /\ sessionDir = "deleted"

\* However the manager ends, it has stopped the runtime and deleted the SSD
\* session directory (as the design document says of a run that succeeds,
\* fails or is interrupted, and of ending window one).
CleanAtExit == ~ManagerAlive => running = {} /\ sessionDir = "deleted"

\* A run that waits for its restart learns the outcome without its deadline.
RestartAnswered == client = "wait" ~> client # "wait"

\* Undisturbed, every concurrency gets its R4 and everything is released.
RunCompletes ==
  <>(\/ faults + signals > 0
     \/ /\ r4 = Item /\ client = "end"
        /\ CleanupAfterRun => manager = "gone" /\ running = {} /\ sessionDir = "deleted")
=============================================================================
