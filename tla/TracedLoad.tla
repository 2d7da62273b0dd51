----------------------------- MODULE TracedLoad -----------------------------
(***************************************************************************)
(* The load path with the instrumentation of the files under trace-source: *)
(* get_num_new_matched_tokens writes a record of the store lookup, and the *)
(* receiving thread one of the load, between the copy and what it does     *)
(* with the return codes.  The writers catch OSError, so that any record   *)
(* may be missing; nothing else may change.  (get_computed_blocks writes   *)
(* one of the prefix lookup, in the same step as that of the store lookup  *)
(* and in the same way.)                                                   *)
(***************************************************************************)
EXTENDS LoadPath

VARIABLES
  lookups,    \* lookups[r]: store lookup records since request r was queued (2 for
              \* many), had each been written
  loads       \* loads[r]: what the record of its load says, until it goes on:
              \* "none", "success" or "failure"

traceVars  == <<lookups, loads>>
tracedVars == <<vars, traceVars>>

\* Mutant: one block that came is enough.
LoadSuccessAny == \E i \in Wanted(job) : job.blocks[i] \notin failed

\* load_success: every code is 0 (and the codes are there).
LoadSuccess == failed = {}

\* get_computed_blocks, then get_num_new_matched_tokens, which looks up
\* prompts of at least one block.
TracedAdmit(r) ==
  /\ AdmitFails(r) \/ AdmitLoad(r) \/ AdmitRun(r)
  /\ lookups' = [lookups EXCEPT ![r] = IF Full(Tokens[r]) = 0 \/ @ = 2 THEN @ ELSE @ + 1]
  /\ loads' = [loads EXCEPT ![r] = "none"]

TracedGet == CopyIn /\ recv' = "trace" /\ UNCHANGED traceVars

\* Mutant: the error of the write ends the handler, and run() swallows it.
TraceLoadRaises ==
  /\ recv = "trace"
  /\ \/ recv' = "report" /\ loads' = [loads EXCEPT ![job.req] = IF LoadSuccess THEN "success" ELSE "failure"]
     \/ recv' = "idle" /\ loads' = loads
  /\ UNCHANGED <<store, hbmVars, status, computed, poolVars, queue, job, failed, invalid,
                 received, dropped, outVars, lookups>>

TraceLoad ==
  /\ recv = "trace" /\ recv' = "report"
  /\ loads' \in {loads, [loads EXCEPT ![job.req] = IF LoadSuccess THEN "success" ELSE "failure"]}
  /\ UNCHANGED <<store, hbmVars, status, computed, poolVars, queue, job, failed, invalid,
                 received, dropped, outVars, lookups>>

TracedThread == TracedGet \/ TraceLoad \/ ((GetRaises \/ Report \/ Finish) /\ UNCHANGED traceVars)
TracedEndStep == EndStep /\ UNCHANGED traceVars

TracedInit ==
  /\ Init
  /\ lookups = [r \in Request |-> 0]
  /\ loads = [r \in Request |-> "none"]

TracedSchedule(r) ==
  \/ TracedAdmit(r)
  \/ Resume(r) /\ loads' = [loads EXCEPT ![r] = "none"] /\ UNCHANGED lookups
  \/ Leave(r) /\ lookups' = [lookups EXCEPT ![r] = 0] /\ UNCHANGED loads

TracedNext ==
  \/ \E r \in Request : TracedSchedule(r)
  \/ TracedThread \/ TracedEndStep
  \/ StoreChanges /\ UNCHANGED traceVars

TracedSpec == TracedInit /\ [][TracedNext]_tracedVars
                         /\ WF_tracedVars(TracedThread) /\ WF_tracedVars(TracedEndStep)
-----------------------------------------------------------------------------
(* Properties *)

\* The instrumented files behave like the original ones: their behaviours,
\* with the records hidden, are behaviours of the original load path, which
\* knows no pause between the copy and the report.
Original == INSTANCE LoadPath WITH recv <- IF recv = "trace" THEN "report" ELSE recv
Transparent == Original!Spec

\* Of a load that is reported, the record says what becomes of the request:
\* success, and every token counts; failure, and it is cut.
RecordTellsLoad ==
  \A r \in received \cup got :
    /\ loads[r] = "success" => r \notin suspect \cup Hurt(invalid)
    /\ loads[r] = "failure" => r \in suspect \cup Hurt(invalid)

\* A request that runs has been looked up in the store once since it was
\* queued (R3-TTFT细分设计.md:137: one lookup record for a valid request).
OneLookupRecord == \A r \in Request : status[r] = "running" => lookups[r] <= 1
=============================================================================
