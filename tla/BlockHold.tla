------------------------------ MODULE BlockHold ------------------------------
(***************************************************************************)
(* What the events of the store path promise, without queues, threads or   *)
(* counters: an event holds its blocks for a set of workers, each of them  *)
(* lets go once, and the event is released only when none is left.         *)
(***************************************************************************)
EXTENDS Integers

CONSTANT Worker

VARIABLES
  issued,   \* events are numbered in the order they are issued
  holders   \* event -> workers that still need its blocks; released: no entry

vars == <<issued, holders>>

Init == issued = 0 /\ holders = [e \in {} |-> {}]

\* A step issues any number of events; every worker needs each of them.
Issue ==
  LET fresh == issued..(issued' - 1) IN
  /\ issued' \in Nat
  /\ issued' > issued
  /\ holders' = [e \in DOMAIN holders \cup fresh |->
                   IF e \in fresh THEN Worker ELSE holders[e]]

\* A worker is through with one event, by whatever way.
LetGo(e, w) ==
  /\ w \in holders[e]
  /\ holders' = [holders EXCEPT ![e] = @ \ {w}]
  /\ UNCHANGED issued

\* Events nobody needs are released, several at a time.
Release(E) ==
  /\ \A e \in E : holders[e] = {}
  /\ holders' = [e \in DOMAIN holders \ E |-> holders[e]]
  /\ UNCHANGED issued

Next ==
  \/ Issue
  \/ \E e \in DOMAIN holders, w \in Worker : LetGo(e, w)
  \/ \E E \in SUBSET DOMAIN holders : Release(E)

Spec == Init /\ [][Next]_vars
=============================================================================
