----------------------------- MODULE MCStorePath -----------------------------
(* StorePath for TLC: requests, workers and state blocks are interchangeable. *)
EXTENDS StorePath, TLC

Symmetry == Permutations(Request) \cup Permutations(Worker) \cup Permutations(Block)
=============================================================================
