---------------------------- MODULE MCTracedLoad ----------------------------
(* TracedLoad for TLC: prompts of two blocks and of one. *)
EXTENDS TracedLoad

MCTokens == [r \in Request |-> IF r = "r1" THEN 4 ELSE 2]
=============================================================================
