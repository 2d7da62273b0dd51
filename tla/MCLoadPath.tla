----------------------------- MODULE MCLoadPath -----------------------------
(* LoadPath for TLC: a prompt of two whole blocks and one that ends within  *)
(* its third block; blocks are interchangeable.                             *)
EXTENDS LoadPath, TLC

MCTokens == [r \in Request |-> IF r = "r1" THEN 4 ELSE 5]
Symmetry == Permutations(Block)
=============================================================================
