------------------------ MODULE MCBlockingDataEngine ------------------------
(* The pool with blocks and workers that TLC may permute.                  *)
EXTENDS BlockingDataEngine, TLC

PoolSymmetry ==
  Permutations(Loads) \cup Permutations(Stores) \cup Permutations(Workers)
=============================================================================
