----------------------------- MODULE MCDataEngine -----------------------------
(* The io_uring engine with blocks that TLC may permute per direction.     *)
EXTENDS DataEngine, TLC

BlockSymmetry == Permutations(Loads) \cup Permutations(Stores)
=============================================================================
