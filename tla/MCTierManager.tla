---------------------------- MODULE MCTierManager ----------------------------
(* The adapter over a small ledger with keys that TLC may permute.         *)
EXTENDS TierManager, TLC

KeySymmetry == Permutations(Keys)
=============================================================================
