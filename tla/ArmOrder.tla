------------------------------- MODULE ArmOrder -------------------------------
(***************************************************************************)
(* The order in which run_microbenchmark_ablation.py runs its arms: each   *)
(* repetition starts one arm later, so that neither a warm disk nor a warm *)
(* machine favours an arm.  Operators only, with theorems in module        *)
(* Benchmark_proofs; arms, positions and repetitions are counted from 0,   *)
(* as in the script.                                                       *)
(***************************************************************************)
EXTENDS Integers

ArmIndices(arms) == 0 .. (arms - 1)

(* ARMS[offset:] + ARMS[:offset], by the index of the arm at a position.   *)
Offset(arms, repetition) == repetition % arms
ArmAt(arms, repetition, position) ==
  IF position < arms - Offset(arms, repetition)
  THEN position + Offset(arms, repetition)
  ELSE position - (arms - Offset(arms, repetition))
================================================================================
