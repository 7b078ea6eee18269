---------------------------- MODULE MCControlPlane ----------------------------
(* The control plane with keys that TLC may permute.                       *)
EXTENDS ControlPlane, TLC

KeySymmetry == Permutations(Keys)
=============================================================================
