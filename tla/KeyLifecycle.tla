---------------------------- MODULE KeyLifecycle ----------------------------
(***************************************************************************)
(* What lookup shows a scheduler of the control plane: each key is a miss, *)
(* in flight or resident, and there is no way from one of these to another *)
(* but the ones below.  ControlPlane is shown to implement this, MissDelay *)
(* is built on it.                                                         *)
(***************************************************************************)
CONSTANT Keys   \* block hashes

VARIABLE key   \* the state of each key


In(s) == {k \in Keys : key[k] = s}

Init == key = [k \in Keys |-> "miss"]

(* A store job reserves all its new keys at once.                          *)
Reserve(new) ==
  /\ new # {} /\ new \subseteq In("miss")
  /\ key' = [k \in Keys |-> IF k \in new THEN "inflight" ELSE key[k]]

(* The keys of a job settle one by one, each by its own result.            *)
Settle(k, ok) ==
  /\ key[k] = "inflight"
  /\ key' = [key EXCEPT ![k] = IF ok THEN "resident" ELSE "miss"]

(* A failed load takes the key out of the cache.                           *)
Drop(k) ==
  /\ key[k] = "resident"
  /\ key' = [key EXCEPT ![k] = "miss"]

Clear ==
  /\ In("inflight") = {}
  /\ key' = [k \in Keys |-> "miss"]

Next ==
  \/ \E new \in SUBSET Keys : Reserve(new)
  \/ \E k \in Keys, ok \in BOOLEAN : Settle(k, ok)
  \/ \E k \in Keys : Drop(k)
  \/ Clear

Spec == Init /\ [][Next]_key
=============================================================================
