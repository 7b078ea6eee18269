--------------------------- MODULE BlockIoContract ---------------------------
(***************************************************************************)
(* What the tier's adapter relies on in a data engine, whichever engine    *)
(* does the I/O: the contract manager.py:26-27 trusts, the interface of    *)
(* csrc/data_engine.h and csrc/blocking_data_engine.h.                     *)
(*                                                                         *)
(* A submitted block is owed a completion, becomes ready once, and is      *)
(* delivered once.  TierManager is built on these actions; DataEngine is   *)
(* shown to implement the specification.                                   *)
(***************************************************************************)
CONSTANT Tasks   \* the blocks a caller may submit, each once

VARIABLES
  status,   \* where each block is on its way through the engine
  outcome,  \* result of a block's I/O, FALSE until it is known
  closed    \* no submission is accepted any more

vars == <<status, outcome, closed>>

In(s) == {t \in Tasks : status[t] = s}

Init ==
  /\ status = [t \in Tasks |-> "new"]
  /\ outcome = [t \in Tasks |-> FALSE]
  /\ closed = FALSE

(* A submission; a full queue answers at once with a failed completion.    *)
Submit(new, refused) ==
  /\ ~closed
  /\ new \subseteq In("new") /\ refused \subseteq new
  /\ status' = [t \in Tasks |-> IF t \in refused THEN "ready"
                                ELSE IF t \in new THEN "owed" ELSE status[t]]
  /\ UNCHANGED <<outcome, closed>>

Complete(t, ok) ==
  /\ status[t] = "owed"
  /\ status' = [status EXCEPT ![t] = "ready"]
  /\ outcome' = [outcome EXCEPT ![t] = ok]
  /\ UNCHANGED closed

Handed == [t \in Tasks |-> IF status[t] = "ready" THEN "delivered" ELSE status[t]]

Poll ==
  /\ In("ready") # {}
  /\ status' = Handed
  /\ UNCHANGED <<outcome, closed>>

Close ==
  /\ closed' = TRUE
  /\ UNCHANGED <<status, outcome>>

Next ==
  \/ \E t \in Tasks, full \in BOOLEAN : Submit({t}, IF full THEN {t} ELSE {})
  \/ \E t \in Tasks, ok \in BOOLEAN : Complete(t, ok)
  \/ Poll
  \/ Close

Fairness == \A t \in Tasks : WF_vars(\E ok \in BOOLEAN : Complete(t, ok))

Spec == Init /\ [][Next]_vars
FairSpec == Spec /\ Fairness
=============================================================================
