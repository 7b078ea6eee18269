--------------------------- MODULE MissDelay_proofs ---------------------------
(***************************************************************************)
(* Proofs about MissDelay, for any keys, requests and number of stores:    *)
(* nothing is kept for a finished request, and a miss becomes visible in   *)
(* the step after the one that saw it first.                               *)
(***************************************************************************)
EXTENDS MissDelay, TLAPS

DelayTypeOK ==
  /\ missesSeen \subseteq Pairs /\ missesReady \subseteq Pairs
  /\ firstMiss \in [Pairs -> {"never", "now", "earlier"}]
  /\ answer = [p \in Pairs |-> answer[p]]

(* The two sets of a running request say when its misses were first seen:  *)
(* OnlyRunningRequests alone does not tell what missesReady stands for.    *)
SetsTellTheStep ==
  \A p \in Pairs : p[1] \in running =>
    /\ p \in missesSeen  <=> firstMiss[p] = "now"
    /\ p \in missesReady <=> firstMiss[p] = "earlier"

DelayInv == DelayTypeOK /\ OnlyRunningRequests /\ SetsTellTheStep

(* It holds when the server starts. *)
LEMMA DelayInvInit == Init => DelayInv
  BY DEF Init, DelayInv, DelayTypeOK, OnlyRunningRequests, SetsTellTheStep

(* A lookup that misses files its pair under the current step, once.       *)
LEMMA LookupMissInv ==
  ASSUME DelayInv, NEW p \in Pairs, LookupMiss(p)
  PROVE  DelayInv'
<1> USE DEF DelayInv, LookupMiss, MissAnswer
<1>1. DelayTypeOK'
  BY DEF DelayTypeOK
<1>2. OnlyRunningRequests'
  BY DEF OnlyRunningRequests
<1>3. SetsTellTheStep'
  <2> SUFFICES ASSUME NEW q \in Pairs, q[1] \in running
               PROVE  /\ q \in missesSeen'  <=> firstMiss'[q] = "now"
                      /\ q \in missesReady' <=> firstMiss'[q] = "earlier"
    BY DEF SetsTellTheStep
  <2>1. CASE q # p
    BY <2>1 DEF DelayTypeOK, SetsTellTheStep
  <2>2. CASE q = p
    BY <2>2 DEF DelayTypeOK, SetsTellTheStep
  <2> QED BY <2>1, <2>2
<1> QED BY <1>1, <1>2, <1>3

(* A request that finishes takes its pairs out of both sets.               *)
LEMMA OnRequestFinishedInv ==
  ASSUME DelayInv, NEW r \in Requests, OnRequestFinished(r)
  PROVE  DelayInv'
<1> USE DEF DelayInv, OnRequestFinished, Without, history
<1>1. DelayTypeOK'
  BY DEF DelayTypeOK
<1>2. OnlyRunningRequests'
  BY DEF OnlyRunningRequests
<1>3. SetsTellTheStep'
  BY DEF SetsTellTheStep
<1> QED BY <1>1, <1>2, <1>3

(* The end of a scheduling step makes the misses of the step ready.        *)
LEMMA OnScheduleEndInv ==
  ASSUME DelayInv, OnScheduleEnd
  PROVE  DelayInv'
<1> USE DEF DelayInv, OnScheduleEnd
<1>1. DelayTypeOK'
  BY DEF DelayTypeOK
<1>2. OnlyRunningRequests'
  BY DEF OnlyRunningRequests
<1>3. SetsTellTheStep'
  BY DEF SetsTellTheStep, DelayTypeOK
<1> QED BY <1>1, <1>2, <1>3

(* A step that leaves the two sets and what they mean alone.               *)
LEMMA QuietInv ==
  ASSUME DelayInv, UNCHANGED <<misses, running, firstMiss>>,
         answer' = [p \in Pairs |-> answer'[p]]
  PROVE  DelayInv'
  BY DEF DelayInv, DelayTypeOK, OnlyRunningRequests, SetsTellTheStep, misses

LEMMA DelayInvStep == DelayInv /\ [Next]_vars => DelayInv'
<1> SUFFICES ASSUME DelayInv, [Next]_vars PROVE DelayInv'
  OBVIOUS
<1>1. ASSUME NEW p \in Pairs, LookupKnown(p) PROVE DelayInv'
  BY <1>1, QuietInv DEF LookupKnown, DelayInv, DelayTypeOK
<1>2. ASSUME NEW p \in Pairs, LookupMiss(p) PROVE DelayInv'
  BY <1>2, LookupMissInv
<1>3. ASSUME NEW r \in Requests, OnRequestFinished(r) PROVE DelayInv'
  BY <1>3, OnRequestFinishedInv
<1>4. CASE OnScheduleEnd
  BY <1>4, OnScheduleEndInv
<1>5. CASE LedgerStores \/ LedgerMoves
  BY <1>5, QuietInv DEF LedgerStores, LedgerMoves, history, DelayInv, DelayTypeOK
<1>6. CASE UNCHANGED vars
  BY <1>6, QuietInv DEF vars, history, DelayInv, DelayTypeOK
<1> QED BY <1>1, <1>2, <1>3, <1>4, <1>5, <1>6 DEF Next

(* Nothing is kept for a request that finished, in either set, so the sets *)
(* of delayed misses do not outgrow the running requests.                  *)
THEOREM OnlyRunning == Spec => []OnlyRunningRequests
<1>1. DelayInv => OnlyRunningRequests
  BY DEF DelayInv
<1> QED BY <1>1, DelayInvInit, DelayInvStep, PTL DEF Spec

(* While a request runs, a miss it first had in an earlier step would be   *)
(* answered False now, and one it first has in this step None, however     *)
(* often it asks and whatever the ledger and other requests do             *)
(* (vllm_tier.py:142-152, 225-229).                                        *)
THEOREM MissesVisibleNextStep == Spec => []MissVisibleNextStep
<1>1. DelayInv => MissVisibleNextStep
  BY DEF DelayInv, SetsTellTheStep, MissVisibleNextStep, MissAnswer
<1> QED BY <1>1, DelayInvInit, DelayInvStep, PTL DEF Spec
=============================================================================
