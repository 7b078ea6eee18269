------------------------------ MODULE MissDelay ------------------------------
(***************************************************************************)
(* The switch delay_miss_one_step of the adapter (vllm_tier.py:142-152,    *)
(* 214-229): the first miss of a request for a key is answered None, and   *)
(* False only after the scheduling step has ended.  The ledger underneath  *)
(* is KeyLifecycle, which goes on between two lookups of a step.           *)
(*                                                                         *)
(* Definitions whose name ends in Bug are slips the properties are tested  *)
(* against.                                                                *)
(***************************************************************************)
EXTENDS Naturals

CONSTANTS
  Keys,      \* block hashes
  Requests,  \* request ids, each used once
  MaxStores  \* stores of the environment; bounds the model

ASSUME MaxStoresAssumption == MaxStores \in Nat

VARIABLES
  key,       \* the ledger, see KeyLifecycle
  stores,    \* number of stores so far
  missesSeen,   \* _misses_seen_this_step
  missesReady,  \* _misses_ready
  running,   \* requests the scheduler still looks up
  answer,    \* history: the last answer for each request and key
  firstMiss  \* history: when the ledger first had a miss: "never", in this
             \* step ("now"), or in an "earlier" one

Ledger == INSTANCE KeyLifecycle

Pairs == Requests \X Keys

misses  == <<missesSeen, missesReady>>
history == <<answer, firstMiss>>
vars    == <<key, stores, misses, running, history>>

Init ==
  /\ Ledger!Init
  /\ stores = 0
  /\ missesSeen = {} /\ missesReady = {}
  /\ running = Requests
  /\ answer = [p \in Pairs |-> "unasked"]
  /\ firstMiss = [p \in Pairs |-> "never"]

-----------------------------------------------------------------------------
LedgerLookup(k) == CASE key[k] = "resident" -> "hit"
                     [] key[k] = "inflight" -> "retry"
                     [] key[k] = "miss"     -> "miss"

(* What a miss of the ledger is answered.                                  *)
MissAnswer(p) == IF p \in missesReady THEN "miss" ELSE "retry"

(* lookup of a key the ledger knows, and of one it misses.                 *)
LookupKnown(p) ==
  /\ p[1] \in running
  /\ LedgerLookup(p[2]) # "miss"
  /\ answer' = [answer EXCEPT ![p] = LedgerLookup(p[2])]
  /\ UNCHANGED <<key, stores, misses, running, firstMiss>>

LookupMiss(p) ==
  /\ p[1] \in running
  /\ LedgerLookup(p[2]) = "miss"
  /\ answer' = [answer EXCEPT ![p] = MissAnswer(p)]
  /\ missesSeen' = IF MissAnswer(p) = "retry" THEN missesSeen \cup {p} ELSE missesSeen
  /\ firstMiss' = [firstMiss EXCEPT ![p] = IF @ = "never" THEN "now" ELSE @]
  /\ UNCHANGED <<key, stores, missesReady, running>>

(* The scheduler no longer asks for a request that finished.               *)
Without(s, r) == {p \in s : p[1] # r}

OnRequestFinished(r) ==
  /\ r \in running
  /\ missesSeen' = Without(missesSeen, r)
  /\ missesReady' = Without(missesReady, r)
  /\ running' = running \ {r}
  /\ UNCHANGED <<key, stores, history>>

OnScheduleEndLateBug ==    \* a miss waits for the end of two steps
  /\ missesReady' = missesReady \cup {p \in missesSeen : firstMiss[p] = "earlier"}
  /\ missesSeen' = {p \in missesSeen : firstMiss[p] = "now"}
  /\ firstMiss' = [p \in Pairs |-> IF firstMiss[p] = "now" THEN "earlier" ELSE firstMiss[p]]
  /\ UNCHANGED <<key, stores, running, answer>>

OnScheduleEndBug ==        \* keeps only the misses of the step that ends
  /\ missesReady' = missesSeen
  /\ missesSeen' = {}
  /\ firstMiss' = [p \in Pairs |-> IF firstMiss[p] = "now" THEN "earlier" ELSE firstMiss[p]]
  /\ UNCHANGED <<key, stores, running, answer>>

OnScheduleEnd ==
  /\ missesReady' = missesReady \cup missesSeen
  /\ missesSeen' = {}
  /\ firstMiss' = [p \in Pairs |-> IF firstMiss[p] = "now" THEN "earlier" ELSE firstMiss[p]]
  /\ UNCHANGED <<key, stores, running, answer>>

(* The ledger moves on as jobs are submitted and complete.                 *)
LedgerStores ==
  /\ stores < MaxStores
  /\ stores' = stores + 1
  /\ \E new \in SUBSET Keys : Ledger!Reserve(new)
  /\ UNCHANGED <<misses, running, history>>

LedgerMoves ==
  /\ \/ \E k \in Keys, ok \in BOOLEAN : Ledger!Settle(k, ok)
     \/ \E k \in Keys : Ledger!Drop(k)
     \/ Ledger!Clear
  /\ UNCHANGED <<stores, misses, running, history>>

Next ==
  \/ \E p \in Pairs : LookupKnown(p) \/ LookupMiss(p)
  \/ \E r \in Requests : OnRequestFinished(r)
  \/ OnScheduleEnd
  \/ LedgerStores \/ LedgerMoves

Spec == Init /\ [][Next]_vars

(* Scheduling steps go on, each looks up the keys of the requests that     *)
(* wait, and in-flight stores settle.                                      *)
Fairness ==
  /\ WF_vars(OnScheduleEnd)
  /\ \A p \in Pairs : WF_vars(LookupKnown(p) \/ LookupMiss(p))
  /\ \A k \in Keys :
       WF_vars((\E ok \in BOOLEAN : Ledger!Settle(k, ok))
               /\ UNCHANGED <<stores, misses, running, history>>)

FairSpec == Spec /\ Fairness

-----------------------------------------------------------------------------
(* Properties                                                              *)

(* Nothing is kept for a request that finished, whichever step its misses  *)
(* belong to.                                                              *)
OnlyRunningRequests ==
  \A p \in missesSeen \cup missesReady : p[1] \in running

(* A miss observed first in one step is visible in the next one, neither   *)
(* sooner nor later, for each request on its own (on_schedule_end's doc),  *)
(* whatever the ledger and the other requests did in between.  It is about *)
(* the answer a lookup gets in this state, not about a step that changes   *)
(* the last answer: a second "retry" in a row changes nothing.             *)
MissVisibleNextStep ==
  \A p \in Pairs : p[1] \in running =>
    MissAnswer(p) = IF firstMiss[p] = "earlier" THEN "miss" ELSE "retry"

(* A request that is told to retry gets an answer, or finishes.            *)
RetrySettles ==
  \A p \in Pairs :
    answer[p] = "retry" ~> answer[p] \in {"hit", "miss"} \/ p[1] \notin running
=============================================================================
