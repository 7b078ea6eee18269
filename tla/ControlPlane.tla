----------------------------- MODULE ControlPlane -----------------------------
(***************************************************************************)
(* The control plane of the tier: UringSlabControlPlane in                 *)
(* src/uring_slab_tier/manager.py.  It is a ledger used by one scheduler   *)
(* thread; it hands out slab slots, issues one block per (job, key) to the *)
(* data engine and aggregates the block completions into job results.      *)
(*                                                                         *)
(* The engine is the environment of this module and appears as the set     *)
(* outstanding: every issued block completes exactly once, in any order    *)
(* and with either result (manager.py:26-27).  DataEngine and TierManager  *)
(* discharge that assumption.                                              *)
(*                                                                         *)
(* A Python exception leaves the ledger as it was, so a call that raises   *)
(* is a step that is not enabled; NoCompletionRaises states that the one   *)
(* call the upper layer cannot avoid never does.                           *)
(***************************************************************************)
EXTENDS Integers, FiniteSets, Functions, Sequences

CONSTANTS
  Keys,          \* block hashes the upper layer may name
  SlotCapacity,  \* slots of the slab
  MaxJobs        \* jobs the upper layer submits; bounds the model

ASSUME KeysAssumption == IsFiniteSet(Keys)
ASSUME SlotCapacityAssumption == SlotCapacity \in Nat \ {0}
ASSUME MaxJobsAssumption == MaxJobs \in Nat

VARIABLES
  key2slot,      \* resident keys: their slot, or NoSlot
  key2inflight,  \* keys whose store is in flight: their slot, or NoSlot
  nextSlot,      \* the allocation cursor _next_slot_id
  live,          \* ids in _jobs: admitted and not yet handed out
  direction, remaining, success,      \* the _JobState of each job
  storeFailed, loadFailed, capacityRejected,  \* the three failure counters
  nextJob,       \* the upper layer generates job ids monotonically
  outstanding,   \* blocks the engine owes a completion for
  cause,         \* history: why a job failed first, "none" while it has not
  results        \* history: the results handed out for each job

ledger   == <<key2slot, key2inflight, nextSlot>>
jobState == <<direction, remaining, success>>
counters == <<storeFailed, loadFailed, capacityRejected>>
vars == <<ledger, live, jobState, counters, nextJob, outstanding, cause, results>>

NoSlot == -1
Slots  == 0 .. SlotCapacity - 1
JobIds == 1 .. MaxJobs
Block  == [job : JobIds, key : Keys, slot : Slots]
Causes == {"none", "inflight", "capacity", "stale", "io"}

Resident == {k \in Keys : key2slot[k] # NoSlot}
InFlight == {k \in Keys : key2inflight[k] # NoSlot}

-----------------------------------------------------------------------------
(* The three answers of lookup: True, None and False.                      *)
Lookup(k) == IF k \in Resident THEN "hit"
             ELSE IF k \in InFlight THEN "retry" ELSE "miss"

(* Conditions of the submit calls.  A definition whose name ends in Bug is *)
(* a plausible slip in the definition after it; the properties are tested  *)
(* against these.                                                          *)
InFlightDuplicateBug(keys) == FALSE
CapacityExceededBug(n)     == nextSlot + n > SlotCapacity + 1

InFlightDuplicate(keys)  == keys \cap InFlight # {}
NewKeys(keys)            == keys \ Resident
CapacityExceeded(n)      == nextSlot + n > SlotCapacity
NotAllResident(keys)     == \E k \in keys : k \notin Resident

Init ==
  /\ key2slot = [k \in Keys |-> NoSlot]
  /\ key2inflight = [k \in Keys |-> NoSlot]
  /\ nextSlot = 0
  /\ live = {}
  /\ direction = [j \in JobIds |-> "store"]
  /\ remaining = [j \in JobIds |-> 0]
  /\ success = [j \in JobIds |-> TRUE]
  /\ storeFailed = 0 /\ loadFailed = 0 /\ capacityRejected = 0
  /\ nextJob = 1
  /\ outstanding = {}
  /\ cause = [j \in JobIds |-> "none"]
  /\ results = [j \in JobIds |-> <<>>]

(* The ledger entry every submit call creates: n blocks still to complete, *)
(* ok FALSE for a job refused locally.                                     *)
NewJob(j, dir, n, ok, why) ==
  /\ live' = live \cup {j}
  /\ direction' = [direction EXCEPT ![j] = dir]
  /\ remaining' = [remaining EXCEPT ![j] = n]
  /\ success' = [success EXCEPT ![j] = ok]
  /\ cause' = [cause EXCEPT ![j] = why]
  /\ nextJob' = nextJob + 1
  /\ UNCHANGED results

(* _admit: the upper layer keeps the frozen contract, a fresh id and a     *)
(* non-empty list of distinct keys.                                        *)
Admit(j, keys) ==
  /\ j \in JobIds /\ j = nextJob /\ j \notin live
  /\ keys \in SUBSET Keys /\ keys # {}

StoreDuplicate(j, keys) ==
  /\ Admit(j, keys)
  /\ InFlightDuplicate(keys)
  /\ NewJob(j, "store", 0, FALSE, "inflight")
  /\ storeFailed' = storeFailed + 1
  /\ UNCHANGED <<ledger, loadFailed, capacityRejected, outstanding>>

StoreRejected(j, keys) ==
  /\ Admit(j, keys)
  /\ ~InFlightDuplicate(keys)
  /\ CapacityExceeded(Cardinality(NewKeys(keys)))
  /\ NewJob(j, "store", 0, FALSE, "capacity")
  /\ capacityRejected' = capacityRejected + 1
  /\ UNCHANGED <<ledger, storeFailed, loadFailed, outstanding>>

(* The assignments handed to the engine, one block per key.                *)
BlocksFor(j, keys, slot) ==
  {[job |-> j, key |-> k, slot |-> slot[k]] : k \in keys}

(* The new keys take consecutive slots in the order the job lists them;    *)
(* a job is a set here, so the order is any.  With no new key the job      *)
(* is a success that waits to be collected.                                *)
AssignmentsBug(new) ==         \* forgets the cursor
  Bijection(new, 0 .. Cardinality(new) - 1)

Assignments(new) ==
  Bijection(new, nextSlot .. nextSlot + Cardinality(new) - 1)

StoreAccepted(j, keys) ==
  /\ Admit(j, keys)
  /\ ~InFlightDuplicate(keys)
  /\ LET new == NewKeys(keys)
         n   == Cardinality(new)
     IN /\ ~CapacityExceeded(n)
        /\ \E slot \in Assignments(new) :
             /\ key2inflight' = [k \in Keys |-> IF k \in new THEN slot[k]
                                                ELSE key2inflight[k]]
             /\ outstanding' = outstanding \cup BlocksFor(j, new, slot)
        /\ nextSlot' = nextSlot + n
        /\ NewJob(j, "store", n, TRUE, "none")
  /\ UNCHANGED <<key2slot, counters>>

SubmitStore(j, keys) ==
  StoreDuplicate(j, keys) \/ StoreRejected(j, keys) \/ StoreAccepted(j, keys)

LoadRefused(j, keys) ==
  /\ Admit(j, keys)
  /\ NotAllResident(keys)
  /\ NewJob(j, "load", 0, FALSE, "stale")
  /\ loadFailed' = loadFailed + 1
  /\ UNCHANGED <<ledger, storeFailed, capacityRejected, outstanding>>

LoadAccepted(j, keys) ==
  /\ Admit(j, keys)
  /\ ~NotAllResident(keys)
  /\ NewJob(j, "load", Cardinality(keys), TRUE, "none")
  /\ outstanding' = outstanding \cup BlocksFor(j, keys, key2slot)
  /\ UNCHANGED <<ledger, counters>>

SubmitLoad(j, keys) == LoadRefused(j, keys) \/ LoadAccepted(j, keys)

-----------------------------------------------------------------------------
(* complete_block                                                          *)

(* The four checks that raise InvariantViolationError.                     *)
Raises(b, ok) ==
  \/ b.job \notin live
  \/ remaining[b.job] <= 0
  \/ direction[b.job] = "store" /\ b.key \notin InFlight
  \/ direction[b.job] = "store" /\ ok /\ b.key \in Resident

MarkJobFailedRecountsBug(j) ==
  /\ success' = [success EXCEPT ![j] = FALSE]
  /\ storeFailed' = storeFailed + (IF direction[j] = "store" THEN 1 ELSE 0)
  /\ loadFailed' = loadFailed + (IF direction[j] = "load" THEN 1 ELSE 0)

MarkJobFailedKeepsSuccessBug(j) ==
  /\ storeFailed' = storeFailed + (IF direction[j] = "store" THEN 1 ELSE 0)
  /\ loadFailed' = loadFailed + (IF direction[j] = "load" THEN 1 ELSE 0)
  /\ UNCHANGED success

(* _mark_job_failed counts a job when its first block fails.               *)
MarkJobFailed(j) ==
  /\ success' = [success EXCEPT ![j] = FALSE]
  /\ storeFailed' = storeFailed +
       (IF success[j] /\ direction[j] = "store" THEN 1 ELSE 0)
  /\ loadFailed' = loadFailed +
       (IF success[j] /\ direction[j] = "load" THEN 1 ELSE 0)

StoreCompletesBug(b, ok) ==    \* a failed store stays in flight
  /\ direction[b.job] = "store"
  /\ IF ok
     THEN /\ key2inflight' = [key2inflight EXCEPT ![b.key] = NoSlot]
          /\ key2slot' = [key2slot EXCEPT ![b.key] = key2inflight[b.key]]
          /\ UNCHANGED <<success, storeFailed, loadFailed>>
     ELSE MarkJobFailed(b.job) /\ UNCHANGED <<key2slot, key2inflight>>

StoreCompletesAnywayBug(b, ok) ==   \* publishes a failed store
  /\ direction[b.job] = "store"
  /\ key2inflight' = [key2inflight EXCEPT ![b.key] = NoSlot]
  /\ key2slot' = [key2slot EXCEPT ![b.key] = key2inflight[b.key]]
  /\ IF ok THEN UNCHANGED <<success, storeFailed, loadFailed>>
     ELSE MarkJobFailed(b.job)

StoreCompletesLingersBug(b, ok) ==  \* leaves a published key in flight
  /\ direction[b.job] = "store"
  /\ IF ok
     THEN /\ key2slot' = [key2slot EXCEPT ![b.key] = key2inflight[b.key]]
          /\ UNCHANGED <<key2inflight, success, storeFailed, loadFailed>>
     ELSE /\ MarkJobFailed(b.job)
          /\ key2inflight' = [key2inflight EXCEPT ![b.key] = NoSlot]
          /\ UNCHANGED key2slot

StoreCompletes(b, ok) ==
  /\ direction[b.job] = "store"
  /\ key2inflight' = [key2inflight EXCEPT ![b.key] = NoSlot]
  /\ IF ok
     THEN /\ key2slot' = [key2slot EXCEPT ![b.key] = key2inflight[b.key]]
          /\ UNCHANGED <<success, storeFailed, loadFailed>>
     ELSE /\ MarkJobFailed(b.job)
          /\ UNCHANGED key2slot

LoadCompletesBug(b, ok) ==     \* a load consumes the resident copy
  /\ direction[b.job] = "load"
  /\ key2slot' = [key2slot EXCEPT ![b.key] = NoSlot]
  /\ IF ok THEN UNCHANGED <<success, storeFailed, loadFailed>>
     ELSE MarkJobFailed(b.job)
  /\ UNCHANGED key2inflight

LoadCompletes(b, ok) ==
  /\ direction[b.job] = "load"
  /\ IF ok
     THEN UNCHANGED <<key2slot, success, storeFailed, loadFailed>>
     ELSE /\ MarkJobFailed(b.job)
          /\ key2slot' = [key2slot EXCEPT ![b.key] = NoSlot]
  /\ UNCHANGED key2inflight

CompleteBlock(b, ok) ==
  /\ b \in outstanding
  /\ ~Raises(b, ok)
  /\ StoreCompletes(b, ok) \/ LoadCompletes(b, ok)
  /\ remaining' = [remaining EXCEPT ![b.job] = @ - 1]
  /\ outstanding' = outstanding \ {b}
  /\ cause' = [cause EXCEPT ![b.job] = IF ~ok /\ @ = "none" THEN "io" ELSE @]
  /\ UNCHANGED <<nextSlot, live, direction, capacityRejected, nextJob, results>>

FinishedEarlyBug == {j \in live : remaining[j] <= 1}

Finished == {j \in live : remaining[j] = 0}

(* A poll that finds nothing finished changes nothing.                     *)
GetFinishedJobs ==
  /\ Finished # {}
  /\ live' = live \ Finished
  /\ results' = [j \in JobIds |-> IF j \in Finished
                                  THEN Append(results[j], success[j])
                                  ELSE results[j]]
  /\ UNCHANGED <<ledger, jobState, counters, nextJob, outstanding, cause>>

QuiescentBug == InFlight = {}
Quiescent == InFlight = {} /\ live = {}

ClearResidency ==
  /\ Quiescent
  /\ key2slot' = [k \in Keys |-> NoSlot]
  /\ nextSlot' = 0
  /\ UNCHANGED <<key2inflight, live, jobState, counters, nextJob, outstanding,
                 cause, results>>

Next ==
  \/ \E j \in JobIds, keys \in SUBSET Keys : SubmitStore(j, keys)
  \/ \E j \in JobIds, keys \in SUBSET Keys : SubmitLoad(j, keys)
  \/ \E b \in outstanding, ok \in BOOLEAN : CompleteBlock(b, ok)
  \/ GetFinishedJobs
  \/ ClearResidency

Spec == Init /\ [][Next]_vars

(* While the adapter is open: the engine completes every block it was      *)
(* given; the scheduler polls get_finished_jobs in every step              *)
(* (vllm_tier.py:197-204).  TierManager says when it is open.              *)
Fairness ==
  /\ \A j \in JobIds :
       WF_vars(\E b \in outstanding, ok \in BOOLEAN :
                 b.job = j /\ CompleteBlock(b, ok))
  /\ WF_vars(GetFinishedJobs)

-----------------------------------------------------------------------------
(* Properties                                                              *)

BlocksOf(j) == {b \in outstanding : b.job = j}
StoreBlocks == {b \in outstanding : direction[b.job] = "store"}

(* Types of the ledger; the cursor never passes the end of the slab.       *)
TypeOK ==
  /\ key2slot \in [Keys -> Slots \cup {NoSlot}]
  /\ key2inflight \in [Keys -> Slots \cup {NoSlot}]
  /\ nextSlot \in 0 .. SlotCapacity
  /\ live \subseteq JobIds
  /\ direction \in [JobIds -> {"store", "load"}]
  /\ remaining \in [JobIds -> Nat]
  /\ success \in [JobIds -> BOOLEAN]
  /\ storeFailed \in Nat /\ loadFailed \in Nat /\ capacityRejected \in Nat
  /\ nextJob \in 1 .. MaxJobs + 1
  /\ outstanding \subseteq Block
  /\ cause \in [JobIds -> Causes]
  /\ results \in [JobIds -> Seq(BOOLEAN)]

(* A key is never resident and in flight at once, and no slot belongs to   *)
(* two keys, whatever failed before: a slot lost by a failed store is not  *)
(* given to another key while any mapping of its generation is alive.      *)
SlotsDistinct ==
  /\ Resident \cap InFlight = {}
  /\ \A k, l \in Keys :
       /\ key2slot[k] # NoSlot => key2slot[k] # key2inflight[l]
       /\ k # l /\ key2slot[k] # NoSlot => key2slot[k] # key2slot[l]
       /\ k # l /\ key2inflight[k] # NoSlot => key2inflight[k] # key2inflight[l]

(* Each slot in use lies below the cursor, so the next job cannot take it. *)
SlotsBelowCursor ==
  /\ \A k \in Keys : key2slot[k] < nextSlot \/ key2slot[k] = NoSlot
  /\ \A k \in Keys : key2inflight[k] < nextSlot \/ key2inflight[k] = NoSlot
  /\ \A b \in outstanding : b.slot < nextSlot

(* remaining of a job is the number of completions the engine still owes   *)
(* it, so get_finished_jobs hands a job out exactly when its I/O is over.  *)
RemainingIsOwed ==
  /\ \A b \in outstanding : b.job \in live
  /\ \A j \in live : remaining[j] = Cardinality(BlocksOf(j))

(* The slot recorded for an in-flight key is the slot of the store block   *)
(* outstanding for it.  So lookup never answers None for a key       *)
(* nothing will settle, and a store that completes publishes the slot the  *)
(* engine wrote although complete_block is not told the slot.              *)
InFlightIsBacked ==
  /\ \A b \in StoreBlocks : key2inflight[b.key] = b.slot
  /\ \A k \in InFlight : \E b \in StoreBlocks : b.key = k

(* No completion the engine may still report makes complete_block raise.   *)
NoCompletionRaises == \A b \in outstanding, ok \in BOOLEAN : ~Raises(b, ok)

(* The slab slot of a block that is being written is the target of no      *)
(* other block: no load reads a slot under a store, across failures,       *)
(* removals and clear_residency's reuse of slots.                          *)
WritesExclusive ==
  \A b \in StoreBlocks, c \in outstanding : b # c => b.slot # c.slot

(* Every admitted job gets at most one result, not before its last block   *)
(* settled, and the result is True exactly when the job was not refused    *)
(* and none of its blocks failed.                                          *)
ResultsTruthful ==
  \A j \in JobIds :
    /\ Len(results[j]) <= 1
    /\ results[j] # <<>> =>
         /\ j \notin live /\ BlocksOf(j) = {}
         /\ results[j][1] = (cause[j] = "none")

(* The counters a benchmark run is judged by: a failed job is in exactly   *)
(* one of them and is counted once, however many of its blocks failed.     *)
CountersReconcile ==
  LET failed(dir, why) ==
        Cardinality({j \in JobIds : direction[j] = dir /\ cause[j] \in why})
  IN /\ storeFailed = failed("store", {"inflight", "io"})
     /\ loadFailed = failed("load", {"stale", "io"})
     /\ capacityRejected = failed("store", {"capacity"})

(* There is no eviction: a resident key keeps its slot until a load of     *)
(* that key fails or the whole ledger is cleared with no job around.       *)
NoEviction ==
  [][\A k \in Resident :
       key2slot'[k] # key2slot[k] =>
         /\ key2slot'[k] = NoSlot
         /\ \/ Quiescent /\ outstanding = {}
            \/ \E b \in outstanding \ outstanding' :
                 b.key = k /\ direction[b.job] = "load" /\ ~success'[b.job]]_vars

(* To a scheduler that only calls lookup, each key goes through the life   *)
(* cycle of KeyLifecycle: none is lost from a store, comes back without    *)
(* one, or is cleared under a store.                                       *)
Lifecycle == INSTANCE KeyLifecycle WITH
  key <- [k \in Keys |-> CASE Lookup(k) = "hit"   -> "resident"
                           [] Lookup(k) = "retry" -> "inflight"
                           [] Lookup(k) = "miss"  -> "miss"]

ImplementsLifecycle == Lifecycle!Spec

(* manager.py:268 calls the pop of a failed load idempotent: when the      *)
(* mapping the load was issued against is already gone, the pop changes    *)
(* nothing.  It is not so once the key was stored again meanwhile.         *)
FailedLoadPopIdempotent ==
  [][\A b \in outstanding \ outstanding' :
       direction[b.job] = "load" /\ key2slot[b.key] # b.slot
         => key2slot' = key2slot]_vars
=============================================================================
