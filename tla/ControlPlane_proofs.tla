------------------------- MODULE ControlPlane_proofs -------------------------
(* Proofs about the control plane for every set of keys, slab capacity and *)
(* number of jobs.                                                         *)
EXTENDS ControlPlane, FiniteSetTheorems, TLAPS

(* The slots a job takes: one each, all from the window above the cursor.  *)
LEMMA AssignmentsWindow ==
  ASSUME TypeOK, NEW new \in SUBSET Keys,
         ~CapacityExceeded(Cardinality(new)), NEW slot \in Assignments(new)
  PROVE  /\ IsFiniteSet(new) /\ Cardinality(new) \in Nat
         /\ slot \in [new -> Slots]
         /\ \A k \in new : nextSlot <= slot[k] /\ slot[k] < nextSlot + Cardinality(new)
         /\ \A k, l \in new : slot[k] = slot[l] => k = l
<1>1. IsFiniteSet(new) /\ Cardinality(new) \in Nat
  BY FS_Subset, FS_CardinalityType, KeysAssumption
<1>2. /\ slot \in [new -> nextSlot .. nextSlot + Cardinality(new) - 1]
      /\ \A k, l \in new : slot[k] = slot[l] => k = l
  BY DEF Assignments, Bijection, Injection, IsInjective
<1>3. nextSlot + Cardinality(new) <= SlotCapacity /\ nextSlot \in Nat
  BY <1>1, SlotCapacityAssumption DEF TypeOK, CapacityExceeded
<1>4. \A k \in new : slot[k] \in Slots
  BY <1>1, <1>2, <1>3, SlotCapacityAssumption DEF Slots
<1>5. slot \in [new -> Slots]
  BY <1>2, <1>4
<1> QED BY <1>1, <1>2, <1>3, <1>5

(* The part of TypeOK every submit call changes in the same way.           *)
JobStateType ==
  /\ live \subseteq JobIds
  /\ direction \in [JobIds -> {"store", "load"}]
  /\ remaining \in [JobIds -> Nat]
  /\ success \in [JobIds -> BOOLEAN]
  /\ cause \in [JobIds -> Causes]
  /\ results \in [JobIds -> Seq(BOOLEAN)]
  /\ nextJob \in 1 .. MaxJobs + 1

(* A job entry of the right type keeps the job state well typed.           *)
LEMMA NewJobType ==
  ASSUME TypeOK, NEW j, NEW keys, Admit(j, keys),
         NEW dir \in {"store", "load"}, NEW n \in Nat, NEW ok \in BOOLEAN,
         NEW why \in Causes, NewJob(j, dir, n, ok, why)
  PROVE  JobStateType'
  BY MaxJobsAssumption DEF TypeOK, Admit, NewJob, JobIds, JobStateType

(* TypeOK is inductive by itself: the capacity test keeps the cursor in the *)
(* slab, and complete_block's checks keep remaining from going below zero. *)
LEMMA StepKeepsTypes ==
  ASSUME TypeOK, [Next]_vars
  PROVE  TypeOK'
<1>1. ASSUME NEW j \in JobIds, NEW keys \in SUBSET Keys, StoreDuplicate(j, keys)
      PROVE  TypeOK'
  <2>1. NewJob(j, "store", 0, FALSE, "inflight") /\ Admit(j, keys)
    BY <1>1 DEF StoreDuplicate
  <2>2. JobStateType'
    BY <2>1, NewJobType DEF Causes
  <2> QED BY <1>1, <2>2 DEF StoreDuplicate, TypeOK, JobStateType, ledger
<1>2. ASSUME NEW j \in JobIds, NEW keys \in SUBSET Keys, StoreRejected(j, keys)
      PROVE  TypeOK'
  <2>1. NewJob(j, "store", 0, FALSE, "capacity") /\ Admit(j, keys)
    BY <1>2 DEF StoreRejected
  <2>2. JobStateType'
    BY <2>1, NewJobType DEF Causes
  <2> QED BY <1>2, <2>2 DEF StoreRejected, TypeOK, JobStateType, ledger
<1>3. ASSUME NEW j \in JobIds, NEW keys \in SUBSET Keys, StoreAccepted(j, keys)
      PROVE  TypeOK'
  <2> DEFINE new == NewKeys(keys)
             n   == Cardinality(new)
  <2>1. PICK slot \in Assignments(new) :
          /\ key2inflight' = [k \in Keys |-> IF k \in new THEN slot[k]
                                             ELSE key2inflight[k]]
          /\ outstanding' = outstanding \cup BlocksFor(j, new, slot)
    BY <1>3 DEF StoreAccepted
  <2>2. new \in SUBSET Keys /\ ~CapacityExceeded(n)
    BY <1>3 DEF StoreAccepted, NewKeys
  <2>3. n \in Nat /\ slot \in [new -> Slots]
    BY <2>2, AssignmentsWindow
  <2>4. nextSlot' \in 0 .. SlotCapacity
    BY <1>3, <2>2, <2>3, SlotCapacityAssumption
    DEF StoreAccepted, CapacityExceeded, TypeOK
  <2>5. key2inflight' \in [Keys -> Slots \cup {NoSlot}]
    BY <2>1, <2>3 DEF TypeOK
  <2>6. outstanding' \subseteq Block
    BY <2>1, <2>2, <2>3 DEF TypeOK, Block, BlocksFor
  <2>7. NewJob(j, "store", n, TRUE, "none") /\ Admit(j, keys)
    BY <1>3 DEF StoreAccepted
  <2>8. JobStateType'
    BY <2>3, <2>7, NewJobType DEF Causes
  <2> QED BY <1>3, <2>4, <2>5, <2>6, <2>8
       DEF StoreAccepted, TypeOK, JobStateType, counters
<1>4. ASSUME NEW j \in JobIds, NEW keys \in SUBSET Keys, LoadRefused(j, keys)
      PROVE  TypeOK'
  <2>1. NewJob(j, "load", 0, FALSE, "stale") /\ Admit(j, keys)
    BY <1>4 DEF LoadRefused
  <2>2. JobStateType'
    BY <2>1, NewJobType DEF Causes
  <2> QED BY <1>4, <2>2 DEF LoadRefused, TypeOK, JobStateType, ledger
<1>5. ASSUME NEW j \in JobIds, NEW keys \in SUBSET Keys, LoadAccepted(j, keys)
      PROVE  TypeOK'
  <2>1. NewJob(j, "load", Cardinality(keys), TRUE, "none") /\ Admit(j, keys)
    BY <1>5 DEF LoadAccepted
  <2>2. Cardinality(keys) \in Nat
    BY FS_Subset, FS_CardinalityType, KeysAssumption
  <2>3. \A k \in keys : key2slot[k] \in Slots
    BY <1>5 DEF LoadAccepted, NotAllResident, Resident, TypeOK
  <2>4. outstanding' \subseteq Block
    BY <1>5, <2>3 DEF LoadAccepted, TypeOK, Block, BlocksFor
  <2>5. JobStateType'
    BY <2>1, <2>2, NewJobType DEF Causes
  <2> QED BY <1>5, <2>4, <2>5
       DEF LoadAccepted, TypeOK, JobStateType, counters, ledger
<1>6. ASSUME NEW b \in outstanding, NEW ok \in BOOLEAN, CompleteBlock(b, ok)
      PROVE  TypeOK'
  <2>1. b \in Block /\ remaining[b.job] - 1 \in Nat
    BY <1>6 DEF CompleteBlock, Raises, TypeOK, Block
  <2>2. remaining' \in [JobIds -> Nat] /\ outstanding' \subseteq Block
    BY <1>6, <2>1 DEF CompleteBlock, TypeOK
  <2>3. cause' \in [JobIds -> Causes]
    BY <1>6 DEF CompleteBlock, TypeOK, Causes
  <2>4. /\ success' \in [JobIds -> BOOLEAN]
        /\ storeFailed' \in Nat /\ loadFailed' \in Nat
    <3>1. CASE MarkJobFailed(b.job)
      <4>1. success' \in [JobIds -> BOOLEAN]
        BY <3>1 DEF MarkJobFailed, TypeOK
      <4>2. /\ storeFailed' = storeFailed \/ storeFailed' = storeFailed + 1
            /\ loadFailed' = loadFailed \/ loadFailed' = loadFailed + 1
        <5>1. \A n, c : n \in Nat =>
                n + (IF c THEN 1 ELSE 0) \in {n, n + 1}
          OBVIOUS
        <5> QED BY <3>1, <5>1 DEF MarkJobFailed, TypeOK
      <4> QED BY <4>1, <4>2 DEF TypeOK
    <3>2. CASE UNCHANGED <<success, storeFailed, loadFailed>>
      BY <3>2 DEF TypeOK
    <3> QED BY <1>6, <3>1, <3>2 DEF CompleteBlock, StoreCompletes, LoadCompletes
  <2>5. /\ key2slot' \in [Keys -> Slots \cup {NoSlot}]
        /\ key2inflight' \in [Keys -> Slots \cup {NoSlot}]
    <3>1. b.key \in Keys /\ key2inflight[b.key] \in Slots \cup {NoSlot}
      BY <2>1 DEF TypeOK, Block
    <3>2. /\ \/ key2slot' = key2slot
             \/ key2slot' = [key2slot EXCEPT ![b.key] = key2inflight[b.key]]
             \/ key2slot' = [key2slot EXCEPT ![b.key] = NoSlot]
          /\ \/ key2inflight' = key2inflight
             \/ key2inflight' = [key2inflight EXCEPT ![b.key] = NoSlot]
      BY <1>6 DEF CompleteBlock, StoreCompletes, LoadCompletes
    <3> QED BY <3>1, <3>2 DEF TypeOK
  <2> QED BY <1>6, <2>2, <2>3, <2>4, <2>5 DEF CompleteBlock, TypeOK
<1>7. ASSUME GetFinishedJobs PROVE TypeOK'
  <2>1. results' \in [JobIds -> Seq(BOOLEAN)]
    <3>1. \A j \in JobIds : Append(results[j], success[j]) \in Seq(BOOLEAN)
      BY DEF TypeOK
    <3> QED BY <1>7, <3>1 DEF GetFinishedJobs, TypeOK
  <2> QED BY <1>7, <2>1
       DEF GetFinishedJobs, TypeOK, ledger, jobState, counters
<1>8. ASSUME ClearResidency PROVE TypeOK'
  BY <1>8, SlotCapacityAssumption DEF ClearResidency, TypeOK, jobState, counters
<1>9. ASSUME UNCHANGED vars PROVE TypeOK'
  BY <1>9 DEF vars, ledger, jobState, counters, TypeOK
<1> QED
  BY <1>1, <1>2, <1>3, <1>4, <1>5, <1>6, <1>7, <1>8, <1>9
  DEF Next, SubmitStore, SubmitLoad

(* The ledger stays well typed.                                            *)
THEOREM TypeCorrect == Spec => []TypeOK
<1>1. Init => TypeOK
  BY SlotCapacityAssumption, MaxJobsAssumption
  DEF Init, TypeOK, JobIds, Causes, NoSlot
<1>2. TypeOK /\ [Next]_vars => TypeOK'
  BY StepKeepsTypes
<1> QED BY <1>1, <1>2, PTL DEF Spec

-----------------------------------------------------------------------------
(* The inductive invariant.  SlotsDistinct alone is not inductive: that a  *)
(* new slot is unused needs SlotsBelowCursor, that clear_residency finds   *)
(* no block needs RemainingIsOwed, that a completing store publishes a     *)
(* slot needs InFlightIsBacked.                                            *)
IInv ==
  /\ TypeOK
  /\ IsFiniteSet(outstanding)
  /\ SlotsDistinct
  /\ SlotsBelowCursor
  /\ RemainingIsOwed
  /\ InFlightIsBacked
  /\ WritesExclusive

(* The blocks of one job are as many as the keys they are for.             *)
LEMMA BlocksCount ==
  ASSUME NEW j, NEW S, IsFiniteSet(S), NEW slot
  PROVE  /\ IsFiniteSet(BlocksFor(j, S, slot))
         /\ Cardinality(BlocksFor(j, S, slot)) = Cardinality(S)
<1> DEFINE new == {[job |-> j, key |-> k, slot |-> slot[k]] : k \in S}
           f   == [k \in S |-> [job |-> j, key |-> k, slot |-> slot[k]]]
<1>1. f \in [S -> new]
  OBVIOUS
<1>2. \A k, l \in S : f[k] = f[l] => k = l
  OBVIOUS
<1>3. \A b \in new : \E k \in S : f[k] = b
  OBVIOUS
<1>4. f \in Bijection(S, new)
  BY <1>1, <1>2, <1>3 DEF Bijection, Injection, Surjection, IsInjective
<1>5. ExistsBijection(S, new)
  BY <1>4 DEF ExistsBijection
<1> QED BY <1>5, FS_Bijection DEF BlocksFor

(* Adding the blocks of a fresh job keeps the books of every job.          *)
LEMMA NewJobOwed ==
  ASSUME TypeOK, IsFiniteSet(outstanding), RemainingIsOwed,
         NEW j, NEW keys, Admit(j, keys), NEW S, IsFiniteSet(S), NEW slot,
         NEW dir, NEW ok, NEW why, NewJob(j, dir, Cardinality(S), ok, why),
         outstanding' = outstanding \cup BlocksFor(j, S, slot)
  PROVE  IsFiniteSet(outstanding') /\ RemainingIsOwed'
<1> DEFINE new == BlocksFor(j, S, slot)
<1>1. IsFiniteSet(new) /\ Cardinality(new) = Cardinality(S)
  BY BlocksCount
<1>2. j \notin live /\ j \in JobIds
  BY DEF Admit
<1>3. /\ live' = live \cup {j}
      /\ remaining' = [remaining EXCEPT ![j] = Cardinality(S)]
      /\ remaining \in [JobIds -> Nat] /\ live \subseteq JobIds
  BY DEF NewJob, TypeOK
<1>4. \A b \in new : b.job = j
  BY DEF BlocksFor
<1>5. \A b \in outstanding : b.job \in live
  BY DEF RemainingIsOwed
<1>6. outstanding' = outstanding \cup new
  OBVIOUS
<1> HIDE DEF new
<1>7. BlocksOf(j)' = new
  BY <1>2, <1>4, <1>5, <1>6 DEF BlocksOf
<1>8. \A i \in live : BlocksOf(i)' = BlocksOf(i)
  BY <1>2, <1>4, <1>6 DEF BlocksOf
<1>9. \A i \in live' : remaining'[i] = Cardinality(BlocksOf(i)')
  BY <1>1, <1>2, <1>3, <1>7, <1>8 DEF RemainingIsOwed
<1>10. \A b \in outstanding' : b.job \in live'
  BY <1>3, <1>4, <1>5, <1>6
<1>11. IsFiniteSet(outstanding')
  BY <1>1, <1>6, FS_Union
<1>12. (\A i \in live : remaining[i] = Cardinality(BlocksOf(i)))'
  BY <1>9
<1> QED BY <1>10, <1>11, <1>12 DEF RemainingIsOwed

(* A job id becomes live without touching the blocks of other jobs.        *)
LEMMA NewJobDirection ==
  ASSUME TypeOK, RemainingIsOwed, NEW j, NEW keys, Admit(j, keys), NEW dir,
         NEW n, NEW ok, NEW why, NewJob(j, dir, n, ok, why)
  PROVE  /\ \A b \in outstanding : direction'[b.job] = direction[b.job]
         /\ direction'[j] = dir
  BY DEF TypeOK, RemainingIsOwed, Admit, NewJob

(* A refused job leaves ledger and blocks alone.                           *)
LEMMA RefusalKeepsIInv ==
  ASSUME IInv, TypeOK', NEW j, NEW keys, Admit(j, keys), NEW dir, NEW why,
         NewJob(j, dir, 0, FALSE, why), UNCHANGED <<ledger, outstanding>>
  PROVE  IInv'
<1>1. outstanding' = outstanding \cup
        BlocksFor(j, {}, key2slot)
  BY DEF BlocksFor
<1>2. IsFiniteSet({}) /\ Cardinality({}) = 0
  BY FS_EmptySet
<1>3. NewJob(j, dir, Cardinality({}), FALSE, why)
  BY <1>2
<1>4. IsFiniteSet(outstanding') /\ RemainingIsOwed'
  BY <1>1, <1>2, <1>3, NewJobOwed DEF IInv
<1>5. \A b \in outstanding : direction'[b.job] = direction[b.job]
  BY NewJobDirection DEF IInv
<1>6. StoreBlocks' = StoreBlocks
  BY <1>5 DEF StoreBlocks
<1>7. SlotsDistinct' /\ SlotsBelowCursor'
  BY DEF IInv, SlotsDistinct, SlotsBelowCursor, ledger, Resident, InFlight
<1>8. InFlightIsBacked' /\ WritesExclusive'
  BY <1>6 DEF IInv, InFlightIsBacked, WritesExclusive, InFlight, ledger
<1> QED BY <1>4, <1>7, <1>8 DEF IInv

(* An accepted store takes fresh slots for keys not in the ledger.         *)
LEMMA StoreKeepsIInv ==
  ASSUME IInv, TypeOK', NEW j \in JobIds, NEW keys \in SUBSET Keys,
         StoreAccepted(j, keys)
  PROVE  IInv'
<1> DEFINE new == NewKeys(keys)
           n   == Cardinality(new)
<1>1. PICK slot \in Assignments(new) :
        /\ key2inflight' = [k \in Keys |-> IF k \in new THEN slot[k]
                                           ELSE key2inflight[k]]
        /\ outstanding' = outstanding \cup BlocksFor(j, new, slot)
  BY DEF StoreAccepted
<1>2. /\ Admit(j, keys) /\ NewJob(j, "store", n, TRUE, "none")
      /\ nextSlot' = nextSlot + n /\ key2slot' = key2slot
      /\ new \in SUBSET Keys /\ ~CapacityExceeded(n)
      /\ new \cap Resident = {} /\ new \cap InFlight = {}
  BY DEF StoreAccepted, NewKeys, InFlightDuplicate
<1>3. /\ IsFiniteSet(new) /\ n \in Nat
      /\ slot \in [new -> Slots]
      /\ \A k \in new : nextSlot <= slot[k] /\ slot[k] < nextSlot + n
      /\ \A k, l \in new : slot[k] = slot[l] => k = l
  BY <1>2, AssignmentsWindow DEF IInv
<1>4. IsFiniteSet(outstanding') /\ RemainingIsOwed'
  BY <1>1, <1>2, <1>3, NewJobOwed DEF IInv
<1>5. /\ \A b \in outstanding : direction'[b.job] = direction[b.job]
      /\ direction'[j] = "store"
  BY <1>2, NewJobDirection DEF IInv
<1> DEFINE fresh == BlocksFor(j, new, slot)
<1>6. /\ \A b \in fresh : b.job = j /\ b.key \in new /\ b.slot = slot[b.key]
      /\ \A k \in new : \E b \in fresh : b.key = k
      /\ \A b, c \in fresh : b.key = c.key => b = c
  <2>1. \A b \in fresh :
          b.job = j /\ b.key \in new /\ b.slot = slot[b.key]
    BY DEF BlocksFor
  <2>2. \A k \in new : \E b \in fresh : b.key = k
    <3> SUFFICES ASSUME NEW k \in new PROVE \E b \in fresh : b.key = k
      OBVIOUS
    <3>1. [job |-> j, key |-> k, slot |-> slot[k]] \in fresh
      BY DEF BlocksFor
    <3> QED BY <3>1
  <2>3. \A b, c \in fresh : b.key = c.key => b = c
    BY DEF BlocksFor
  <2> QED BY <2>1, <2>2, <2>3
<1>7. outstanding' = outstanding \cup fresh
  BY <1>1
<1> HIDE DEF fresh, n, new
<1>8. StoreBlocks' = StoreBlocks \cup fresh
  BY <1>5, <1>6, <1>7 DEF StoreBlocks
<1>9. /\ \A k \in Keys \ new : key2inflight'[k] = key2inflight[k]
      /\ \A k \in new : key2inflight'[k] = slot[k] /\ slot[k] # NoSlot
      /\ \A k \in new : key2slot[k] = NoSlot /\ key2inflight[k] = NoSlot
  BY <1>1, <1>2, <1>3 DEF Slots, NoSlot, Resident, InFlight
<1>10. /\ nextSlot \in Nat
       /\ \A k \in Keys : key2slot[k] \in Slots \cup {NoSlot}
       /\ \A k \in Keys : key2inflight[k] \in Slots \cup {NoSlot}
       /\ \A k \in Keys : key2slot[k] < nextSlot \/ key2slot[k] = NoSlot
       /\ \A k \in Keys : key2inflight[k] < nextSlot \/ key2inflight[k] = NoSlot
       /\ \A b \in outstanding : b \in Block /\ b.slot < nextSlot
       /\ \A k \in new : slot[k] \in Nat
       /\ SlotCapacity \in Nat
  BY <1>3, SlotCapacityAssumption DEF IInv, TypeOK, SlotsBelowCursor, Slots
<1>11. SlotsDistinct'
  <2>1. Resident' \cap InFlight' = {}
    BY <1>2, <1>9 DEF Resident, InFlight, IInv, SlotsDistinct
  <2>2. ASSUME NEW k \in Keys, NEW l \in Keys, key2slot[k] # NoSlot
        PROVE  key2slot[k] # key2inflight'[l]
    BY <2>2, <1>3, <1>9, <1>10 DEF IInv, SlotsDistinct, Slots, NoSlot
  <2>3. ASSUME NEW k \in Keys, NEW l \in Keys, k # l, key2inflight'[k] # NoSlot
        PROVE  key2inflight'[k] # key2inflight'[l]
    BY <2>3, <1>3, <1>9, <1>10 DEF IInv, SlotsDistinct, Slots, NoSlot
  <2> QED BY <1>2, <2>1, <2>2, <2>3 DEF IInv, SlotsDistinct
<1>12. SlotsBelowCursor'
  <2>1. \A k \in Keys : key2slot[k] < nextSlot' \/ key2slot[k] = NoSlot
    BY <1>2, <1>3, <1>10 DEF Slots, NoSlot
  <2>2. \A k \in Keys : key2inflight'[k] < nextSlot' \/ key2inflight'[k] = NoSlot
    BY <1>2, <1>3, <1>9, <1>10 DEF Slots, NoSlot
  <2>3. \A b \in outstanding' : b.slot < nextSlot'
    BY <1>2, <1>3, <1>6, <1>7, <1>10 DEF Block, Slots
  <2> QED BY <1>2, <2>1, <2>2, <2>3 DEF SlotsBelowCursor
<1>13. InFlightIsBacked'
  <2>1. \A b \in StoreBlocks : b.key \in Keys \ new
    BY <1>9, <1>10 DEF IInv, InFlightIsBacked, StoreBlocks, Block, Slots, NoSlot
  <2>2. \A b \in StoreBlocks' : key2inflight'[b.key] = b.slot
    BY <1>6, <1>8, <1>9, <2>1 DEF IInv, InFlightIsBacked
  <2>3. \A k \in InFlight' : \E b \in StoreBlocks' : b.key = k
    BY <1>6, <1>8, <1>9 DEF IInv, InFlightIsBacked, InFlight
  <2> QED BY <2>2, <2>3 DEF InFlightIsBacked
<1>14. WritesExclusive'
  <2>1. ASSUME NEW b \in fresh, NEW c \in fresh, b # c PROVE b.slot # c.slot
    BY <2>1, <1>3, <1>6
  <2>2. ASSUME NEW b \in fresh, NEW c \in outstanding PROVE b.slot # c.slot
    BY <2>2, <1>3, <1>6, <1>10 DEF Block, Slots
  <2> QED BY <1>7, <1>8, <2>1, <2>2 DEF IInv, WritesExclusive, StoreBlocks
<1> QED BY <1>4, <1>11, <1>12, <1>13, <1>14 DEF IInv

(* An accepted load reads slots of resident keys, which no store writes.   *)
LEMMA LoadKeepsIInv ==
  ASSUME IInv, TypeOK', NEW j \in JobIds, NEW keys \in SUBSET Keys,
         LoadAccepted(j, keys)
  PROVE  IInv'
<1> DEFINE fresh == BlocksFor(j, keys, key2slot)
<1>1. /\ Admit(j, keys) /\ NewJob(j, "load", Cardinality(keys), TRUE, "none")
      /\ outstanding' = outstanding \cup fresh
      /\ keys \subseteq Resident
      /\ UNCHANGED ledger
  BY DEF LoadAccepted, NotAllResident
<1>2. IsFiniteSet(keys)
  BY FS_Subset, KeysAssumption
<1>3. IsFiniteSet(outstanding') /\ RemainingIsOwed'
  BY <1>1, <1>2, NewJobOwed DEF IInv
<1>4. /\ \A b \in outstanding : direction'[b.job] = direction[b.job]
      /\ direction'[j] = "load"
  BY <1>1, NewJobDirection DEF IInv
<1>5. \A b \in fresh : /\ b.job = j /\ b.key \in Resident
                       /\ b.slot = key2slot[b.key]
  BY <1>1 DEF BlocksFor
<1> HIDE DEF fresh
<1>6. StoreBlocks' = StoreBlocks
  BY <1>1, <1>4, <1>5 DEF StoreBlocks
<1>7. UNCHANGED <<key2slot, key2inflight, nextSlot>>
  BY <1>1 DEF ledger
<1>8. SlotsDistinct'
  BY <1>7 DEF IInv, SlotsDistinct, Resident, InFlight
<1>9. \A b \in fresh : b.slot < nextSlot
  BY <1>5 DEF IInv, SlotsBelowCursor, Resident
<1>10. SlotsBelowCursor'
  BY <1>1, <1>7, <1>9 DEF IInv, SlotsBelowCursor
<1>11. InFlightIsBacked'
  BY <1>6, <1>7 DEF IInv, InFlightIsBacked, InFlight
<1>12. WritesExclusive'
  <2>1. \A b \in StoreBlocks, c \in fresh : b.slot # c.slot
    <3>1. \A b \in StoreBlocks : b.key \in Keys /\ key2inflight[b.key] = b.slot
      BY DEF IInv, TypeOK, InFlightIsBacked, StoreBlocks, Block
    <3> QED BY <3>1, <1>5 DEF IInv, SlotsDistinct, Resident
  <2>2. \A b \in StoreBlocks : b \notin fresh
    BY <2>1
  <2> QED BY <1>1, <1>6, <2>1 DEF IInv, WritesExclusive
<1> QED BY <1>3, <1>8, <1>10, <1>11, <1>12 DEF IInv

(* A completion settles one block and touches its own key only.            *)
LEMMA CompleteKeepsIInv ==
  ASSUME IInv, TypeOK', NEW b \in outstanding, NEW ok \in BOOLEAN,
         CompleteBlock(b, ok)
  PROVE  IInv'
<1>1. /\ outstanding' = outstanding \ {b}
      /\ remaining' = [remaining EXCEPT ![b.job] = @ - 1]
      /\ UNCHANGED <<nextSlot, live, direction>>
      /\ b \in Block /\ b.job \in live /\ b.job \in JobIds /\ b.key \in Keys
  BY DEF CompleteBlock, Raises, IInv, TypeOK, Block
<1>2. IsFiniteSet(outstanding')
  BY <1>1, FS_RemoveElement DEF IInv
<1>3. RemainingIsOwed'
  <2>1. BlocksOf(b.job)' = BlocksOf(b.job) \ {b} /\ b \in BlocksOf(b.job)
    BY <1>1 DEF BlocksOf
  <2>2. IsFiniteSet(BlocksOf(b.job))
    BY FS_Subset DEF BlocksOf, IInv
  <2>3. Cardinality(BlocksOf(b.job)') = Cardinality(BlocksOf(b.job)) - 1
    BY <2>1, <2>2, FS_RemoveElement
  <2>4. \A i \in live \ {b.job} : BlocksOf(i)' = BlocksOf(i)
    BY <1>1 DEF BlocksOf
  <2>5. \A i \in live : remaining[i] = Cardinality(BlocksOf(i))
    BY DEF IInv, RemainingIsOwed
  <2>6. \A i \in live : remaining'[i] = Cardinality(BlocksOf(i)')
    BY <1>1, <2>3, <2>4, <2>5 DEF IInv, TypeOK
  <2>7. (\A i \in live : remaining[i] = Cardinality(BlocksOf(i)))'
    BY <1>1, <2>6
  <2>8. \A c \in outstanding' : c.job \in live'
    BY <1>1 DEF IInv, RemainingIsOwed
  <2> QED BY <2>7, <2>8 DEF RemainingIsOwed
<1>4. StoreBlocks' = StoreBlocks \ {b}
  BY <1>1 DEF StoreBlocks
<1>5. WritesExclusive'
  BY <1>1, <1>4 DEF IInv, WritesExclusive
<1>6. /\ \A k \in Keys \ {b.key} : key2slot'[k] = key2slot[k]
      /\ \A k \in Keys \ {b.key} : key2inflight'[k] = key2inflight[k]
      /\ key2slot'[b.key] \in {key2slot[b.key], NoSlot, key2inflight[b.key]}
      /\ key2inflight'[b.key] \in {key2inflight[b.key], NoSlot}
      /\ \/ key2slot'[b.key] = key2slot[b.key] \/ key2slot'[b.key] = NoSlot
         \/ key2inflight'[b.key] = NoSlot
  BY <1>1 DEF CompleteBlock, StoreCompletes, LoadCompletes, IInv, TypeOK
<1>7. SlotsDistinct'
  BY <1>1, <1>6 DEF IInv, SlotsDistinct, Resident, InFlight
<1>8. SlotsBelowCursor'
  BY <1>1, <1>6 DEF IInv, SlotsBelowCursor
<1>9. InFlightIsBacked'
  <2>1. CASE direction[b.job] = "store"
    <3>1. b \in StoreBlocks /\ key2inflight'[b.key] = NoSlot
      BY <2>1, <1>1 DEF StoreBlocks, CompleteBlock, StoreCompletes,
         LoadCompletes, IInv, TypeOK
    <3>2. \A c \in StoreBlocks \ {b} : c.key # b.key /\ c.key \in Keys
      BY <3>1 DEF IInv, WritesExclusive, InFlightIsBacked, StoreBlocks,
         TypeOK, Block
    <3>3. \A c \in StoreBlocks' : key2inflight'[c.key] = c.slot
      BY <1>4, <1>6, <3>2 DEF IInv, InFlightIsBacked
    <3>4. \A k \in InFlight' : k \in InFlight /\ k # b.key
      BY <1>6, <3>1 DEF InFlight
    <3>5. \A k \in InFlight' : \E c \in StoreBlocks' : c.key = k
      BY <1>4, <3>4 DEF IInv, InFlightIsBacked
    <3> QED BY <3>3, <3>5 DEF InFlightIsBacked
  <2>2. CASE direction[b.job] = "load"
    <3>1. StoreBlocks' = StoreBlocks /\ key2inflight' = key2inflight
      BY <2>2, <1>4 DEF StoreBlocks, CompleteBlock, StoreCompletes, LoadCompletes
    <3> QED BY <3>1 DEF IInv, InFlightIsBacked, InFlight
  <2> QED BY <1>1, <2>1, <2>2 DEF IInv, TypeOK
<1> QED BY <1>2, <1>3, <1>5, <1>7, <1>8, <1>9 DEF IInv

(* Only jobs that are owed nothing are handed out.                         *)
LEMMA GetFinishedKeepsIInv ==
  ASSUME IInv, TypeOK', GetFinishedJobs
  PROVE  IInv'
<1>1. /\ live' = live \ Finished
      /\ UNCHANGED <<key2slot, key2inflight, nextSlot, outstanding, direction,
                     remaining>>
  BY DEF GetFinishedJobs, ledger, jobState
<1>2. StoreBlocks' = StoreBlocks /\ \A i : BlocksOf(i)' = BlocksOf(i)
  BY <1>1 DEF StoreBlocks, BlocksOf
<1>3. \A b \in outstanding : b.job \notin Finished
  <2> SUFFICES ASSUME NEW b \in outstanding, b.job \in Finished PROVE FALSE
    OBVIOUS
  <2>1. Cardinality(BlocksOf(b.job)) = 0
    BY DEF Finished, IInv, RemainingIsOwed
  <2>2. IsFiniteSet(BlocksOf(b.job)) /\ b \in BlocksOf(b.job)
    BY FS_Subset DEF BlocksOf, IInv
  <2> QED BY <2>1, <2>2, FS_EmptySet
<1>4. RemainingIsOwed'
  BY <1>1, <1>2, <1>3 DEF IInv, RemainingIsOwed
<1>5. SlotsDistinct' /\ SlotsBelowCursor'
  BY <1>1 DEF IInv, SlotsDistinct, SlotsBelowCursor, Resident, InFlight
<1>6. InFlightIsBacked' /\ WritesExclusive'
  BY <1>1, <1>2 DEF IInv, InFlightIsBacked, WritesExclusive, InFlight
<1>7. IsFiniteSet(outstanding')
  BY <1>1 DEF IInv
<1> QED BY <1>4, <1>5, <1>6, <1>7 DEF IInv

(* The ledger is cleared when no block can still name a slot.              *)
LEMMA ClearKeepsIInv ==
  ASSUME IInv, TypeOK', ClearResidency
  PROVE  IInv'
<1>1. /\ live = {} /\ InFlight = {} /\ key2slot' = [k \in Keys |-> NoSlot]
      /\ UNCHANGED <<key2inflight, outstanding, live, direction, remaining>>
  BY DEF ClearResidency, Quiescent, jobState
<1>2. outstanding = {}
  BY <1>1 DEF IInv, RemainingIsOwed
<1>3. SlotsDistinct' /\ SlotsBelowCursor'
  BY <1>1, <1>2 DEF SlotsDistinct, SlotsBelowCursor, Resident, InFlight
<1>4. RemainingIsOwed' /\ IsFiniteSet(outstanding')
  BY <1>1, <1>2 DEF IInv, RemainingIsOwed
<1>5. InFlightIsBacked' /\ WritesExclusive'
  BY <1>1, <1>2 DEF InFlightIsBacked, WritesExclusive, StoreBlocks, InFlight
<1> QED BY <1>3, <1>4, <1>5 DEF IInv

(* The invariant of the ledger holds in every state.                       *)
THEOREM Invariance == Spec => []IInv
<1>1. Init => IInv
  <2> SUFFICES ASSUME Init PROVE IInv
    OBVIOUS
  <2>1. TypeOK
    BY SlotCapacityAssumption, MaxJobsAssumption
    DEF Init, TypeOK, JobIds, Causes, NoSlot
  <2> QED BY <2>1, FS_EmptySet DEF Init, IInv, SlotsDistinct, SlotsBelowCursor,
       RemainingIsOwed, InFlightIsBacked, WritesExclusive, StoreBlocks, Resident,
       InFlight
<1>2. IInv /\ TypeOK' /\ [Next]_vars => IInv'
  <2> SUFFICES ASSUME IInv, TypeOK', [Next]_vars PROVE IInv'
    OBVIOUS
  <2>1. ASSUME NEW j \in JobIds, NEW keys \in SUBSET Keys, SubmitStore(j, keys)
        PROVE  IInv'
    <3>1. CASE StoreDuplicate(j, keys)
      <4>1. /\ Admit(j, keys) /\ NewJob(j, "store", 0, FALSE, "inflight")
            /\ UNCHANGED <<ledger, outstanding>>
        BY <3>1 DEF StoreDuplicate
      <4> QED BY <4>1, RefusalKeepsIInv
    <3>2. CASE StoreRejected(j, keys)
      <4>1. /\ Admit(j, keys) /\ NewJob(j, "store", 0, FALSE, "capacity")
            /\ UNCHANGED <<ledger, outstanding>>
        BY <3>2 DEF StoreRejected
      <4> QED BY <4>1, RefusalKeepsIInv
    <3> QED BY <2>1, <3>1, <3>2, StoreKeepsIInv DEF SubmitStore
  <2>2. ASSUME NEW j \in JobIds, NEW keys \in SUBSET Keys, SubmitLoad(j, keys)
        PROVE  IInv'
    <3>1. CASE LoadRefused(j, keys)
      <4>1. /\ Admit(j, keys) /\ NewJob(j, "load", 0, FALSE, "stale")
            /\ UNCHANGED <<ledger, outstanding>>
        BY <3>1 DEF LoadRefused
      <4> QED BY <4>1, RefusalKeepsIInv
    <3> QED BY <2>2, <3>1, LoadKeepsIInv DEF SubmitLoad
  <2>3. ASSUME UNCHANGED vars PROVE IInv'
    BY <2>3 DEF vars, ledger, jobState, IInv, SlotsDistinct, SlotsBelowCursor,
       RemainingIsOwed, InFlightIsBacked, WritesExclusive, StoreBlocks,
       Resident, InFlight, BlocksOf
  <2> QED
    BY <2>1, <2>2, <2>3, CompleteKeepsIInv, GetFinishedKeepsIInv, ClearKeepsIInv
    DEF Next
<1> QED BY <1>1, <1>2, TypeCorrect, PTL DEF Spec

(* Keys never share a slot, and no slab slot being written is the target   *)
(* of another block, through failures, removals and clear_residency.       *)
THEOREM SlotSafety == Spec => [](SlotsDistinct /\ WritesExclusive)
BY Invariance, PTL DEF IInv

(* lookup's None is always backed by an outstanding store block that will  *)
(* write the very slot the ledger reserved for the key.                    *)
THEOREM RetryBacked == Spec => []InFlightIsBacked
BY Invariance, PTL DEF IInv

(* The job count get_finished_jobs tests is the number of blocks owed.     *)
THEOREM OwedExactly == Spec => []RemainingIsOwed
BY Invariance, PTL DEF IInv

(* A completion the engine owes never makes complete_block raise.          *)
THEOREM CompletionsAccepted == Spec => []NoCompletionRaises
<1>1. IInv => NoCompletionRaises
  <2> SUFFICES ASSUME IInv, NEW b \in outstanding, NEW ok \in BOOLEAN
               PROVE  ~Raises(b, ok)
    BY DEF NoCompletionRaises
  <2>1. b.job \in live /\ b \in Block
    BY DEF IInv, RemainingIsOwed, TypeOK
  <2>2. remaining[b.job] > 0
    <3>1. IsFiniteSet(BlocksOf(b.job)) /\ b \in BlocksOf(b.job)
      BY FS_Subset DEF BlocksOf, IInv
    <3>2. Cardinality(BlocksOf(b.job)) # 0 /\ Cardinality(BlocksOf(b.job)) \in Nat
      BY <3>1, FS_EmptySet, FS_CardinalityType
    <3> QED BY <2>1, <3>2 DEF IInv, RemainingIsOwed
  <2>3. ASSUME direction[b.job] = "store"
        PROVE  b.key \in InFlight /\ b.key \notin Resident
    <3>1. b.key \in InFlight
      BY <2>1, <2>3 DEF IInv, InFlightIsBacked, StoreBlocks, Block, InFlight,
         Slots, NoSlot
    <3> QED BY <3>1 DEF IInv, SlotsDistinct
  <2> QED BY <2>1, <2>2, <2>3, SMT DEF Raises, IInv, TypeOK, Block
<1> QED BY <1>1, Invariance, PTL

(* There is no eviction: a resident key keeps its slot until a load of it  *)
(* fails or the whole ledger is cleared with nothing outstanding.          *)
THEOREM ResidencyStable == Spec => NoEviction
<1> DEFINE Kept ==
      \A k \in Resident :
       key2slot'[k] # key2slot[k] =>
         /\ key2slot'[k] = NoSlot
         /\ \/ Quiescent /\ outstanding = {}
            \/ \E b \in outstanding \ outstanding' :
                 b.key = k /\ direction[b.job] = "load" /\ ~success'[b.job]
<1>1. IInv /\ [Next]_vars => Kept
  <2> SUFFICES ASSUME IInv, [Next]_vars, NEW k \in Resident,
                      key2slot'[k] # key2slot[k]
               PROVE  /\ key2slot'[k] = NoSlot
                      /\ \/ Quiescent /\ outstanding = {}
                         \/ \E b \in outstanding \ outstanding' :
                              /\ b.key = k /\ direction[b.job] = "load"
                              /\ ~success'[b.job]
    OBVIOUS
  <2>1. CASE ClearResidency
    <3>1. outstanding = {}
      BY <2>1 DEF ClearResidency, Quiescent, IInv, RemainingIsOwed
    <3> QED BY <2>1, <3>1 DEF ClearResidency, Resident
  <2>2. ASSUME NEW b \in outstanding, NEW ok \in BOOLEAN, CompleteBlock(b, ok)
        PROVE  /\ key2slot'[k] = NoSlot /\ b \in outstanding \ outstanding'
               /\ b.key = k /\ direction[b.job] = "load" /\ ~success'[b.job]
    <3>1. b \in Block /\ k \in Keys /\ b \notin outstanding'
      BY <2>2 DEF CompleteBlock, Resident, IInv, TypeOK
    <3>2. CASE StoreCompletes(b, ok)
      <4>1. b.key \in InFlight /\ b.key # k
        BY <2>2, <3>2 DEF CompleteBlock, StoreCompletes, Raises, IInv, SlotsDistinct
      <4> QED BY <3>1, <3>2, <4>1 DEF StoreCompletes, IInv, TypeOK
    <3>3. CASE LoadCompletes(b, ok)
      BY <3>1, <3>3 DEF LoadCompletes, MarkJobFailed, IInv, TypeOK, Block
    <3> QED BY <2>2, <3>2, <3>3 DEF CompleteBlock
  <2>3. ASSUME NEW j \in JobIds, NEW keys \in SUBSET Keys,
               SubmitStore(j, keys) \/ SubmitLoad(j, keys)
        PROVE  key2slot' = key2slot
    BY <2>3 DEF SubmitStore, SubmitLoad, StoreDuplicate, StoreRejected,
       StoreAccepted, LoadRefused, LoadAccepted, ledger
  <2>4. ASSUME GetFinishedJobs \/ UNCHANGED vars PROVE key2slot' = key2slot
    BY <2>4 DEF GetFinishedJobs, vars, ledger
  <2> QED BY <2>1, <2>2, <2>3, <2>4 DEF Next
<1>2. [][Kept]_vars => NoEviction
  BY PTL DEF NoEviction
<1> QED BY <1>1, <1>2, Invariance, PTL DEF Spec

-----------------------------------------------------------------------------
(* The job results and the failure counters                                *)

(* What the results rest on: success says whether a cause of failure was   *)
(* recorded, ids not yet used are clean, and a result handed out is the    *)
(* last word on a job that is gone.                                        *)
JobInv ==
  /\ \A j \in JobIds : success[j] = (cause[j] = "none")
  /\ \A j \in JobIds : j >= nextJob =>
       j \notin live /\ results[j] = <<>> /\ cause[j] = "none"
  /\ \A j \in JobIds : j \in live => results[j] = <<>>
  /\ \A j \in JobIds : results[j] # <<>> => results[j] = <<success[j]>>

(* A refused or accepted job is the first of its id.                       *)
LEMMA NewJobKeepsJobInv ==
  ASSUME TypeOK, JobInv, NEW j, NEW keys, Admit(j, keys), NEW dir, NEW n,
         NEW ok \in BOOLEAN, NEW why \in Causes, NewJob(j, dir, n, ok, why),
         ok = (why = "none")
  PROVE  JobInv'
<1>1. j \in JobIds /\ j = nextJob /\ nextJob' = nextJob + 1 /\ nextJob \in Nat
  BY MaxJobsAssumption DEF Admit, NewJob, TypeOK
<1>2. results' = results /\ live' = live \cup {j} /\ results[j] = <<>>
  BY <1>1 DEF NewJob, JobInv, JobIds
<1>3. /\ success'[j] = ok /\ cause'[j] = why
      /\ \A i \in JobIds \ {j} : success'[i] = success[i] /\ cause'[i] = cause[i]
  BY <1>1 DEF NewJob, TypeOK
<1>4. \A i \in JobIds : success'[i] = (cause'[i] = "none")
  BY <1>3 DEF JobInv
<1>5. \A i \in JobIds : i >= nextJob' => i # j /\ i >= nextJob
  BY <1>1 DEF JobIds
<1>6. \A i \in JobIds : i >= nextJob' =>
        i \notin live' /\ results'[i] = <<>> /\ cause'[i] = "none"
  BY <1>2, <1>3, <1>5 DEF JobInv
<1>7. \A i \in JobIds : i \in live' => results'[i] = <<>>
  BY <1>2 DEF JobInv
<1>8. \A i \in JobIds : results'[i] # <<>> => results'[i] = <<success'[i]>>
  BY <1>2, <1>3 DEF JobInv
<1> QED BY <1>4, <1>6, <1>7, <1>8 DEF JobInv

(* A completion changes the job of its block only, and that one is live.   *)
LEMMA CompleteKeepsJobInv ==
  ASSUME IInv, JobInv, NEW b \in outstanding, NEW ok \in BOOLEAN, CompleteBlock(b, ok)
  PROVE  JobInv'
<1>1. b.job \in JobIds /\ b.job \in live /\ results[b.job] = <<>> /\ ~(b.job >= nextJob)
  BY DEF IInv, RemainingIsOwed, TypeOK, Block, JobInv
<1>2. UNCHANGED <<live, nextJob, results>>
  BY DEF CompleteBlock
<1>3. \A i \in JobIds \ {b.job} : success'[i] = success[i] /\ cause'[i] = cause[i]
  BY DEF CompleteBlock, StoreCompletes, LoadCompletes, MarkJobFailed, IInv, TypeOK
<1>4. success'[b.job] = (cause'[b.job] = "none")
  <2>1. CASE ok
    <3>1. success' = success /\ cause'[b.job] = cause[b.job]
      BY <1>1, <2>1 DEF CompleteBlock, StoreCompletes, LoadCompletes, IInv, TypeOK
    <3> QED BY <1>1, <3>1 DEF JobInv
  <2>2. CASE ~ok
    <3>1. success'[b.job] = FALSE
      BY <1>1, <2>2 DEF CompleteBlock, StoreCompletes, LoadCompletes, MarkJobFailed, IInv, TypeOK
    <3>2. cause'[b.job] # "none"
      BY <1>1, <2>2 DEF CompleteBlock, IInv, TypeOK
    <3> QED BY <3>1, <3>2
  <2> QED BY <2>1, <2>2
<1>5. \A i \in JobIds : success'[i] = (cause'[i] = "none")
  BY <1>3, <1>4 DEF JobInv
<1>6. \A i \in JobIds : i >= nextJob' =>
        i \notin live' /\ results'[i] = <<>> /\ cause'[i] = "none"
  BY <1>1, <1>2, <1>3 DEF JobInv
<1>7. \A i \in JobIds : results'[i] # <<>> => results'[i] = <<success'[i]>>
  BY <1>1, <1>2, <1>3 DEF JobInv
<1> QED BY <1>2, <1>5, <1>6, <1>7 DEF JobInv

(* Jobs that are handed out had no result before.                          *)
LEMMA GetFinishedKeepsJobInv ==
  ASSUME IInv, JobInv, GetFinishedJobs
  PROVE  JobInv'
<1>1. /\ live' = live \ Finished
      /\ UNCHANGED <<success, cause, nextJob>>
      /\ \A j \in JobIds : results'[j] = IF j \in Finished THEN Append(results[j], success[j])
                                                           ELSE results[j]
  BY DEF GetFinishedJobs, jobState
<1>2. \A j \in Finished : j \in JobIds /\ j \in live /\ results[j] = <<>>
  BY DEF Finished, JobInv, IInv, TypeOK
<1>3. \A j \in Finished : results'[j] = <<success[j]>> /\ j \notin live' /\ ~(j >= nextJob')
  <2> SUFFICES ASSUME NEW j \in Finished
               PROVE  results'[j] = <<success[j]>> /\ j \notin live' /\ ~(j >= nextJob')
    OBVIOUS
  <2>1. results'[j] = Append(<<>>, success[j])
    BY <1>1, <1>2
  <2>2. results'[j] = <<success[j]>>
    BY <2>1
  <2> QED BY <1>1, <1>2, <2>2 DEF JobInv
<1>4. \A j \in JobIds : j \notin Finished => results'[j] = results[j]
  BY <1>1
<1> QED BY <1>1, <1>2, <1>3, <1>4 DEF JobInv

(* Every submit call makes the job's entry with NewJob.                    *)
LEMMA SubmitIsNewJob ==
  ASSUME TypeOK, NEW j \in JobIds, NEW keys \in SUBSET Keys,
         SubmitStore(j, keys) \/ SubmitLoad(j, keys)
  PROVE  /\ Admit(j, keys)
         /\ \E dir \in {"store", "load"}, n \in Nat, why \in Causes :
              /\ NewJob(j, dir, n, why = "none", why)
              /\ storeFailed' = storeFailed + (IF dir = "store" /\ why = "inflight" THEN 1 ELSE 0)
              /\ loadFailed' = loadFailed + (IF dir = "load" /\ why = "stale" THEN 1 ELSE 0)
              /\ capacityRejected' = capacityRejected + (IF dir = "store" /\ why = "capacity" THEN 1 ELSE 0)
              /\ why # "io"
              /\ dir = "store" => why # "stale"
              /\ dir = "load" => why \in {"none", "stale"}
<1> DEFINE Made(dir, n, why) ==
      /\ NewJob(j, dir, n, why = "none", why)
      /\ storeFailed' = storeFailed + (IF dir = "store" /\ why = "inflight" THEN 1 ELSE 0)
      /\ loadFailed' = loadFailed + (IF dir = "load" /\ why = "stale" THEN 1 ELSE 0)
      /\ capacityRejected' = capacityRejected + (IF dir = "store" /\ why = "capacity" THEN 1 ELSE 0)
<1>0. /\ storeFailed + 0 = storeFailed /\ loadFailed + 0 = loadFailed
      /\ capacityRejected + 0 = capacityRejected
  BY DEF TypeOK
<1>1. CASE StoreDuplicate(j, keys)
  <2>1. Made("store", 0, "inflight")
    BY <1>0, <1>1 DEF StoreDuplicate
  <2> QED BY <1>1, <2>1 DEF StoreDuplicate, Causes
<1>2. CASE StoreRejected(j, keys)
  <2>1. Made("store", 0, "capacity")
    BY <1>0, <1>2 DEF StoreRejected
  <2> QED BY <1>2, <2>1 DEF StoreRejected, Causes
<1>3. CASE StoreAccepted(j, keys)
  <2>1. Made("store", Cardinality(NewKeys(keys)), "none")
    BY <1>0, <1>3 DEF StoreAccepted, counters
  <2>2. Cardinality(NewKeys(keys)) \in Nat
    BY FS_Subset, FS_CardinalityType, KeysAssumption DEF NewKeys
  <2> QED BY <1>3, <2>1, <2>2 DEF StoreAccepted, Causes
<1>4. CASE LoadRefused(j, keys)
  <2>1. Made("load", 0, "stale")
    BY <1>0, <1>4 DEF LoadRefused
  <2> QED BY <1>4, <2>1 DEF LoadRefused, Causes
<1>5. CASE LoadAccepted(j, keys)
  <2>1. Made("load", Cardinality(keys), "none")
    BY <1>0, <1>5 DEF LoadAccepted, counters
  <2>2. Cardinality(keys) \in Nat
    BY FS_Subset, FS_CardinalityType, KeysAssumption
  <2> QED BY <1>5, <2>1, <2>2 DEF LoadAccepted, Causes
<1> QED BY <1>1, <1>2, <1>3, <1>4, <1>5 DEF SubmitStore, SubmitLoad

(* The bookkeeping of jobs is an invariant.                                *)
THEOREM JobInvariance == Spec => []JobInv
<1>1. Init => JobInv
  BY DEF Init, JobInv, JobIds
<1>2. IInv /\ JobInv /\ [Next]_vars => JobInv'
  <2> SUFFICES ASSUME IInv, JobInv, [Next]_vars PROVE JobInv'
    OBVIOUS
  <2>1. ASSUME NEW j \in JobIds, NEW keys \in SUBSET Keys,
               SubmitStore(j, keys) \/ SubmitLoad(j, keys)
        PROVE  JobInv'
    BY <2>1, SubmitIsNewJob, NewJobKeepsJobInv DEF IInv
  <2>2. ASSUME NEW b \in outstanding, NEW ok \in BOOLEAN, CompleteBlock(b, ok)
        PROVE  JobInv'
    BY <2>2, CompleteKeepsJobInv
  <2>3. CASE GetFinishedJobs
    BY <2>3, GetFinishedKeepsJobInv
  <2>4. CASE ClearResidency \/ UNCHANGED vars
    BY <2>4 DEF ClearResidency, vars, jobState, JobInv
  <2> QED BY <2>1, <2>2, <2>3, <2>4 DEF Next
<1> QED BY <1>1, <1>2, Invariance, PTL DEF Spec

(* A job has at most one result, not before its last block settled, and    *)
(* the result is the truth about its blocks.                               *)
THEOREM ResultsAreTruthful == Spec => []ResultsTruthful
<1>1. IInv /\ JobInv => ResultsTruthful
  <2> SUFFICES ASSUME IInv, JobInv, NEW j \in JobIds
               PROVE  /\ Len(results[j]) <= 1
                      /\ results[j] # <<>> =>
                           /\ j \notin live /\ BlocksOf(j) = {}
                           /\ results[j][1] = (cause[j] = "none")
    BY DEF ResultsTruthful
  <2>1. CASE results[j] = <<>>
    BY <2>1
  <2>2. CASE results[j] # <<>>
    <3>1. results[j] = <<success[j]>> /\ j \notin live
      BY <2>2 DEF JobInv
    <3>2. BlocksOf(j) = {}
      BY <3>1 DEF BlocksOf, IInv, RemainingIsOwed
    <3>3. success[j] = (cause[j] = "none")
      BY DEF JobInv
    <3>4. Len(results[j]) = 1 /\ results[j][1] = success[j]
      BY <3>1
    <3> QED BY <3>1, <3>2, <3>3, <3>4
  <2> QED BY <2>1, <2>2
<1> QED BY <1>1, JobInvariance, Invariance, PTL
-----------------------------------------------------------------------------
(* The jobs of one direction that failed first for one of some causes.     *)
Failed(dir, why) == {j \in JobIds : direction[j] = dir /\ cause[j] \in why}

StoreCauses == {"inflight", "io"}
LoadCauses  == {"stale", "io"}

CountersInv ==
  /\ storeFailed = Cardinality(Failed("store", StoreCauses))
  /\ loadFailed = Cardinality(Failed("load", LoadCauses))
  /\ capacityRejected = Cardinality(Failed("store", {"capacity"}))

(* When one job that has not failed changes, each count goes up by one or  *)
(* stays.                                                                  *)
LEMMA OneJobChanges ==
  ASSUME NEW j \in JobIds, cause[j] = "none",
         \A i \in JobIds \ {j} : direction'[i] = direction[i] /\ cause'[i] = cause[i],
         NEW dir, NEW why, "none" \notin why
  PROVE  Cardinality(Failed(dir, why)') = Cardinality(Failed(dir, why)) +
           (IF direction'[j] = dir /\ cause'[j] \in why THEN 1 ELSE 0)
<1>1. IsFiniteSet(JobIds) /\ Failed(dir, why) \subseteq JobIds
  BY FS_Interval, MaxJobsAssumption DEF JobIds, Failed
<1>2. IsFiniteSet(Failed(dir, why)) /\ j \notin Failed(dir, why)
  BY <1>1, FS_Subset DEF Failed
<1>3. Cardinality(Failed(dir, why)) \in Nat
  BY <1>2, FS_CardinalityType
<1>4. CASE direction'[j] = dir /\ cause'[j] \in why
  <2>1. Failed(dir, why)' = Failed(dir, why) \cup {j}
    BY <1>4 DEF Failed
  <2> QED BY <1>2, <1>4, <2>1, FS_AddElement
<1>5. CASE ~(direction'[j] = dir /\ cause'[j] \in why)
  <2>1. Failed(dir, why)' = Failed(dir, why)
    BY <1>5 DEF Failed
  <2> QED BY <1>3, <1>5, <2>1
<1> QED BY <1>4, <1>5

(* A step that leaves directions and causes alone leaves the counts alone. *)
LEMMA NoJobChanges ==
  ASSUME UNCHANGED <<direction, cause, counters>>, CountersInv
  PROVE  CountersInv'
BY DEF CountersInv, Failed, counters

(* A job refused on arrival is counted where its cause says.               *)
LEMMA SubmitKeepsCounters ==
  ASSUME TypeOK, JobInv, CountersInv, NEW j \in JobIds, NEW keys \in SUBSET Keys,
         SubmitStore(j, keys) \/ SubmitLoad(j, keys)
  PROVE  CountersInv'
<1>1. PICK dir \in {"store", "load"}, n \in Nat, why \in Causes :
        /\ NewJob(j, dir, n, why = "none", why)
        /\ storeFailed' = storeFailed + (IF dir = "store" /\ why = "inflight" THEN 1 ELSE 0)
        /\ loadFailed' = loadFailed + (IF dir = "load" /\ why = "stale" THEN 1 ELSE 0)
        /\ capacityRejected' = capacityRejected + (IF dir = "store" /\ why = "capacity" THEN 1 ELSE 0)
        /\ why # "io"
        /\ dir = "store" => why # "stale"
        /\ dir = "load" => why \in {"none", "stale"}
  BY SubmitIsNewJob
<1>2. j = nextJob /\ nextJob \in Nat
  BY SubmitIsNewJob, MaxJobsAssumption DEF Admit, TypeOK
<1>3. cause[j] = "none"
  BY <1>2 DEF JobInv
<1>4. /\ direction'[j] = dir /\ cause'[j] = why
      /\ \A i \in JobIds \ {j} : direction'[i] = direction[i] /\ cause'[i] = cause[i]
  BY <1>1 DEF NewJob, TypeOK
<1>5. Cardinality(Failed("store", StoreCauses)') = Cardinality(Failed("store", StoreCauses)) +
        (IF dir = "store" /\ why \in StoreCauses THEN 1 ELSE 0)
  BY <1>3, <1>4, OneJobChanges DEF StoreCauses
<1>6. Cardinality(Failed("load", LoadCauses)') = Cardinality(Failed("load", LoadCauses)) +
        (IF dir = "load" /\ why \in LoadCauses THEN 1 ELSE 0)
  BY <1>3, <1>4, OneJobChanges DEF LoadCauses
<1>7. Cardinality(Failed("store", {"capacity"})') = Cardinality(Failed("store", {"capacity"})) +
        (IF dir = "store" /\ why \in {"capacity"} THEN 1 ELSE 0)
  BY <1>3, <1>4, OneJobChanges
<1>8. storeFailed' = Cardinality(Failed("store", StoreCauses)')
  BY <1>1, <1>5 DEF CountersInv, StoreCauses
<1>9. loadFailed' = Cardinality(Failed("load", LoadCauses)')
  BY <1>1, <1>6 DEF CountersInv, LoadCauses
<1>10. capacityRejected' = Cardinality(Failed("store", {"capacity"})')
  BY <1>1, <1>7 DEF CountersInv
<1> QED BY <1>8, <1>9, <1>10 DEF CountersInv

(* The first failed block of a job counts it, a later one does not.        *)
LEMMA CompleteKeepsCounters ==
  ASSUME IInv, JobInv, CountersInv, NEW b \in outstanding, NEW ok \in BOOLEAN,
         CompleteBlock(b, ok)
  PROVE  CountersInv'
<1>1. b.job \in JobIds /\ direction' = direction /\ capacityRejected' = capacityRejected
  BY DEF CompleteBlock, IInv, TypeOK, Block
<1>2. storeFailed \in Nat /\ loadFailed \in Nat
  BY DEF IInv, TypeOK
<1>3. success[b.job] = (cause[b.job] = "none")
  BY <1>1 DEF JobInv
<1>4. CASE ok \/ ~success[b.job]
  <2>1. cause' = cause
    BY <1>1, <1>3, <1>4 DEF CompleteBlock, IInv, TypeOK
  <2>2. storeFailed' = storeFailed /\ loadFailed' = loadFailed
    BY <1>2, <1>4 DEF CompleteBlock, StoreCompletes, LoadCompletes, MarkJobFailed
  <2> QED BY <1>1, <2>1, <2>2, NoJobChanges DEF counters
<1>5. CASE ~ok /\ success[b.job]
  <2>1. /\ cause[b.job] = "none" /\ cause'[b.job] = "io"
        /\ \A i \in JobIds \ {b.job} : direction'[i] = direction[i] /\ cause'[i] = cause[i]
    BY <1>1, <1>3, <1>5 DEF CompleteBlock, IInv, TypeOK
  <2>2. /\ storeFailed' = storeFailed + (IF direction[b.job] = "store" THEN 1 ELSE 0)
        /\ loadFailed' = loadFailed + (IF direction[b.job] = "load" THEN 1 ELSE 0)
    BY <1>5 DEF CompleteBlock, StoreCompletes, LoadCompletes, MarkJobFailed
  <2>3. Cardinality(Failed("store", StoreCauses)') = Cardinality(Failed("store", StoreCauses)) +
          (IF direction'[b.job] = "store" /\ cause'[b.job] \in StoreCauses THEN 1 ELSE 0)
    BY <1>1, <2>1, OneJobChanges DEF StoreCauses
  <2>4. Cardinality(Failed("load", LoadCauses)') = Cardinality(Failed("load", LoadCauses)) +
          (IF direction'[b.job] = "load" /\ cause'[b.job] \in LoadCauses THEN 1 ELSE 0)
    BY <1>1, <2>1, OneJobChanges DEF LoadCauses
  <2>5. Cardinality(Failed("store", {"capacity"})') = Cardinality(Failed("store", {"capacity"})) +
          (IF direction'[b.job] = "store" /\ cause'[b.job] \in {"capacity"} THEN 1 ELSE 0)
    BY <1>1, <2>1, OneJobChanges
  <2>6. capacityRejected' = Cardinality(Failed("store", {"capacity"})')
    <3>1. capacityRejected \in Nat /\ cause'[b.job] \notin {"capacity"}
      BY <2>1 DEF IInv, TypeOK
    <3> QED BY <1>1, <2>5, <3>1 DEF CountersInv
  <2>7. storeFailed' = Cardinality(Failed("store", StoreCauses)')
    BY <1>1, <2>1, <2>2, <2>3 DEF CountersInv, StoreCauses
  <2>8. loadFailed' = Cardinality(Failed("load", LoadCauses)')
    BY <1>1, <2>1, <2>2, <2>4 DEF CountersInv, LoadCauses
  <2> QED BY <2>6, <2>7, <2>8 DEF CountersInv
<1> QED BY <1>4, <1>5

(* A failed job is in exactly one counter, and is counted once.            *)
THEOREM CountersAreReconciled == Spec => []CountersReconcile
<1>1. Init => CountersInv
  <2> SUFFICES ASSUME Init PROVE CountersInv
    OBVIOUS
  <2>1. /\ Failed("store", StoreCauses) = {} /\ Failed("load", LoadCauses) = {}
        /\ Failed("store", {"capacity"}) = {}
    BY DEF Init, Failed, StoreCauses, LoadCauses
  <2> QED BY <2>1, FS_EmptySet DEF Init, CountersInv
<1>2. IInv /\ JobInv /\ CountersInv /\ [Next]_vars => CountersInv'
  <2> SUFFICES ASSUME IInv, JobInv, CountersInv, [Next]_vars PROVE CountersInv'
    OBVIOUS
  <2>1. ASSUME NEW j \in JobIds, NEW keys \in SUBSET Keys,
               SubmitStore(j, keys) \/ SubmitLoad(j, keys)
        PROVE  CountersInv'
    BY <2>1, SubmitKeepsCounters DEF IInv
  <2>2. ASSUME NEW b \in outstanding, NEW ok \in BOOLEAN, CompleteBlock(b, ok)
        PROVE  CountersInv'
    BY <2>2, CompleteKeepsCounters
  <2>3. CASE GetFinishedJobs \/ ClearResidency \/ UNCHANGED vars
    BY <2>3, NoJobChanges DEF GetFinishedJobs, ClearResidency, vars, jobState
  <2> QED BY <2>1, <2>2, <2>3 DEF Next
<1>3. CountersInv => CountersReconcile
  BY DEF CountersInv, CountersReconcile, Failed, StoreCauses, LoadCauses
<1> QED BY <1>1, <1>2, <1>3, JobInvariance, Invariance, PTL DEF Spec

-----------------------------------------------------------------------------
(* The life cycle of keys, as lookup shows it                              *)

(* The refinement mapping of ControlPlane, and when it has which value.    *)
phase == [k \in Keys |-> CASE Lookup(k) = "hit"   -> "resident"
                           [] Lookup(k) = "retry" -> "inflight"
                           [] Lookup(k) = "miss"  -> "miss"]

(* A key is resident, in flight or a miss as the ledger has it ...         *)
LEMMA PhaseCases ==
  ASSUME NEW k \in Keys
  PROVE  /\ k \in Resident => phase[k] = "resident"
         /\ k \notin Resident /\ k \in InFlight => phase[k] = "inflight"
         /\ k \notin Resident /\ k \notin InFlight => phase[k] = "miss"
BY DEF phase, Lookup

(* ... after a step as well.                                               *)
LEMMA PhaseCasesNext ==
  ASSUME NEW k \in Keys
  PROVE  /\ k \in Resident' => phase'[k] = "resident"
         /\ k \notin Resident' /\ k \in InFlight' => phase'[k] = "inflight"
         /\ k \notin Resident' /\ k \notin InFlight' => phase'[k] = "miss"
BY DEF phase, Lookup

(* The mapping has values KeyLifecycle knows.                              *)
LEMMA PhaseIsFunction ==
  /\ phase \in [Keys -> {"miss", "inflight", "resident"}]
  /\ phase' \in [Keys -> {"miss", "inflight", "resident"}]
BY DEF phase, Lookup

(* A step that leaves both mappings alone leaves every key as it is.       *)
LEMMA PhaseStutters ==
  ASSUME UNCHANGED <<key2slot, key2inflight>>
  PROVE  phase' = phase
BY DEF phase, Lookup, Resident, InFlight

(* An accepted store reserves its new keys, or has none.                   *)
LEMMA StoreReserves ==
  ASSUME IInv, NEW j \in JobIds, NEW keys \in SUBSET Keys, StoreAccepted(j, keys)
  PROVE  [Lifecycle!Next]_phase
<1> DEFINE new == NewKeys(keys)
<1>1. PICK slot \in Assignments(new) :
        key2inflight' = [k \in Keys |-> IF k \in new THEN slot[k] ELSE key2inflight[k]]
  BY DEF StoreAccepted
<1>2. new \in SUBSET Keys /\ ~CapacityExceeded(Cardinality(new))
  BY DEF StoreAccepted, NewKeys
<1>3. slot \in [new -> Slots]
  BY <1>2, AssignmentsWindow DEF IInv
<1>4. key2slot' = key2slot /\ Resident' = Resident
  BY DEF StoreAccepted, Resident
<1>5. \A k \in new : k \notin Resident /\ k \notin InFlight /\ k \in InFlight'
  BY <1>1, <1>2, <1>3 DEF StoreAccepted, NewKeys, InFlightDuplicate, InFlight, Slots, NoSlot
<1>6. \A k \in Keys \ new : k \in InFlight' <=> k \in InFlight
  BY <1>1 DEF InFlight
<1>7. phase' = [k \in Keys |-> IF k \in new THEN "inflight" ELSE phase[k]]
  <2>1. ASSUME NEW k \in Keys
        PROVE  phase'[k] = IF k \in new THEN "inflight" ELSE phase[k]
    BY <1>4, <1>5, <1>6, PhaseCases, PhaseCasesNext
  <2> QED BY <2>1, PhaseIsFunction
<1>8. \A k \in new : phase[k] = "miss"
  BY <1>2, <1>5, PhaseCases
<1>9. CASE new = {}
  BY <1>7, <1>9 DEF phase
<1>10. CASE new # {}
  <2>1. Lifecycle!Reserve(new)
    BY <1>2, <1>7, <1>8, <1>10 DEF Lifecycle!Reserve, Lifecycle!In, phase
  <2> QED BY <1>2, <2>1 DEF Lifecycle!Next
<1> QED BY <1>9, <1>10

(* A completion settles an in-flight key, drops a resident one, or changes *)
(* nothing a lookup shows.                                                 *)
LEMMA CompletionSettles ==
  ASSUME IInv, NEW b \in outstanding, NEW ok \in BOOLEAN, CompleteBlock(b, ok)
  PROVE  [Lifecycle!Next]_phase
<1>1. b \in Block /\ b.key \in Keys
  BY DEF IInv, TypeOK, Block
<1>2. \A k \in Keys \ {b.key} : key2slot'[k] = key2slot[k] /\ key2inflight'[k] = key2inflight[k]
  BY <1>1 DEF CompleteBlock, StoreCompletes, LoadCompletes, IInv, TypeOK
<1>3. \A k \in Keys \ {b.key} : phase'[k] = phase[k]
  BY <1>2 DEF phase, Lookup, Resident, InFlight
<1>4. ASSUME NEW s, phase'[b.key] = s
      PROVE  phase' = [phase EXCEPT ![b.key] = s]
  BY <1>1, <1>3, <1>4, PhaseIsFunction
<1>5. CASE StoreCompletes(b, ok)
  <2>1. b.key \in InFlight /\ b.key \notin Resident /\ key2inflight[b.key] \in Slots
    BY <1>5, <1>1 DEF CompleteBlock, StoreCompletes, Raises, IInv, SlotsDistinct, TypeOK, InFlight
  <2>2. b.key \notin InFlight' /\ (b.key \in Resident' <=> ok)
    BY <1>5, <1>1, <2>1 DEF StoreCompletes, Resident, InFlight, IInv, TypeOK, Slots, NoSlot
  <2>3. phase[b.key] = "inflight" /\ phase'[b.key] = (IF ok THEN "resident" ELSE "miss")
    BY <1>1, <2>1, <2>2, PhaseCases, PhaseCasesNext
  <2>4. Lifecycle!Settle(b.key, ok)
    BY <1>4, <2>3 DEF Lifecycle!Settle, phase
  <2> QED BY <1>1, <2>4 DEF Lifecycle!Next
<1>6. CASE LoadCompletes(b, ok) /\ (ok \/ b.key \notin Resident)
  <2>1. UNCHANGED <<key2slot, key2inflight>>
    BY <1>1, <1>6 DEF LoadCompletes, Resident, IInv, TypeOK
  <2> QED BY <2>1, PhaseStutters
<1>7. CASE LoadCompletes(b, ok) /\ ~ok /\ b.key \in Resident
  <2>1. b.key \notin InFlight' /\ b.key \notin Resident'
    BY <1>1, <1>7 DEF LoadCompletes, Resident, InFlight, IInv, TypeOK, SlotsDistinct
  <2>2. phase[b.key] = "resident" /\ phase'[b.key] = "miss"
    BY <1>1, <1>7, <2>1, PhaseCases, PhaseCasesNext
  <2>3. Lifecycle!Drop(b.key)
    BY <1>4, <2>2 DEF Lifecycle!Drop, phase
  <2> QED BY <1>1, <2>3 DEF Lifecycle!Next
<1> QED BY <1>5, <1>6, <1>7 DEF CompleteBlock

(* Seen through lookup the ledger implements the key life cycle.           *)
THEOREM LifecycleImplemented == Spec => ImplementsLifecycle
<1>1. Init => Lifecycle!Init
  BY DEF Init, Lifecycle!Init, Lookup, Resident, InFlight
<1>2. IInv /\ [Next]_vars => [Lifecycle!Next]_phase
  <2> SUFFICES ASSUME IInv, [Next]_vars PROVE [Lifecycle!Next]_phase
    OBVIOUS
  <2>1. ASSUME NEW j \in JobIds, NEW keys \in SUBSET Keys, SubmitStore(j, keys)
        PROVE  [Lifecycle!Next]_phase
    <3>1. CASE StoreAccepted(j, keys)
      BY <3>1, StoreReserves
    <3>2. CASE StoreDuplicate(j, keys) \/ StoreRejected(j, keys)
      BY <3>2, PhaseStutters DEF StoreDuplicate, StoreRejected, ledger
    <3> QED BY <2>1, <3>1, <3>2 DEF SubmitStore
  <2>2. ASSUME NEW j \in JobIds, NEW keys \in SUBSET Keys, SubmitLoad(j, keys)
        PROVE  [Lifecycle!Next]_phase
    BY <2>2, PhaseStutters DEF SubmitLoad, LoadRefused, LoadAccepted, ledger
  <2>3. ASSUME NEW b \in outstanding, NEW ok \in BOOLEAN, CompleteBlock(b, ok)
        PROVE  [Lifecycle!Next]_phase
    BY <2>3, CompletionSettles
  <2>4. CASE GetFinishedJobs
    BY <2>4, PhaseStutters DEF GetFinishedJobs, ledger
  <2>5. CASE ClearResidency
    <3>1. InFlight = {} /\ InFlight' = {} /\ Resident' = {}
      BY <2>5 DEF ClearResidency, Quiescent, InFlight, Resident
    <3>2. (\A k \in Keys : phase[k] # "inflight") /\ phase' = [k \in Keys |-> "miss"]
      <4>1. \A k \in Keys : phase[k] # "inflight"
        BY <3>1, PhaseCases
      <4>2. \A k \in Keys : phase'[k] = "miss"
        BY <3>1, PhaseCasesNext
      <4> QED BY <4>1, <4>2 DEF phase
    <3> QED BY <3>2 DEF Lifecycle!Next, Lifecycle!Clear, Lifecycle!In, phase
  <2>6. CASE UNCHANGED vars
    BY <2>6, PhaseStutters DEF vars, ledger
  <2> QED BY <2>1, <2>2, <2>3, <2>4, <2>5, <2>6 DEF Next
<1> QED BY <1>1, <1>2, Invariance, PTL DEF Spec, ImplementsLifecycle, Lifecycle!Spec, phase
=============================================================================
