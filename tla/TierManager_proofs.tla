-------------------------- MODULE TierManager_proofs --------------------------
(***************************************************************************)
(* Proofs about the adapter composed with the ledger, an engine that keeps *)
(* BlockIoContract and the slab, for every set of keys, slab capacity and  *)
(* number of jobs: the ledger finds the environment it assumes, no block   *)
(* is forgotten, a hit can be read and each job has one result.            *)
(***************************************************************************)
EXTENDS TierManager, ControlPlane_proofs

Statuses == {"new", "owed", "ready", "delivered"}

(* What the engine answers is a result.                                    *)
EngineTypeOK ==
  /\ status \in [Block -> Statuses]
  /\ outcome \in [Block -> BOOLEAN]

(* The contract's actions keep to these types.                             *)
LEMMA EngineTypes == TierSpec => []EngineTypeOK
<1>1. TierInit => EngineTypeOK
  BY DEF TierInit, Engine!Init, EngineTypeOK, Statuses
<1>2. EngineTypeOK /\ [TierNext]_tierVars => EngineTypeOK'
  <2> SUFFICES ASSUME EngineTypeOK, [TierNext]_tierVars PROVE EngineTypeOK'
    OBVIOUS
  <2>1. ASSUME NEW j \in JobIds, NEW keys \in SUBSET Keys, TierSubmit(j, keys)
        PROVE  EngineTypeOK'
    <3>1. PICK refused : Engine!Submit(outstanding' \ outstanding, refused)
      BY <2>1 DEF TierSubmit, EngineTakes
    <3> QED BY <3>1 DEF Engine!Submit, EngineTypeOK, Statuses
  <2>2. ASSUME NEW b \in Owed, NEW ok \in BOOLEAN, EngineCompletes(b, ok)
        PROVE  EngineTypeOK'
    BY <2>2 DEF EngineCompletes, Engine!Complete, EngineTypeOK, Statuses
  <2>3. CASE PollBegin \/ EngineDrained
    BY <2>3 DEF PollBegin, EngineDrained, TakeReady, Engine!Poll, Engine!Handed,
      EngineTypeOK, Statuses
  <2>4. CASE ShutdownCall
    BY <2>4 DEF ShutdownCall, Engine!Close, EngineTypeOK
  <2>5. CASE Feed \/ PollEnd \/ DrainCall \/ DrainEnd \/ TierClear \/ ShutdownReturns
    BY <2>5 DEF Feed, PollEnd, DrainCall, DrainEnd, TierClear, ShutdownReturns, io, EngineTypeOK
  <2>6. CASE UNCHANGED tierVars
    BY <2>6 DEF tierVars, io, EngineTypeOK
  <2> QED BY <2>1, <2>2, <2>3, <2>4, <2>5, <2>6 DEF TierNext
<1> QED BY <1>1, <1>2, PTL DEF TierSpec

(* Every step is a call to the ledger or leaves it alone.                  *)
LEMMA LedgerSteps ==
  ASSUME TypeOK, EngineTypeOK, [TierNext]_tierVars
  PROVE  [Next]_vars
<1>1. ASSUME NEW j \in JobIds, NEW keys \in SUBSET Keys, TierSubmit(j, keys)
      PROVE  Next
  BY <1>1 DEF TierSubmit, Next
<1>2. CASE Feed
  <2>1. PICK b \in Polled : CompleteBlock(b, outcome[b])
    BY <1>2 DEF Feed
  <2>2. b \in outstanding /\ outcome[b] \in BOOLEAN
    BY DEF Polled, TypeOK, EngineTypeOK
  <2> QED BY <2>1, <2>2 DEF Next
<1>3. CASE PollEnd \/ DrainEnd
  BY <1>3 DEF PollEnd, DrainEnd, Harvest, Next
<1>4. CASE TierClear
  BY <1>4 DEF TierClear, Next
<1>5. ASSUME NEW b \in Owed, NEW ok \in BOOLEAN, EngineCompletes(b, ok)
      PROVE  UNCHANGED vars
  BY <1>5 DEF EngineCompletes
<1>6. CASE PollBegin \/ DrainCall \/ EngineDrained \/ ShutdownCall \/ ShutdownReturns
  BY <1>6 DEF PollBegin, DrainCall, EngineDrained, ShutdownCall, ShutdownReturns
<1>7. CASE UNCHANGED tierVars
  BY <1>7 DEF tierVars
<1> QED BY <1>1, <1>2, <1>3, <1>4, <1>5, <1>6, <1>7 DEF TierNext

(* The composition is an environment of the ledger: whatever is proved of  *)
(* ControlPlane holds here too.                                            *)
THEOREM LedgerIsUsedAsAssumed == TierSpec => Spec
<1>1. TierInit => Init /\ TypeOK
  BY SlotCapacityAssumption, MaxJobsAssumption
  DEF TierInit, Init, TypeOK, JobIds, Causes, NoSlot
<1>2. TypeOK /\ EngineTypeOK /\ [TierNext]_tierVars => [Next]_vars /\ TypeOK'
  BY LedgerSteps, StepKeepsTypes
<1> QED BY <1>1, <1>2, EngineTypes, PTL DEF TierSpec, Spec

-----------------------------------------------------------------------------
(* The invariant of the composition                                        *)

Calls == {"idle", "pump", "drain", "drainPump", "stop"}

(* Types of what the adapter keeps.                                        *)
AdapterTypeOK ==
  /\ EngineTypeOK
  /\ DOMAIN slab = Slots
  /\ pc \in Calls
  /\ pendingResults \subseteq [job : JobIds, ok : BOOLEAN]
  /\ handed \in [JobIds -> Seq(BOOLEAN)]

(* The engine has blocks of the ledger only, ids not used yet have none,   *)
(* and a block counts as failed until its I/O succeeds.                    *)
BlocksKept ==
  /\ \A b \in Block : status[b] \in {"owed", "ready"} => b \in outstanding
  /\ \A b \in outstanding : status[b] # "new"
  /\ \A b \in outstanding : status[b] = "delivered" => pc \in {"pump", "drainPump"}
  /\ \A b \in Block : b.job >= nextJob => status[b] = "new"
  /\ \A b \in Block : status[b] \in {"new", "owed"} => ~outcome[b]

(* The slots of resident keys, of outstanding loads and of stores that     *)
(* succeeded hold the block they should.                                   *)
DataKept ==
  /\ ResidentDataPresent
  /\ \A b \in outstanding : direction[b.job] = "load" \/ outcome[b] => slab[b.slot] = b.key
  /\ LoadsReadTheirKey

(* A result is with the ledger, in _pending_results or handed out.         *)
ResultsKept ==
  /\ \A j \in JobIds : j < nextJob => j \in live \/ results[j] # <<>>
  /\ \A j \in JobIds : handed[j] # <<>> => handed[j] = results[j]
  /\ \A r \in pendingResults : results[r.job] = <<r.ok>> /\ handed[r.job] = <<>>
  /\ \A j \in JobIds : results[j] # <<>> =>
       handed[j] # <<>> \/ \E r \in pendingResults : r.job = j

TierInv == AdapterTypeOK /\ BlocksKept /\ DataKept /\ ResultsKept

(* What a submit call adds: blocks of a new job, whose slots are new or    *)
(* those of resident keys.                                                 *)
LEMMA NewBlocks ==
  ASSUME IInv, NEW j \in JobIds, NEW keys \in SUBSET Keys,
         SubmitStore(j, keys) \/ SubmitLoad(j, keys)
  PROVE  /\ j = nextJob /\ nextJob' = nextJob + 1 /\ nextJob \in Nat
         /\ j \notin live /\ live' = live \cup {j}
         /\ key2slot' = key2slot /\ results' = results
         /\ outstanding \subseteq outstanding'
         /\ \A b \in outstanding : b.job # j /\ direction'[b.job] = direction[b.job]
         /\ \A b \in outstanding' \ outstanding :
              /\ b.job = j
              /\ \/ direction'[j] = "store" /\ b.slot >= nextSlot
                 \/ direction'[j] = "load" /\ b.key \in Resident /\ b.slot = key2slot[b.key]
<1>1. Admit(j, keys) /\ \E dir, n, ok, why : NewJob(j, dir, n, ok, why)
  BY DEF SubmitStore, StoreDuplicate, StoreRejected, StoreAccepted, SubmitLoad, LoadRefused,
    LoadAccepted
<1>2. /\ j = nextJob /\ nextJob' = nextJob + 1 /\ nextJob \in Nat
      /\ j \notin live /\ live' = live \cup {j} /\ results' = results
  BY <1>1, MaxJobsAssumption DEF Admit, NewJob, IInv, TypeOK
<1>3. \A b \in outstanding : b.job # j /\ direction'[b.job] = direction[b.job]
  <2>1. \A b \in outstanding : direction'[b.job] = direction[b.job]
    BY <1>1, NewJobDirection DEF IInv
  <2> QED BY <1>2, <2>1 DEF IInv, RemainingIsOwed
<1>4. key2slot' = key2slot
  BY DEF SubmitStore, StoreDuplicate, StoreRejected, StoreAccepted, SubmitLoad, LoadRefused,
    LoadAccepted, ledger
<1>5. CASE StoreAccepted(j, keys)
  <2> DEFINE new == NewKeys(keys)
  <2>1. PICK slot \in Assignments(new) : outstanding' = outstanding \cup BlocksFor(j, new, slot)
    BY <1>5 DEF StoreAccepted
  <2>2. new \in SUBSET Keys /\ ~CapacityExceeded(Cardinality(new))
    BY <1>5 DEF StoreAccepted, NewKeys
  <2>3. \A k \in new : nextSlot <= slot[k]
    BY <2>2, AssignmentsWindow DEF IInv
  <2>4. slot \in [new -> Slots]
    BY <2>2, AssignmentsWindow DEF IInv
  <2>5. direction'[j] = "store"
    BY <1>1, <1>5, NewJobDirection DEF IInv, StoreAccepted
  <2>6. \A b \in BlocksFor(j, new, slot) : b.job = j /\ b.slot >= nextSlot
    BY <2>3, <2>4, SlotCapacityAssumption DEF BlocksFor, Slots, IInv, TypeOK
  <2> HIDE DEF new
  <2> QED BY <1>2, <1>3, <1>4, <2>1, <2>5, <2>6
<1>6. CASE LoadAccepted(j, keys)
  <2>1. outstanding' = outstanding \cup BlocksFor(j, keys, key2slot) /\ keys \subseteq Resident
    BY <1>6 DEF LoadAccepted, NotAllResident
  <2>2. direction'[j] = "load"
    BY <1>1, <1>6, NewJobDirection DEF IInv, LoadAccepted
  <2>3. \A b \in BlocksFor(j, keys, key2slot) :
          b.job = j /\ b.key \in Resident /\ b.slot = key2slot[b.key]
    BY <2>1 DEF BlocksFor
  <2> QED BY <1>2, <1>3, <1>4, <2>1, <2>2, <2>3
<1>7. CASE StoreDuplicate(j, keys) \/ StoreRejected(j, keys) \/ LoadRefused(j, keys)
  <2>1. outstanding' = outstanding
    BY <1>7 DEF StoreDuplicate, StoreRejected, LoadRefused
  <2> QED BY <1>2, <1>3, <1>4, <2>1
<1> QED BY <1>5, <1>6, <1>7 DEF SubmitStore, SubmitLoad

(* A submit call hands all its blocks to the engine, which answers some at *)
(* once, and spoils the slots it may now write.                            *)
LEMMA SubmitKeepsTierInv ==
  ASSUME IInv, IInv', TierInv, NEW j \in JobIds, NEW keys \in SUBSET Keys, TierSubmit(j, keys)
  PROVE  BlocksKept' /\ DataKept' /\ ResultsKept' /\ DOMAIN slab' = Slots
<1> DEFINE new == outstanding' \ outstanding
<1>1. /\ j = nextJob /\ nextJob' = nextJob + 1 /\ nextJob \in Nat
      /\ j \notin live /\ live' = live \cup {j}
      /\ key2slot' = key2slot /\ results' = results
      /\ outstanding \subseteq outstanding'
      /\ \A b \in outstanding : b.job # j /\ direction'[b.job] = direction[b.job]
      /\ \A b \in new :
           /\ b.job = j
           /\ \/ direction'[j] = "store" /\ b.slot >= nextSlot
              \/ direction'[j] = "load" /\ b.key \in Resident /\ b.slot = key2slot[b.key]
  BY NewBlocks DEF TierSubmit
<1>2. PICK refused \in SUBSET new :
        /\ Engine!Submit(new, refused)
        /\ slab' = [s \in Slots |->
                      IF \E b \in new \ refused : direction'[b.job] = "store" /\ b.slot = s
                      THEN NoData ELSE slab[s]]
        /\ fetched' = fetched
  BY DEF TierSubmit, EngineTakes
<1>3. pc = "idle" /\ UNCHANGED <<pc, pendingResults, handed>>
  BY DEF TierSubmit, adapter
<1>4. outstanding \subseteq Block /\ outstanding' \subseteq Block /\ new \subseteq Block
  BY DEF IInv, TypeOK
<1>5. outstanding' = outstanding \cup new /\ outstanding \cap new = {}
  BY <1>1
<1>6. /\ \A b \in new : status[b] = "new" /\ status'[b] \in {"owed", "ready"}
      /\ \A b \in Block \ new : status'[b] = status[b]
      /\ outcome' = outcome
  BY <1>2, <1>4 DEF Engine!Submit, Engine!In
<1> HIDE DEF new
<1>7. BlocksKept'
  <2>1. ASSUME NEW b \in Block PROVE status'[b] \in {"owed", "ready"} => b \in outstanding'
    BY <1>5, <1>6 DEF TierInv, BlocksKept
  <2>2. ASSUME NEW b \in outstanding'
        PROVE  /\ status'[b] # "new"
               /\ status'[b] = "delivered" => pc' \in {"pump", "drainPump"}
    BY <1>3, <1>4, <1>5, <1>6 DEF TierInv, BlocksKept
  <2>3. ASSUME NEW b \in Block, b.job >= nextJob' PROVE status'[b] = "new"
    <3>1. b.job \in Nat /\ b.job >= nextJob /\ b.job # j
      BY <1>1, <2>3 DEF Block, JobIds
    <3> QED BY <1>1, <1>6, <3>1 DEF TierInv, BlocksKept
  <2>4. ASSUME NEW b \in Block PROVE status'[b] \in {"new", "owed"} => ~outcome'[b]
    BY <1>6 DEF TierInv, BlocksKept
  <2> QED BY <2>1, <2>2, <2>3, <2>4 DEF BlocksKept
<1>8. ASSUME NEW s \in Slots, s < nextSlot \/ direction'[j] = "load"
      PROVE  slab'[s] = slab[s]
  <2>1. ASSUME NEW b \in new, direction'[b.job] = "store" PROVE b.slot # s
    BY <1>1, <1>4, <1>8, <2>1 DEF Block, Slots, IInv, TypeOK
  <2> QED BY <1>2, <2>1
<1>9. ASSUME NEW k \in Resident PROVE slab'[key2slot[k]] = k
  <2>1. key2slot[k] \in Slots /\ key2slot[k] < nextSlot
    BY <1>9 DEF Resident, IInv, TypeOK, SlotsBelowCursor
  <2> QED BY <1>8, <2>1 DEF TierInv, DataKept, ResidentDataPresent
<1>10. Resident' = Resident
  BY <1>1 DEF Resident
<1>11. ASSUME NEW b \in outstanding', direction'[b.job] = "load" \/ outcome'[b]
       PROVE  slab'[b.slot] = b.key
  <2>1. CASE b \in outstanding
    <3>1. b.slot \in Slots /\ b.slot < nextSlot
      BY <1>4, <2>1 DEF Block, IInv, SlotsBelowCursor
    <3>2. slab[b.slot] = b.key
      BY <1>1, <1>6, <1>11, <2>1 DEF TierInv, DataKept
    <3> QED BY <1>8, <3>1, <3>2
  <2>2. CASE b \in new
    <3>1. direction'[j] = "load"
      BY <1>1, <1>4, <1>6, <1>11, <2>2 DEF TierInv, BlocksKept
    <3> QED BY <1>1, <1>9, <2>2, <3>1
  <2> QED BY <1>5, <2>1, <2>2
<1>12. DataKept'
  <2>1. ResidentDataPresent'
    BY <1>1, <1>9, <1>10 DEF ResidentDataPresent
  <2>2. LoadsReadTheirKey'
    BY <1>2 DEF TierInv, DataKept, LoadsReadTheirKey
  <2> QED BY <1>11, <2>1, <2>2 DEF DataKept
<1>13. ResultsKept'
  <2>1. ASSUME NEW i \in JobIds, i < nextJob' PROVE i \in live' \/ results'[i] # <<>>
    BY <1>1, <2>1 DEF TierInv, ResultsKept, JobIds
  <2> QED BY <1>1, <1>3, <2>1 DEF TierInv, ResultsKept
<1> QED BY <1>2, <1>7, <1>12, <1>13

(* The engine moves the data of a block it owes, in a slot nothing else    *)
(* uses when that is a store.                                              *)
LEMMA CompletionKeepsTierInv ==
  ASSUME IInv, TierInv, NEW b \in Owed, NEW ok \in BOOLEAN, EngineCompletes(b, ok)
  PROVE  BlocksKept' /\ DataKept' /\ ResultsKept' /\ DOMAIN slab' = Slots
<1>1. /\ b \in Block /\ status[b] = "owed" /\ b \in outstanding
      /\ b.slot \in Slots /\ b.key \in Keys /\ b.job \in JobIds
      /\ direction[b.job] \in {"store", "load"} /\ ~outcome[b]
  BY DEF Owed, Engine!In, TierInv, BlocksKept, Block, IInv, TypeOK
<1>2. /\ status' = [status EXCEPT ![b] = "ready"] /\ outcome' = [outcome EXCEPT ![b] = ok]
      /\ UNCHANGED <<vars, pc, pendingResults, handed>>
  BY DEF EngineCompletes, Engine!Complete, adapter
<1>3. UNCHANGED <<key2slot, live, direction, nextJob, outstanding, results>>
  BY <1>2 DEF vars, ledger, jobState
<1>4. /\ status'[b] = "ready" /\ outcome'[b] = ok
      /\ \A c \in Block \ {b} : status'[c] = status[c] /\ outcome'[c] = outcome[c]
  BY <1>1, <1>2 DEF TierInv, AdapterTypeOK, EngineTypeOK
<1>5. BlocksKept'
  <2>1. b.job < nextJob
    BY <1>1 DEF TierInv, BlocksKept, Block, JobIds, IInv, TypeOK
  <2>2. ASSUME NEW c \in Block
        PROVE  /\ status'[c] \in {"owed", "ready"} => c \in outstanding'
               /\ c.job >= nextJob' => status'[c] = "new"
               /\ status'[c] \in {"new", "owed"} => ~outcome'[c]
    <3>1. CASE c = b
      BY <1>1, <1>3, <1>4, <2>1, <3>1 DEF Block, JobIds, IInv, TypeOK
    <3>2. CASE c # b
      BY <1>3, <1>4, <3>2 DEF TierInv, BlocksKept
    <3> QED BY <3>1, <3>2
  <2>3. ASSUME NEW c \in outstanding'
        PROVE  /\ status'[c] # "new"
               /\ status'[c] = "delivered" => pc' \in {"pump", "drainPump"}
    BY <1>2, <1>3, <1>4 DEF TierInv, BlocksKept, IInv, TypeOK
  <2> QED BY <2>2, <2>3 DEF BlocksKept
<1>6. CASE ok /\ direction[b.job] = "store"
  <2>1. slab' = [slab EXCEPT ![b.slot] = b.key] /\ fetched' = fetched
    BY <1>6 DEF EngineCompletes
  <2>2. slab'[b.slot] = b.key /\ \A s \in Slots \ {b.slot} : slab'[s] = slab[s]
    BY <1>1, <2>1 DEF TierInv, AdapterTypeOK
  <2>3. b \in StoreBlocks /\ key2inflight[b.key] = b.slot
    BY <1>1, <1>6 DEF StoreBlocks, IInv, InFlightIsBacked
  <2>4. ASSUME NEW k \in Resident PROVE slab'[key2slot[k]] = k
    <3>1. k \in Keys /\ key2slot[k] \in Slots /\ key2slot[k] # b.slot
      BY <1>1, <2>3 DEF Resident, IInv, TypeOK, SlotsDistinct
    <3> QED BY <2>2, <3>1 DEF TierInv, DataKept, ResidentDataPresent
  <2>5. ASSUME NEW c \in outstanding, direction[c.job] = "load" \/ outcome'[c]
        PROVE  slab'[c.slot] = c.key
    <3>1. CASE c = b
      BY <2>2, <3>1
    <3>2. CASE c # b
      <4>1. c.slot \in Slots /\ c.slot # b.slot /\ outcome'[c] = outcome[c]
        BY <1>4, <2>3, <3>2 DEF IInv, TypeOK, Block, WritesExclusive
      <4> QED BY <2>2, <2>5, <4>1 DEF TierInv, DataKept
    <3> QED BY <3>1, <3>2
  <2>6. DataKept'
    BY <1>3, <2>1, <2>4, <2>5
    DEF TierInv, DataKept, ResidentDataPresent, LoadsReadTheirKey, Resident
  <2> QED BY <1>2, <1>3, <1>5, <2>1, <2>6 DEF TierInv, AdapterTypeOK, ResultsKept
<1>7. CASE ~(ok /\ direction[b.job] = "store")
  <2>1. slab' = slab
    BY <1>7 DEF EngineCompletes
  <2>2. LoadsReadTheirKey'
    <3>1. CASE direction[b.job] = "load"
      <4>1. slab[b.slot] = b.key
        BY <1>1, <3>1 DEF TierInv, DataKept
      <4> QED BY <4>1 DEF EngineCompletes, TierInv, DataKept, LoadsReadTheirKey
    <3>2. CASE direction[b.job] # "load"
      BY <3>2 DEF EngineCompletes, TierInv, DataKept, LoadsReadTheirKey
    <3> QED BY <3>1, <3>2
  <2>3. ASSUME NEW c \in outstanding, direction[c.job] = "load" \/ outcome'[c]
        PROVE  slab'[c.slot] = c.key
    <3>1. direction[c.job] = "load" \/ outcome[c]
      BY <1>1, <1>4, <1>7, <2>3 DEF IInv, TypeOK
    <3> QED BY <2>1, <3>1 DEF TierInv, DataKept
  <2>4. DataKept'
    BY <1>3, <2>1, <2>2, <2>3 DEF TierInv, DataKept, ResidentDataPresent, Resident
  <2> QED BY <1>2, <1>3, <1>5, <2>1, <2>4 DEF TierInv, AdapterTypeOK, ResultsKept
<1> QED BY <1>6, <1>7

(* A store that is settled makes its own slot resident if it succeeded.    *)
LEMMA FeedKeepsTierInv ==
  ASSUME IInv, IInv', TierInv, Feed
  PROVE  BlocksKept' /\ DataKept' /\ ResultsKept' /\ DOMAIN slab' = Slots
<1>1. PICK b \in Polled : CompleteBlock(b, outcome[b])
  BY DEF Feed
<1>2. /\ b \in outstanding /\ b \in Block /\ b.key \in Keys /\ status[b] = "delivered"
      /\ outstanding' = outstanding \ {b}
      /\ UNCHANGED <<live, direction, nextJob, results, io, adapter>>
  BY <1>1 DEF Polled, Feed, CompleteBlock, IInv, TypeOK, Block
<1>3. UNCHANGED <<status, outcome, slab, fetched, pc, pendingResults, handed>>
  BY <1>2 DEF io, adapter
<1>4. BlocksKept'
  <2>1. ASSUME NEW c \in Block, status[c] \in {"owed", "ready"} PROVE c \in outstanding'
    BY <1>2, <2>1 DEF TierInv, BlocksKept
  <2> QED BY <1>2, <1>3, <2>1 DEF TierInv, BlocksKept
<1>5. ResidentDataPresent'
  <2> SUFFICES ASSUME NEW k \in Resident' PROVE slab[key2slot'[k]] = k
    BY <1>3 DEF ResidentDataPresent
  <2>1. CASE key2slot'[k] = key2slot[k]
    BY <2>1 DEF Resident, TierInv, DataKept, ResidentDataPresent
  <2>2. CASE key2slot'[k] # key2slot[k]
    <3>1. k = b.key /\ StoreCompletes(b, outcome[b]) /\ outcome[b]
      BY <1>1, <1>2, <2>2 DEF CompleteBlock, StoreCompletes, LoadCompletes, Resident, IInv, TypeOK
    <3>2. key2slot'[k] = key2inflight[b.key]
      BY <1>2, <3>1 DEF StoreCompletes, IInv, TypeOK
    <3>3. key2inflight[b.key] = b.slot
      BY <1>2, <3>1 DEF StoreCompletes, StoreBlocks, IInv, InFlightIsBacked
    <3> QED BY <1>2, <3>1, <3>2, <3>3 DEF TierInv, DataKept
  <2> QED BY <2>1, <2>2
<1>6. DataKept'
  BY <1>2, <1>3, <1>5 DEF TierInv, DataKept, LoadsReadTheirKey
<1> QED BY <1>2, <1>3, <1>4, <1>6 DEF TierInv, AdapterTypeOK, ResultsKept

(* What a poll or a drain takes is in the hands of a call that feeds it.   *)
LEMMA TakeKeepsTierInv ==
  ASSUME IInv, TierInv, PollBegin \/ EngineDrained
  PROVE  BlocksKept' /\ DataKept' /\ ResultsKept' /\ DOMAIN slab' = Slots
<1>1. /\ pc' \in {"pump", "drainPump"}
      /\ outcome' = outcome
      /\ UNCHANGED <<vars, slab, fetched, pendingResults, handed>>
      /\ \/ status' = [b \in Block |-> IF status[b] = "ready" THEN "delivered" ELSE status[b]]
         \/ status' = status
  BY DEF PollBegin, EngineDrained, TakeReady, Engine!Poll, Engine!Handed
<1>2. UNCHANGED <<key2slot, live, direction, nextJob, outstanding, results>>
  BY <1>1 DEF vars, ledger, jobState
<1>3. \A b \in Block :
        status'[b] = status[b] \/ (status[b] = "ready" /\ status'[b] = "delivered")
  BY <1>1
<1>4. BlocksKept'
  <2>1. ASSUME NEW b \in Block
        PROVE  /\ status'[b] \in {"owed", "ready"} => b \in outstanding'
               /\ b.job >= nextJob' => status'[b] = "new"
               /\ status'[b] \in {"new", "owed"} => ~outcome'[b]
    BY <1>1, <1>2, <1>3 DEF TierInv, BlocksKept
  <2>2. ASSUME NEW b \in outstanding' PROVE status'[b] # "new"
    BY <1>2, <1>3 DEF TierInv, BlocksKept, IInv, TypeOK
  <2> QED BY <1>1, <2>1, <2>2 DEF BlocksKept
<1>5. DataKept'
  BY <1>1, <1>2 DEF TierInv, DataKept, ResidentDataPresent, LoadsReadTheirKey, Resident
<1> QED BY <1>1, <1>2, <1>4, <1>5 DEF TierInv, AdapterTypeOK, ResultsKept

(* The sequence of nothing, and of one thing.                              *)
LEMMA ShortSequences ==
  /\ SetToSeq({}) = <<>>
  /\ \A x : SetToSeq({x}) = <<x>>
<1>1. SetToSeq({}) = <<>>
  <2>1. <<>> \in [1 .. Cardinality({}) -> {}] /\ IsInjective(<<>>)
    BY FS_EmptySet DEF IsInjective
  <2>2. SetToSeq({}) \in [1 .. Cardinality({}) -> {}]
    BY <2>1 DEF SetToSeq
  <2>3. Cardinality({}) = 0
    BY FS_EmptySet
  <2>4. \A f \in [1 .. 0 -> {}] : f = <<>>
    OBVIOUS
  <2> QED BY <2>2, <2>3, <2>4
<1>2. ASSUME NEW x PROVE SetToSeq({x}) = <<x>>
  <2>1. Cardinality({x}) = 1
    BY FS_Singleton
  <2>2. <<x>> \in [1 .. 1 -> {x}] /\ IsInjective(<<x>>)
    BY DEF IsInjective
  <2>3. SetToSeq({x}) \in [1 .. 1 -> {x}]
    BY <2>1, <2>2 DEF SetToSeq
  <2>4. \A f \in [1 .. 1 -> {x}] : f = <<x>>
    OBVIOUS
  <2> QED BY <2>3, <2>4
<1> QED BY <1>1, <1>2

(* What a job has been handed when it had some and a poll returns res.     *)
HandedAfter(had, j, res) == had \o SetToSeq({r.ok : r \in {r \in res : r.job = j}})

(* The one result a poll has for a job, handed out.                        *)
LEMMA OneDelivery ==
  ASSUME NEW res, NEW j, NEW ok, \A r \in res : r.job = j => r.ok = ok,
         \E r \in res : r.job = j
  PROVE  HandedAfter(<<>>, j, res) = <<ok>>
<1> DEFINE answers == {r.ok : r \in {r \in res : r.job = j}}
<1>1. answers = {ok}
  OBVIOUS
<1>2. SetToSeq(answers) = <<ok>>
  BY <1>1, ShortSequences
<1>3. <<>> \o <<ok>> = <<ok>>
  OBVIOUS
<1> QED BY <1>2, <1>3 DEF HandedAfter

(* A job a poll has nothing for.                                           *)
LEMMA NoDelivery ==
  ASSUME NEW res, NEW j, NEW had \in Seq(BOOLEAN), ~(\E r \in res : r.job = j)
  PROVE  HandedAfter(had, j, res) = had
<1> DEFINE answers == {r.ok : r \in {r \in res : r.job = j}}
<1>1. answers = {}
  OBVIOUS
<1>2. SetToSeq(answers) = <<>>
  BY <1>1, ShortSequences
<1>3. had \o <<>> = had
  OBVIOUS
<1> QED BY <1>2, <1>3 DEF HandedAfter

(* What get_finished_jobs of the ledger hands to the adapter.              *)
LEMMA HarvestFacts ==
  ASSUME IInv, JobInv, TierInv, Harvest
  PROVE  /\ UNCHANGED <<key2slot, direction, nextJob, outstanding>>
         /\ live' = live \ Finished
         /\ \A j \in Finished :
              /\ j \in JobIds /\ success[j] \in BOOLEAN
              /\ handed[j] = <<>> /\ results'[j] = <<success[j]>>
              /\ ~(\E r \in pendingResults : r.job = j)
         /\ \A j \in JobIds \ Finished : results'[j] = results[j]
         /\ \A r \in Harvested : r.job \in Finished /\ r.ok = success[r.job]
         /\ \A j \in Finished : \E r \in Harvested : r.job = j
<1>1. \A j \in Finished : j \in JobIds /\ success[j] \in BOOLEAN /\ results[j] = <<>>
  BY DEF Finished, IInv, TypeOK, JobInv
<1>2. \A j \in Finished : handed[j] = <<>> /\ ~(\E r \in pendingResults : r.job = j)
  <2>1. \A j \in Finished : handed[j] = <<>>
    BY <1>1 DEF TierInv, ResultsKept
  <2>2. ASSUME NEW r \in pendingResults PROVE r.job \notin Finished
    <3>1. results[r.job] = <<r.ok>>
      BY DEF TierInv, ResultsKept
    <3>2. <<r.ok>> # <<>>
      OBVIOUS
    <3> QED BY <1>1, <3>1, <3>2
  <2> QED BY <2>1, <2>2
<1>3. /\ UNCHANGED <<key2slot, direction, nextJob, outstanding>>
      /\ live' = live \ Finished
      /\ \A j \in Finished : results'[j] = Append(<<>>, success[j])
      /\ \A j \in JobIds \ Finished : results'[j] = results[j]
  <2>1. CASE GetFinishedJobs
    BY <1>1, <2>1 DEF GetFinishedJobs, ledger, jobState
  <2>2. CASE Finished = {} /\ UNCHANGED vars
    BY <2>2 DEF vars, ledger, jobState
  <2> QED BY <2>1, <2>2 DEF Harvest
<1>4. \A x : Append(<<>>, x) = <<x>>
  OBVIOUS
<1>5. \A r \in Harvested : r.job \in Finished /\ r.ok = success[r.job]
  BY DEF Harvested
<1>6. ASSUME NEW j \in Finished PROVE \E r \in Harvested : r.job = j
  <2>1. [job |-> j, ok |-> success[j]] \in Harvested
    BY DEF Harvested
  <2> QED BY <2>1
<1> QED BY <1>1, <1>2, <1>3, <1>4, <1>5, <1>6

(* After a harvest that fed all it had polled, blocks and data are as they *)
(* should be between calls.                                                *)
LEMMA HarvestKeepsBlocks ==
  ASSUME IInv, JobInv, TierInv, Harvest, Polled = {}, UNCHANGED io
  PROVE  BlocksKept' /\ DataKept' /\ DOMAIN slab' = Slots
<1>1. UNCHANGED <<key2slot, direction, nextJob, outstanding, status, outcome, slab, fetched>>
  BY HarvestFacts DEF io
<1>2. \A b \in outstanding : status[b] # "delivered"
  BY DEF Polled
<1>3. BlocksKept'
  BY <1>1, <1>2 DEF TierInv, BlocksKept
<1>4. DataKept'
  BY <1>1 DEF TierInv, DataKept, ResidentDataPresent, LoadsReadTheirKey, Resident
<1> QED BY <1>1, <1>3, <1>4 DEF TierInv, AdapterTypeOK

(* The first part of ResultsKept follows from the ledger alone.            *)
LEMMA HarvestKeepsJobs ==
  ASSUME IInv, JobInv, TierInv, Harvest
  PROVE  \A j \in JobIds : j < nextJob' => j \in live' \/ results'[j] # <<>>
<1> SUFFICES ASSUME NEW j \in JobIds, j < nextJob' PROVE j \in live' \/ results'[j] # <<>>
  OBVIOUS
<1>1. j < nextJob /\ live' = live \ Finished
  BY HarvestFacts
<1>2. CASE j \in Finished
  <2>1. results'[j] = <<success[j]>>
    BY <1>2, HarvestFacts
  <2> QED BY <2>1
<1>3. CASE j \notin Finished
  BY <1>1, <1>3, HarvestFacts DEF TierInv, ResultsKept
<1> QED BY <1>2, <1>3

(* get_finished_jobs hands out what drains kept and what is finished.      *)
LEMMA PollEndKeepsTierInv ==
  ASSUME IInv, JobInv, TierInv, PollEnd
  PROVE  /\ BlocksKept' /\ DataKept' /\ ResultsKept' /\ DOMAIN slab' = Slots
         /\ handed' \in [JobIds -> Seq(BOOLEAN)] /\ pendingResults' = {}
<1> DEFINE res == pendingResults \cup Harvested
<1>1. /\ Harvest /\ Polled = {} /\ UNCHANGED io /\ pendingResults' = {}
      /\ handed' = [j \in JobIds |-> HandedAfter(handed[j], j, res)]
  BY DEF PollEnd, Deliver, HandedAfter
<1>2. \A j \in JobIds : handed[j] \in Seq(BOOLEAN)
  BY DEF TierInv, AdapterTypeOK
<1>3. res = pendingResults \cup Harvested
  OBVIOUS
<1> HIDE DEF res
<1>4. ASSUME NEW j \in JobIds, j \in Finished
      PROVE  handed'[j] = <<success[j]>> /\ results'[j] = <<success[j]>>
  <2>1. handed[j] = <<>> /\ results'[j] = <<success[j]>>
    BY <1>1, <1>4, HarvestFacts
  <2>2. /\ \A r \in res : r.job = j => r.ok = success[j]
        /\ \E r \in res : r.job = j
    BY <1>1, <1>3, <1>4, HarvestFacts
  <2>3. HandedAfter(<<>>, j, res) = <<success[j]>>
    BY <2>2, OneDelivery
  <2> QED BY <1>1, <2>1, <2>3
<1>5. ASSUME NEW j \in JobIds, j \notin Finished, NEW p \in pendingResults, p.job = j
      PROVE  handed'[j] = <<p.ok>> /\ results'[j] = <<p.ok>>
  <2>1. results[j] = <<p.ok>> /\ handed[j] = <<>> /\ p.ok \in BOOLEAN
    BY <1>5 DEF TierInv, AdapterTypeOK, ResultsKept
  <2>2. ASSUME NEW r \in res, r.job = j PROVE r.ok = p.ok
    <3>1. r \in pendingResults
      BY <1>1, <1>3, <1>5, <2>2, HarvestFacts
    <3>2. results[j] = <<r.ok>>
      BY <2>2, <3>1 DEF TierInv, ResultsKept
    <3> QED BY <2>1, <3>2
  <2>3. HandedAfter(<<>>, j, res) = <<p.ok>>
    <3>1. p \in res
      BY <1>3
    <3> QED BY <1>5, <2>2, <3>1, OneDelivery
  <2>4. results'[j] = results[j]
    BY <1>1, <1>5, HarvestFacts
  <2> QED BY <1>1, <2>1, <2>3, <2>4
<1>6. ASSUME NEW j \in JobIds, j \notin Finished, ~(\E r \in pendingResults : r.job = j)
      PROVE  handed'[j] = handed[j] /\ results'[j] = results[j]
  <2>1. ~(\E r \in res : r.job = j)
    BY <1>1, <1>3, <1>6, HarvestFacts
  <2>2. HandedAfter(handed[j], j, res) = handed[j]
    BY <1>2, <2>1, NoDelivery
  <2> QED BY <1>1, <1>6, <2>2, HarvestFacts
<1>7. ASSUME NEW j \in JobIds
      PROVE  /\ handed'[j] \in Seq(BOOLEAN)
             /\ handed'[j] # <<>> => handed'[j] = results'[j]
             /\ results'[j] # <<>> => handed'[j] # <<>>
  <2>1. CASE j \in Finished
    <3>1. handed'[j] = <<success[j]>> /\ results'[j] = <<success[j]>> /\ success[j] \in BOOLEAN
      BY <1>1, <1>4, <2>1, HarvestFacts
    <3> QED BY <3>1
  <2>2. CASE j \notin Finished /\ \E p \in pendingResults : p.job = j
    <3>1. PICK p \in pendingResults : p.job = j
      BY <2>2
    <3>2. handed'[j] = <<p.ok>> /\ results'[j] = <<p.ok>> /\ p.ok \in BOOLEAN
      BY <1>5, <2>2, <3>1 DEF TierInv, AdapterTypeOK
    <3> QED BY <3>2
  <2>3. CASE j \notin Finished /\ ~(\E r \in pendingResults : r.job = j)
    BY <1>2, <1>6, <2>3 DEF TierInv, ResultsKept
  <2> QED BY <2>1, <2>2, <2>3
<1>8. handed' \in [JobIds -> Seq(BOOLEAN)]
  BY <1>1, <1>7
<1>9. ResultsKept'
  BY <1>1, <1>7, HarvestKeepsJobs DEF ResultsKept
<1> QED BY <1>1, <1>8, <1>9, HarvestKeepsBlocks

(* drain_jobs keeps what is finished for the next get_finished_jobs.       *)
LEMMA DrainEndKeepsTierInv ==
  ASSUME IInv, JobInv, TierInv, DrainEnd
  PROVE  /\ BlocksKept' /\ DataKept' /\ ResultsKept' /\ DOMAIN slab' = Slots
         /\ pendingResults' \subseteq [job : JobIds, ok : BOOLEAN]
<1>1. /\ Harvest /\ Polled = {} /\ UNCHANGED io /\ handed' = handed
      /\ pendingResults' = pendingResults \cup Harvested
  BY DEF DrainEnd
<1>2. pendingResults' \subseteq [job : JobIds, ok : BOOLEAN]
  <2>1. Harvested \subseteq [job : JobIds, ok : BOOLEAN]
    BY <1>1, HarvestFacts DEF Harvested
  <2> QED BY <1>1, <2>1 DEF TierInv, AdapterTypeOK
<1>3. ASSUME NEW r \in pendingResults' PROVE results'[r.job] = <<r.ok>> /\ handed'[r.job] = <<>>
  <2>1. CASE r \in pendingResults
    <3>1. r.job \in JobIds \ Finished
      BY <1>1, <2>1, HarvestFacts DEF TierInv, AdapterTypeOK
    <3> QED BY <1>1, <2>1, <3>1, HarvestFacts DEF TierInv, ResultsKept
  <2>2. CASE r \in Harvested
    BY <1>1, <2>2, HarvestFacts
  <2> QED BY <1>1, <2>1, <2>2
<1>4. ASSUME NEW j \in JobIds
      PROVE  /\ handed'[j] # <<>> => handed'[j] = results'[j]
             /\ results'[j] # <<>> => handed'[j] # <<>> \/ \E r \in pendingResults' : r.job = j
  <2>1. CASE j \in Finished
    BY <1>1, <2>1, HarvestFacts
  <2>2. CASE j \notin Finished
    <3>1. results'[j] = results[j]
      BY <1>1, <2>2, HarvestFacts
    <3> QED BY <1>1, <3>1 DEF TierInv, ResultsKept
  <2> QED BY <2>1, <2>2
<1>5. ResultsKept'
  BY <1>1, <1>3, <1>4, HarvestKeepsJobs DEF ResultsKept
<1> QED BY <1>1, <1>2, <1>5, HarvestKeepsBlocks

(* Calls that wait, and clear_residency, which leaves nothing resident.    *)
LEMMA QuietKeepsTierInv ==
  ASSUME IInv, TierInv,
         DrainCall \/ TierClear \/ ShutdownCall \/ ShutdownReturns \/ UNCHANGED tierVars
  PROVE  BlocksKept' /\ DataKept' /\ ResultsKept' /\ DOMAIN slab' = Slots
<1>1. /\ UNCHANGED <<status, outcome, slab, fetched, pendingResults, handed,
                     live, direction, nextJob, outstanding, results>>
      /\ pc' = pc \/ pc \notin {"pump", "drainPump"}
      /\ key2slot' = key2slot \/ key2slot' = [k \in Keys |-> NoSlot]
  BY DEF DrainCall, TierClear, ShutdownCall, ShutdownReturns, tierVars, io, adapter, vars,
    ClearResidency, ledger, jobState, Engine!Close
<1>2. BlocksKept'
  BY <1>1 DEF TierInv, BlocksKept
<1>3. DataKept'
  BY <1>1 DEF TierInv, DataKept, ResidentDataPresent, LoadsReadTheirKey, Resident
<1> QED BY <1>1, <1>2, <1>3 DEF TierInv, AdapterTypeOK, ResultsKept

(* The invariant of the composition holds in every state.                  *)
THEOREM TierInvariance == TierSpec => []TierInv
<1>1. TierInit => TierInv
  <2> SUFFICES ASSUME TierInit PROVE TierInv
    OBVIOUS
  <2>1. AdapterTypeOK
    BY DEF TierInit, Engine!Init, AdapterTypeOK, EngineTypeOK, Statuses, Calls
  <2>2. BlocksKept /\ DataKept
    BY DEF TierInit, Init, Engine!Init, BlocksKept, DataKept, ResidentDataPresent, Resident,
      LoadsReadTheirKey
  <2>3. ResultsKept
    BY DEF TierInit, Init, ResultsKept, JobIds
  <2> QED BY <2>1, <2>2, <2>3 DEF TierInv
<1>2. IInv /\ IInv' /\ JobInv /\ TierInv /\ EngineTypeOK' /\ [TierNext]_tierVars => TierInv'
  <2> SUFFICES ASSUME IInv, IInv', JobInv, TierInv, EngineTypeOK', [TierNext]_tierVars
               PROVE  TierInv'
    OBVIOUS
  <2> DEFINE Typed == /\ pc' \in Calls
                      /\ pendingResults' \subseteq [job : JobIds, ok : BOOLEAN]
                      /\ handed' \in [JobIds -> Seq(BOOLEAN)]
             Kept  == BlocksKept' /\ DataKept' /\ ResultsKept' /\ DOMAIN slab' = Slots
  <2> SUFFICES Typed /\ Kept
    BY DEF TierInv, AdapterTypeOK
  <2>1. ASSUME NEW j \in JobIds, NEW keys \in SUBSET Keys, TierSubmit(j, keys)
        PROVE  Typed /\ Kept
    BY <2>1, SubmitKeepsTierInv DEF TierSubmit, adapter, TierInv, AdapterTypeOK
  <2>2. ASSUME NEW b \in Owed, NEW ok \in BOOLEAN, EngineCompletes(b, ok)
        PROVE  Typed /\ Kept
    BY <2>2, CompletionKeepsTierInv DEF EngineCompletes, adapter, TierInv, AdapterTypeOK
  <2>3. CASE Feed
    BY <2>3, FeedKeepsTierInv DEF Feed, adapter, TierInv, AdapterTypeOK
  <2>4. CASE PollBegin \/ EngineDrained
    BY <2>4, TakeKeepsTierInv DEF PollBegin, EngineDrained, TierInv, AdapterTypeOK, Calls
  <2>5. CASE PollEnd
    <3>1. pc' \in Calls
      BY <2>5 DEF PollEnd, Calls
    <3>2. Kept /\ handed' \in [JobIds -> Seq(BOOLEAN)] /\ pendingResults' = {}
      BY <2>5, PollEndKeepsTierInv
    <3> QED BY <3>1, <3>2
  <2>6. CASE DrainEnd
    BY <2>6, DrainEndKeepsTierInv DEF DrainEnd, TierInv, AdapterTypeOK, Calls
  <2>7. CASE DrainCall \/ TierClear \/ ShutdownCall \/ ShutdownReturns \/ UNCHANGED tierVars
    BY <2>7, QuietKeepsTierInv DEF DrainCall, TierClear, ShutdownCall, ShutdownReturns, tierVars,
      adapter, TierInv, AdapterTypeOK, Calls
  <2> HIDE DEF Typed, Kept
  <2> QED BY <2>1, <2>2, <2>3, <2>4, <2>5, <2>6, <2>7 DEF TierNext
<1>3. TierSpec => []IInv /\ []JobInv
  BY LedgerIsUsedAsAssumed, Invariance, JobInvariance
<1> QED BY <1>1, <1>2, <1>3, EngineTypes, PTL DEF TierSpec

-----------------------------------------------------------------------------
(* What it gives                                                           *)

(* The ledger and the engine agree on the blocks in between; outside the   *)
(* calls that pump none is in the adapter's hands.                         *)
THEOREM NoBlockIsForgotten == TierSpec => []NoBlockForgotten
<1>1. IInv /\ TierInv => NoBlockForgotten
  <2> SUFFICES ASSUME IInv, TierInv PROVE NoBlockForgotten
    OBVIOUS
  <2>1. /\ outstanding \subseteq Block
        /\ \A b \in Block : status[b] \in {"new", "owed", "ready", "delivered"}
    BY DEF IInv, TypeOK, TierInv, AdapterTypeOK, EngineTypeOK, Statuses
  <2>2. Owed \cup Ready \subseteq outstanding
    BY DEF Owed, Ready, Engine!In, TierInv, BlocksKept
  <2>3. outstanding \subseteq Owed \cup Ready \cup Polled
    BY <2>1 DEF Owed, Ready, Polled, Engine!In, TierInv, BlocksKept
  <2>4. pc \in {"idle", "drain", "stop"} => Polled = {}
    BY DEF Polled, TierInv, BlocksKept
  <2> QED BY <2>2, <2>3, <2>4 DEF NoBlockForgotten, Polled
<1> QED BY <1>1, TierInvariance, LedgerIsUsedAsAssumed, Invariance, PTL

(* Whatever lookup calls a hit, its slot holds a whole block of that key.  *)
THEOREM ResidentDataIsPresent == TierSpec => []ResidentDataPresent
<1>1. TierInv => ResidentDataPresent
  BY DEF TierInv, DataKept
<1> QED BY <1>1, TierInvariance, PTL

(* A load that succeeded read the block of its own key, although the key   *)
(* may have been dropped, stored again or cleared since it was submitted.  *)
THEOREM LoadsReadTheirOwnKey == TierSpec => []LoadsReadTheirKey
<1>1. TierInv => LoadsReadTheirKey
  BY DEF TierInv, DataKept
<1> QED BY <1>1, TierInvariance, PTL

(* A job's result is handed to the scheduler once and unchanged, and when  *)
(* has_pending_work is false every job has been handed its result.         *)
THEOREM ResultsAreHandedOnce == TierSpec => []ResultsHandedOnce
<1>1. JobInv /\ TierInv => ResultsHandedOnce
  <2> SUFFICES ASSUME JobInv, TierInv PROVE ResultsHandedOnce
    OBVIOUS
  <2>1. ASSUME NEW j \in JobIds
        PROVE  Len(handed[j]) <= 1 /\ (handed[j] # <<>> => handed[j] = results[j])
    <3>1. CASE handed[j] = <<>>
      BY <3>1
    <3>2. CASE handed[j] # <<>>
      <4>1. handed[j] = results[j] /\ results[j] # <<>>
        BY <3>2 DEF TierInv, ResultsKept
      <4>2. handed[j] = <<success[j]>>
        BY <4>1 DEF JobInv
      <4>3. Len(handed[j]) = 1
        BY <4>2
      <4> QED BY <4>1, <4>3
    <3> QED BY <3>1, <3>2
  <2>2. ASSUME NEW j \in JobIds, ~HasPendingWork, j < nextJob PROVE handed[j] # <<>>
    <3>1. results[j] # <<>> /\ pendingResults = {}
      BY <2>2 DEF HasPendingWork, TierInv, ResultsKept
    <3> QED BY <3>1 DEF TierInv, ResultsKept
  <2> QED BY <2>1, <2>2 DEF ResultsHandedOnce
<1> QED BY <1>1, TierInvariance, LedgerIsUsedAsAssumed, JobInvariance, PTL

(* No completion the adapter polled makes complete_block raise, so a pump  *)
(* never stops half way.                                                   *)
THEOREM PumpNeverRaises == TierSpec => [](\A b \in Polled : ~Raises(b, outcome[b]))
<1>1. IInv /\ EngineTypeOK /\ NoCompletionRaises => \A b \in Polled : ~Raises(b, outcome[b])
  BY DEF NoCompletionRaises, Polled, IInv, TypeOK, EngineTypeOK
<1> QED BY <1>1, EngineTypes, LedgerIsUsedAsAssumed, Invariance, CompletionsAccepted, PTL
=============================================================================
