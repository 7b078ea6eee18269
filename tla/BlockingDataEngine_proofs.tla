------------------------ MODULE BlockingDataEngine_proofs ------------------------
(***************************************************************************)
(* Proofs about BlockingDataEngine, for any finite set of blocks, any      *)
(* number of workers and capacity the constructor accepts: no worker       *)
(* sleeps over work, the slab outlives the transfers, no drain and no join *)
(* is stuck, and the pool keeps BlockIoContract.                           *)
(***************************************************************************)
EXTENDS BlockingDataEngine, FiniteSetTheorems, SequenceTheorems, TLAPS

(* Sequences without repetition, as the queues are.                         *)
(* A new element at the end.                                               *)
LEMMA AppendFacts ==
  ASSUME NEW S, NEW s \in Seq(S), NEW e \in S
  PROVE  /\ Append(s, e) \in Seq(S) /\ Len(Append(s, e)) = Len(s) + 1
         /\ ToSet(Append(s, e)) = ToSet(s) \cup {e}
         /\ IsInjective(s) /\ e \notin ToSet(s) => IsInjective(Append(s, e))
<1>1. /\ Append(s, e) \in Seq(S) /\ Len(Append(s, e)) = Len(s) + 1
      /\ \A i \in 1 .. Len(s) : Append(s, e)[i] = s[i]
      /\ Append(s, e)[Len(s) + 1] = e
  BY AppendProperties
<1>2. DOMAIN s = 1 .. Len(s) /\ DOMAIN Append(s, e) = 1 .. Len(s) + 1 /\ Len(s) \in Nat
  BY <1>1, LenProperties
<1>3. ToSet(Append(s, e)) = ToSet(s) \cup {e}
  BY <1>1, <1>2 DEF ToSet
<1>4. IsInjective(s) /\ e \notin ToSet(s) => IsInjective(Append(s, e))
  BY <1>1, <1>2 DEF ToSet, IsInjective
<1> QED BY <1>1, <1>3, <1>4

(* The first element taken off.                                            *)
LEMMA TailFacts ==
  ASSUME NEW S, NEW s \in Seq(S), s # <<>>
  PROVE  /\ Head(s) \in ToSet(s) /\ Tail(s) \in Seq(S) /\ Len(Tail(s)) = Len(s) - 1
         /\ ToSet(s) = ToSet(Tail(s)) \cup {Head(s)} /\ Head(s) \in S
         /\ IsInjective(s) => IsInjective(Tail(s)) /\ Head(s) \notin ToSet(Tail(s))
<1>1. /\ Tail(s) \in Seq(S) /\ Len(Tail(s)) = Len(s) - 1
      /\ \A i \in 1 .. Len(s) - 1 : Tail(s)[i] = s[i + 1]
      /\ Head(s) \in S
  BY HeadTailProperties
<1>2. /\ DOMAIN s = 1 .. Len(s) /\ DOMAIN Tail(s) = 1 .. Len(s) - 1 /\ Len(s) \in Nat \ {0}
      /\ Head(s) = s[1]
  BY <1>1, LenProperties, EmptySeq
<1>3. \A i \in 1 .. Len(s) : i = 1 \/ (i - 1 \in 1 .. Len(s) - 1 /\ s[i] = Tail(s)[i - 1])
  BY <1>1, <1>2
<1>4. ToSet(s) = ToSet(Tail(s)) \cup {Head(s)}
  <2>1. ASSUME NEW i \in 1 .. Len(s) PROVE s[i] \in ToSet(Tail(s)) \cup {Head(s)}
    BY <1>2, <1>3 DEF ToSet
  <2>2. ASSUME NEW i \in 1 .. Len(s) - 1 PROVE Tail(s)[i] \in ToSet(s)
    <3>1. i + 1 \in 1 .. Len(s) /\ Tail(s)[i] = s[i + 1]
      BY <1>1, <1>2
    <3> QED BY <1>2, <3>1 DEF ToSet
  <2> QED BY <1>2, <2>1, <2>2 DEF ToSet
<1>5. IsInjective(s) => IsInjective(Tail(s)) /\ Head(s) \notin ToSet(Tail(s))
  BY <1>1, <1>2 DEF ToSet, IsInjective
<1> QED BY <1>1, <1>2, <1>4, <1>5 DEF ToSet

--------------------------------------------------------------------------------
(* The invariant                                                           *)

Result == [task : Tasks, ok : BOOLEAN]

(* Types of what the pool shares.                                          *)
PoolTypeOK ==
  /\ loadPending \in Seq(Loads) /\ storePending \in Seq(Stores)
  /\ loadInFlight \in Nat /\ storeInFlight \in Nat /\ accepted \in Nat
  /\ completions \subseteq Result /\ delivered \subseteq Result /\ given \subseteq Tasks
  /\ stopping \in BOOLEAN /\ slabOpen \in BOOLEAN
  /\ workerPc \in [Workers -> {"none", "test", "wait", "io", "notify", "exited"}]
  /\ task \in [Workers -> SUBSET Tasks]
  /\ callerPc \in {"construct", "spawn", "unwind", "unwindJoin", "threw", "idle", "notify",
                   "drain", "waiting", "stop", "join", "closed"}

(* A worker has one block in its hands while it transfers, and none else.  *)
HandsInv ==
  /\ \A w \in Workers : workerPc[w] # "io" => task[w] = {}
  /\ \A w \in Workers : workerPc[w] = "io" => \E t \in Tasks : task[w] = {t}
  /\ \A v, w \in Workers : v # w => task[v] \cap task[w] = {}

(* No block is in two places.                                              *)
Apart ==
  /\ IsInjective(loadPending) /\ IsInjective(storePending)
  /\ Pending \cap Dispatched = {} /\ Answered \cap Received = {}
  /\ (Pending \cup Dispatched) \cap (Answered \cup Received) = {}
  /\ given = UNION {Pending, Dispatched, Answered, Received}

(* The counters count the blocks and the workers that have them.           *)
Loading == {w \in Workers : task[w] \cap Loads # {}}
Storing == {w \in Workers : task[w] \cap Stores # {}}

Counts ==
  /\ accepted = Len(loadPending) + Len(storePending) + loadInFlight + storeInFlight
  /\ loadInFlight = Cardinality(Loading)
  /\ storeInFlight = Cardinality(Storing)
  /\ storeInFlight <= StoreLimit

(* Where the Python thread is tells whether the pool is stopping, whether  *)
(* the slab is open and which workers there are.                           *)
CallInv ==
  /\ callerPc \in {"construct", "spawn", "idle", "notify", "drain", "waiting"} => ~stopping
  /\ callerPc \in {"unwind", "unwindJoin", "stop", "join", "closed"} => stopping
  /\ callerPc \in {"construct", "spawn", "unwind", "unwindJoin", "threw"} => accepted = 0
  /\ callerPc = "waiting" => accepted > 0
  /\ callerPc \in {"construct", "threw", "closed"} => ~slabOpen
  /\ ~slabOpen => callerPc \in {"construct", "threw", "closed", "stop", "join"} /\ accepted = 0
  /\ ~slabOpen => \A w \in Workers : workerPc[w] \in {"none", "exited"}
  /\ callerPc \in {"idle", "notify", "drain", "waiting", "stop", "join", "closed"}
       => \A w \in Workers : workerPc[w] # "none"
  /\ \A w \in Workers : workerPc[w] = "exited" => stopping /\ accepted = 0

(* Workers sleep only while nobody has to be told of anything.  Until a    *)
(* submit has notified, one block more may be dispatched than workers are  *)
(* about to look.                                                          *)
Calm    == \A w \in Workers : workerPc[w] # "wait"
Telling == \E w \in Workers : workerPc[w] = "notify"
Testers == {w \in Workers : workerPc[w] = "test"}
Unsaid  == IF callerPc = "notify" THEN 1 ELSE 0

WakeInv ==
  \/ Calm \/ Telling \/ callerPc \in {"stop", "unwind"}
  \/ Dispatchable <= Cardinality(Testers) + Unsaid /\ ~(stopping /\ accepted = 0)

PoolInv == PoolTypeOK /\ HandsInv /\ Apart /\ Counts /\ CallInv /\ WakeInv

--------------------------------------------------------------------------------
(* What the invariant says of sizes                                        *)

(* Sets that have nothing in common add up.                                *)
LEMMA DisjointUnion ==
  ASSUME NEW some, NEW more, IsFiniteSet(some), IsFiniteSet(more), some \cap more = {}
  PROVE  Cardinality(some \cup more) = Cardinality(some) + Cardinality(more)
<1>1. Cardinality(some \cup more)
        = Cardinality(some) + Cardinality(more) - Cardinality(some \cap more)
  BY FS_Union
<1>2. Cardinality(some \cap more) = 0
  BY FS_EmptySet
<1>3. Cardinality(some) \in Nat /\ Cardinality(more) \in Nat
  BY FS_CardinalityType
<1> QED BY <1>1, <1>2, <1>3

(* The constructor reserves some workers for loads, and not all.           *)
LEMMA Reserve ==
  /\ NumWorkers \in Nat /\ NumWorkers >= 4
  /\ StoreLimit \in Nat /\ StoreLimit > 0 /\ StoreLimit < NumWorkers
<1>1. NumWorkers \in Nat /\ NumWorkers >= 4
  BY PoolAssumption, FS_CardinalityType DEF NumWorkers
<1> QED BY <1>1 DEF StoreLimit

(* What is counted is a number.                                            *)
LEMMA Sizes ==
  ASSUME PoolTypeOK
  PROVE  /\ Len(loadPending) \in Nat /\ Len(storePending) \in Nat
         /\ loadInFlight \in Nat /\ storeInFlight \in Nat /\ accepted \in Nat
BY LenProperties DEF PoolTypeOK

(* So is a set of workers, and it is finite.                               *)
LEMMA WorkersFinite ==
  ASSUME NEW some \in SUBSET Workers
  PROVE  IsFiniteSet(some) /\ Cardinality(some) \in Nat
<1>1. IsFiniteSet(some)
  BY PoolAssumption, FS_Subset
<1> QED BY <1>1, FS_CardinalityType

(* A worker gets a block: the workers that have one are one more.          *)
LEMMA HandOut ==
  ASSUME PoolTypeOK, HandsInv, NEW w \in Workers, NEW t \in Tasks,
         task[w] = {}, t \notin Dispatched,
         task' = [task EXCEPT ![w] = {t}]
  PROVE  /\ task' \in [Workers -> SUBSET Tasks] /\ Dispatched' = Dispatched \cup {t}
         /\ \A u, v \in Workers : u # v => task'[u] \cap task'[v] = {}
         /\ t \in Loads => /\ Cardinality(Loading') = Cardinality(Loading) + 1
                           /\ Storing' = Storing
         /\ t \in Stores => /\ Cardinality(Storing') = Cardinality(Storing) + 1
                            /\ Loading' = Loading
<1>1. \A u \in Workers : task'[u] = IF u = w THEN {t} ELSE task[u]
  BY DEF PoolTypeOK
<1>2. task' \in [Workers -> SUBSET Tasks]
  BY DEF PoolTypeOK
<1>3. Dispatched' = Dispatched \cup {t}
  <2>1. ASSUME NEW x \in Dispatched' PROVE x \in Dispatched \cup {t}
    <3>1. PICK u \in Workers : x \in task'[u]
      BY <2>1 DEF Dispatched
    <3> QED BY <1>1, <3>1 DEF Dispatched
  <2>2. ASSUME NEW x \in Dispatched PROVE x \in Dispatched'
    <3>1. PICK u \in Workers : x \in task[u]
      BY <2>2 DEF Dispatched
    <3>2. x \in task'[u]
      BY <1>1, <3>1
    <3> QED BY <3>2 DEF Dispatched
  <2>3. t \in Dispatched'
    BY <1>1 DEF Dispatched
  <2> QED BY <2>1, <2>2, <2>3
<1>4. \A u, v \in Workers : u # v => task'[u] \cap task'[v] = {}
  <2>1. \A u \in Workers : t \notin task[u]
    BY DEF Dispatched
  <2>2. \A u, v \in Workers : u # v => task[u] \cap task[v] = {}
    BY DEF HandsInv
  <2> QED BY <1>1, <2>1, <2>2
<1>5. ASSUME t \in Loads
      PROVE  Cardinality(Loading') = Cardinality(Loading) + 1 /\ Storing' = Storing
  <2>1. Storing' = Storing
    BY <1>1, <1>5, TasksAssumption DEF Storing
  <2>2. Loading' = Loading \cup {w} /\ w \notin Loading
    BY <1>1, <1>5 DEF Loading
  <2>3. IsFiniteSet(Loading)
    BY WorkersFinite DEF Loading
  <2> QED BY <2>1, <2>2, <2>3, FS_AddElement
<1>6. ASSUME t \in Stores
      PROVE  Cardinality(Storing') = Cardinality(Storing) + 1 /\ Loading' = Loading
  <2>1. Loading' = Loading
    BY <1>1, <1>6, TasksAssumption DEF Loading
  <2>2. Storing' = Storing \cup {w} /\ w \notin Storing
    BY <1>1, <1>6 DEF Storing
  <2>3. IsFiniteSet(Storing)
    BY WorkersFinite DEF Storing
  <2> QED BY <2>1, <2>2, <2>3, FS_AddElement
<1> QED BY <1>2, <1>3, <1>4, <1>5, <1>6

(* A worker lays its block down: they are one less.                        *)
LEMMA HandBack ==
  ASSUME PoolTypeOK, HandsInv, NEW w \in Workers, NEW t \in Tasks, task[w] = {t},
         task' = [task EXCEPT ![w] = {}]
  PROVE  /\ task' \in [Workers -> SUBSET Tasks] /\ Dispatched' = Dispatched \ {t}
         /\ t \in Dispatched
         /\ \A u, v \in Workers : u # v => task'[u] \cap task'[v] = {}
         /\ t \in Loads => /\ Cardinality(Loading') = Cardinality(Loading) - 1
                           /\ Storing' = Storing
         /\ t \in Stores => /\ Cardinality(Storing') = Cardinality(Storing) - 1
                            /\ Loading' = Loading
<1>1. \A u \in Workers : task'[u] = IF u = w THEN {} ELSE task[u]
  BY DEF PoolTypeOK
<1>2. task' \in [Workers -> SUBSET Tasks]
  BY DEF PoolTypeOK
<1>3. \A u \in Workers : u # w => t \notin task[u]
  BY DEF HandsInv
<1>4. Dispatched' = Dispatched \ {t} /\ t \in Dispatched
  <2>1. ASSUME NEW x \in Dispatched' PROVE x \in Dispatched /\ x # t
    <3>1. PICK u \in Workers : x \in task'[u]
      BY <2>1 DEF Dispatched
    <3> QED BY <1>1, <1>3, <3>1 DEF Dispatched
  <2>2. ASSUME NEW x \in Dispatched, x # t PROVE x \in Dispatched'
    <3>1. PICK u \in Workers : x \in task[u]
      BY <2>2 DEF Dispatched
    <3>2. x \in task'[u]
      BY <1>1, <2>2, <3>1
    <3> QED BY <3>2 DEF Dispatched
  <2>3. t \in Dispatched
    BY DEF Dispatched
  <2> QED BY <2>1, <2>2, <2>3
<1>5. \A u, v \in Workers : u # v => task'[u] \cap task'[v] = {}
  BY <1>1 DEF HandsInv
<1>6. ASSUME t \in Loads
      PROVE  Cardinality(Loading') = Cardinality(Loading) - 1 /\ Storing' = Storing
  <2>1. Storing' = Storing
    BY <1>1, <1>6, TasksAssumption DEF Storing
  <2>2. Loading' = Loading \ {w} /\ w \in Loading
    BY <1>1, <1>6 DEF Loading
  <2>3. IsFiniteSet(Loading)
    BY WorkersFinite DEF Loading
  <2> QED BY <2>1, <2>2, <2>3, FS_RemoveElement
<1>7. ASSUME t \in Stores
      PROVE  Cardinality(Storing') = Cardinality(Storing) - 1 /\ Loading' = Loading
  <2>1. Loading' = Loading
    BY <1>1, <1>7, TasksAssumption DEF Loading
  <2>2. Storing' = Storing \ {w} /\ w \in Storing
    BY <1>1, <1>7 DEF Storing
  <2>3. IsFiniteSet(Storing)
    BY WorkersFinite DEF Storing
  <2> QED BY <2>1, <2>2, <2>3, FS_RemoveElement
<1> QED BY <1>2, <1>4, <1>5, <1>6, <1>7

(* The workers that have a block are those that transfer.                  *)
LEMMA BusyCount ==
  ASSUME PoolTypeOK, HandsInv, Counts
  PROVE  /\ loadInFlight + storeInFlight = Cardinality({w \in Workers : workerPc[w] = "io"})
         /\ (\A w \in Workers : workerPc[w] # "io") => loadInFlight = 0 /\ storeInFlight = 0
<1> DEFINE Busy == {w \in Workers : workerPc[w] = "io"}
<1>1. Busy = Loading \cup Storing
  BY DEF HandsInv, Loading, Storing, Tasks
<1>2. Loading \cap Storing = {}
  <2>1. ASSUME NEW w \in Workers, task[w] \cap Loads # {}, task[w] \cap Stores # {} PROVE FALSE
    <3>1. PICK t \in Tasks : task[w] = {t}
      BY <2>1 DEF HandsInv
    <3> QED BY <2>1, <3>1, TasksAssumption
  <2> QED BY <2>1 DEF Loading, Storing
<1>3. /\ IsFiniteSet(Loading) /\ IsFiniteSet(Storing)
      /\ Cardinality(Loading) \in Nat /\ Cardinality(Storing) \in Nat
  BY WorkersFinite DEF Loading, Storing
<1>4. Cardinality(Loading \cup Storing) = Cardinality(Loading) + Cardinality(Storing)
  BY <1>2, <1>3, DisjointUnion
<1>5. loadInFlight + storeInFlight = Cardinality(Busy)
  BY <1>1, <1>4 DEF Counts
<1>6. ASSUME \A w \in Workers : workerPc[w] # "io" PROVE loadInFlight = 0 /\ storeInFlight = 0
  <2>1. Loading = {} /\ Storing = {}
    BY <1>1, <1>6
  <2> QED BY <2>1, FS_EmptySet DEF Counts
<1> QED BY <1>5, <1>6

--------------------------------------------------------------------------------
(* Where the blocks are, step by step                                      *)

Blocks == HandsInv /\ Apart /\ Counts

(* A step that moves no block and begins or ends no transfer.              *)
LEMMA BlocksStay ==
  ASSUME Blocks, UNCHANGED <<blocks, task, history>>,
         \A w \in Workers : workerPc'[w] = "io" <=> workerPc[w] = "io"
  PROVE  Blocks'
<1>1. UNCHANGED <<loadPending, storePending, loadInFlight, storeInFlight, accepted, completions,
                  task, given, delivered>>
  BY DEF blocks, queues, inFlight, history
<1>2. UNCHANGED <<Pending, Dispatched, Answered, Received, Loading, Storing>>
  BY <1>1 DEF Pending, Dispatched, Answered, Received, Loading, Storing
<1>3. HandsInv'
  BY <1>1 DEF Blocks, HandsInv
<1>4. Apart'
  BY <1>1, <1>2 DEF Blocks, Apart
<1>5. Counts'
  BY <1>1, <1>2 DEF Blocks, Counts
<1> QED BY <1>3, <1>4, <1>5 DEF Blocks

(* A new block is pending, or answered at once when the queue is full.     *)
LEMMA SubmitKeepsBlocks ==
  ASSUME PoolTypeOK, Blocks, NEW t \in Tasks, Submit(t)
  PROVE  /\ Blocks'
         /\ loadPending' \in Seq(Loads) /\ storePending' \in Seq(Stores)
         /\ completions' \in SUBSET Result /\ accepted' \in Nat /\ given' \in SUBSET Tasks
<1>1. /\ given' = given \cup {t} /\ t \notin given
      /\ UNCHANGED <<loadInFlight, storeInFlight, task, workerPc, delivered>>
  BY DEF Submit, inFlight, pool
<1>2. UNCHANGED <<Dispatched, Received, Loading, Storing>>
  BY <1>1 DEF Dispatched, Received, Loading, Storing
<1>3. HandsInv' /\ given' \in SUBSET Tasks
  BY <1>1 DEF Blocks, HandsInv, PoolTypeOK
<1>4. CASE QueueFull
  <2> DEFINE c == [task |-> t, ok |-> FALSE]
  <2>1. completions' = completions \cup {c} /\ UNCHANGED <<loadPending, storePending, accepted>>
    BY <1>4 DEF Submit, queues, Counted, PoolTypeOK
  <2>2. c \in Result /\ c.task = t
    BY DEF Result
  <2> HIDE DEF c
  <2>3. completions' \in SUBSET Result /\ Answered' = Answered \cup {t} /\ UNCHANGED Pending
    BY <2>1, <2>2 DEF PoolTypeOK, Answered, Pending
  <2>4. Apart'
    BY <1>1, <1>2, <2>1, <2>3 DEF Blocks, Apart
  <2>5. Counts'
    BY <1>1, <1>2, <2>1 DEF Blocks, Counts
  <2> QED BY <1>3, <2>1, <2>3, <2>4, <2>5 DEF Blocks, PoolTypeOK
<1>5. CASE ~QueueFull
  <2>1. accepted' = accepted + 1 /\ UNCHANGED completions
    BY <1>5 DEF Submit, Counted
  <2>2. t \notin ToSet(loadPending) /\ t \notin ToSet(storePending)
    BY <1>1 DEF Blocks, Apart, Pending
  <2>3. /\ loadPending' \in Seq(Loads) /\ storePending' \in Seq(Stores)
        /\ IsInjective(loadPending') /\ IsInjective(storePending')
        /\ Pending' = Pending \cup {t}
        /\ Len(loadPending') + Len(storePending') = Len(loadPending) + Len(storePending) + 1
    <3>0. Len(loadPending) \in Nat /\ Len(storePending) \in Nat
      BY Sizes
    <3>1. CASE t \in Loads
      <4>1. loadPending' = Append(loadPending, t) /\ storePending' = storePending
        BY <1>5, <3>1 DEF Submit
      <4> QED BY <2>2, <3>0, <3>1, <4>1, AppendFacts DEF Pending, PoolTypeOK, Blocks, Apart
    <3>2. CASE t \notin Loads
      <4>1. storePending' = Append(storePending, t) /\ loadPending' = loadPending /\ t \in Stores
        BY <1>5, <3>2 DEF Submit, Tasks
      <4> QED BY <2>2, <3>0, <4>1, AppendFacts DEF Pending, PoolTypeOK, Blocks, Apart
    <3> QED BY <3>1, <3>2
  <2>4. UNCHANGED Answered
    BY <2>1 DEF Answered
  <2>5. Apart'
    BY <1>1, <1>2, <2>3, <2>4 DEF Blocks, Apart
  <2>6. accepted' = Len(loadPending') + Len(storePending') + loadInFlight' + storeInFlight'
    <3>1. /\ accepted = Len(loadPending) + Len(storePending) + loadInFlight + storeInFlight
          /\ Len(loadPending) \in Nat /\ Len(storePending) \in Nat
          /\ loadInFlight \in Nat /\ storeInFlight \in Nat
      BY Sizes DEF Blocks, Counts
    <3>2. Len(loadPending') \in Nat /\ Len(storePending') \in Nat
      BY <2>3, LenProperties
    <3>3. /\ accepted' = accepted + 1 /\ loadInFlight' = loadInFlight
          /\ storeInFlight' = storeInFlight
          /\ Len(loadPending') + Len(storePending') = Len(loadPending) + Len(storePending) + 1
      BY <1>1, <2>1, <2>3
    <3> QED BY <3>1, <3>2, <3>3
  <2>7. Counts'
    BY <1>1, <1>2, <2>6 DEF Blocks, Counts
  <2> QED BY <1>3, <2>1, <2>3, <2>5, <2>7 DEF Blocks, PoolTypeOK
<1> QED BY <1>4, <1>5

(* A poll moves the answered blocks to the received ones.                  *)
LEMMA PollKeepsBlocks ==
  ASSUME PoolTypeOK, Blocks, TakeCompletions,
         UNCHANGED <<queues, inFlight, accepted, pool, given>>
  PROVE  Blocks' /\ completions' \in SUBSET Result /\ delivered' \in SUBSET Result
<1>1. /\ delivered' = delivered \cup completions /\ completions' = {}
      /\ UNCHANGED <<loadPending, storePending, loadInFlight, storeInFlight, accepted,
                     task, workerPc, given>>
  BY DEF TakeCompletions, queues, inFlight, pool
<1>2. UNCHANGED <<Pending, Dispatched, Loading, Storing>>
  BY <1>1 DEF Pending, Dispatched, Loading, Storing
<1>3. Answered' = {} /\ Received' = Answered \cup Received
  BY <1>1 DEF Answered, Received
<1>4. HandsInv'
  BY <1>1 DEF Blocks, HandsInv
<1>5. Apart'
  BY <1>1, <1>2, <1>3 DEF Blocks, Apart
<1>6. Counts'
  BY <1>1, <1>2 DEF Blocks, Counts
<1> QED BY <1>1, <1>4, <1>5, <1>6 DEF Blocks, PoolTypeOK

(* A worker takes the block at the head of a queue into its hands.         *)
LEMMA TakeKeepsBlocks ==
  ASSUME PoolTypeOK, Blocks, NEW w \in Workers, Take(w)
  PROVE  /\ Blocks'
         /\ loadPending' \in Seq(Loads) /\ storePending' \in Seq(Stores)
         /\ loadInFlight' \in Nat /\ storeInFlight' \in Nat
         /\ task' \in [Workers -> SUBSET Tasks]
<1>1. /\ workerPc[w] = "test" /\ workerPc' = [workerPc EXCEPT ![w] = "io"]
      /\ UNCHANGED <<accepted, completions, given, delivered>>
  BY DEF Take, history
<1>2. UNCHANGED <<Answered, Received>>
  BY <1>1 DEF Answered, Received
<1>3. task[w] = {}
  BY <1>1 DEF Blocks, HandsInv
<1>4. PICK t \in Tasks :
        /\ t \in Pending
        /\ task' = [task EXCEPT ![w] = {t}]
        /\ Pending' = Pending \ {t}
        /\ loadPending' \in Seq(Loads) /\ storePending' \in Seq(Stores)
        /\ IsInjective(loadPending') /\ IsInjective(storePending')
        /\ \/ /\ t \in Loads /\ Len(loadPending') = Len(loadPending) - 1
              /\ loadInFlight' = loadInFlight + 1
              /\ storePending' = storePending /\ storeInFlight' = storeInFlight
           \/ /\ t \in Stores /\ Len(storePending') = Len(storePending) - 1
              /\ storeInFlight' = storeInFlight + 1 /\ storeInFlight < StoreLimit
              /\ loadPending' = loadPending /\ loadInFlight' = loadInFlight
  <2>1. ToSet(loadPending) \subseteq Loads /\ ToSet(storePending) \subseteq Stores
    BY LenProperties DEF PoolTypeOK, ToSet
  <2>2. CASE loadPending # <<>>
    <3> DEFINE t == Head(loadPending)
    <3>1. /\ task' = [task EXCEPT ![w] = {t}] /\ loadPending' = Tail(loadPending)
          /\ loadInFlight' = loadInFlight + 1
          /\ storePending' = storePending /\ storeInFlight' = storeInFlight
      BY <2>2 DEF Take
    <3>2. /\ t \in ToSet(loadPending) /\ Tail(loadPending) \in Seq(Loads)
          /\ Len(Tail(loadPending)) = Len(loadPending) - 1
          /\ ToSet(loadPending) = ToSet(Tail(loadPending)) \cup {t} /\ t \in Loads
          /\ IsInjective(Tail(loadPending)) /\ t \notin ToSet(Tail(loadPending))
      BY <2>2, TailFacts DEF PoolTypeOK, Blocks, Apart
    <3> HIDE DEF t
    <3>3. t \notin ToSet(storePending) /\ t \in Tasks /\ t \in Pending
      BY <2>1, <3>2, TasksAssumption DEF Tasks, Pending
    <3>4. Pending' = Pending \ {t}
      BY <3>1, <3>2, <3>3 DEF Pending
    <3> QED BY <3>1, <3>2, <3>3, <3>4 DEF PoolTypeOK, Blocks, Apart
  <2>3. CASE loadPending = <<>>
    <3> DEFINE t == Head(storePending)
    <3>0. storePending # <<>> /\ storeInFlight < StoreLimit
      BY <2>3 DEF Take, CanDispatch
    <3>1. /\ task' = [task EXCEPT ![w] = {t}] /\ storePending' = Tail(storePending)
          /\ storeInFlight' = storeInFlight + 1
          /\ loadPending' = loadPending /\ loadInFlight' = loadInFlight
      BY <2>3 DEF Take
    <3>2. /\ t \in ToSet(storePending) /\ Tail(storePending) \in Seq(Stores)
          /\ Len(Tail(storePending)) = Len(storePending) - 1
          /\ ToSet(storePending) = ToSet(Tail(storePending)) \cup {t} /\ t \in Stores
          /\ IsInjective(Tail(storePending)) /\ t \notin ToSet(Tail(storePending))
      BY <3>0, TailFacts DEF PoolTypeOK, Blocks, Apart
    <3> HIDE DEF t
    <3>3. t \notin ToSet(loadPending) /\ t \in Tasks /\ t \in Pending
      BY <2>1, <3>2, TasksAssumption DEF Tasks, Pending
    <3>4. Pending' = Pending \ {t}
      BY <3>1, <3>2, <3>3 DEF Pending
    <3>5. loadPending' \in Seq(Loads) /\ IsInjective(loadPending')
      BY <3>1 DEF PoolTypeOK, Blocks, Apart
    <3> QED BY <3>0, <3>1, <3>2, <3>3, <3>4, <3>5
  <2> QED BY <2>2, <2>3
<1>5. t \notin Dispatched
  BY <1>4 DEF Blocks, Apart
<1>6. /\ task' \in [Workers -> SUBSET Tasks] /\ Dispatched' = Dispatched \cup {t}
      /\ \A u, v \in Workers : u # v => task'[u] \cap task'[v] = {}
      /\ t \in Loads => /\ Cardinality(Loading') = Cardinality(Loading) + 1
                        /\ Storing' = Storing
      /\ t \in Stores => /\ Cardinality(Storing') = Cardinality(Storing) + 1
                         /\ Loading' = Loading
  BY <1>3, <1>4, <1>5, HandOut DEF Blocks
<1>7. HandsInv'
  <2>1. \A v \in Workers : task'[v] = IF v = w THEN {t} ELSE task[v]
    BY <1>4 DEF PoolTypeOK
  <2>2. \A v \in Workers : workerPc'[v] = IF v = w THEN "io" ELSE workerPc[v]
    BY <1>1 DEF PoolTypeOK
  <2> QED BY <1>6, <2>1, <2>2 DEF Blocks, HandsInv
<1>8. Apart'
  BY <1>1, <1>2, <1>4, <1>6 DEF Blocks, Apart
<1>9. Counts' /\ loadInFlight' \in Nat /\ storeInFlight' \in Nat
  <2>1. /\ accepted = Len(loadPending) + Len(storePending) + loadInFlight + storeInFlight
        /\ Len(loadPending) \in Nat /\ Len(storePending) \in Nat
        /\ loadInFlight \in Nat /\ storeInFlight \in Nat
        /\ storeInFlight <= StoreLimit /\ StoreLimit \in Nat
    BY Sizes, Reserve DEF Blocks, Counts
  <2>4. loadInFlight = Cardinality(Loading) /\ storeInFlight = Cardinality(Storing)
    BY DEF Blocks, Counts
  <2>2. CASE t \in Loads
    <3>1. /\ Len(loadPending') = Len(loadPending) - 1 /\ loadInFlight' = loadInFlight + 1
          /\ storePending' = storePending /\ storeInFlight' = storeInFlight
      BY <1>4, <2>2, TasksAssumption
    <3>2. accepted' = Len(loadPending') + Len(storePending') + loadInFlight' + storeInFlight'
      BY <1>1, <2>1, <3>1
    <3>3. loadInFlight' = Cardinality(Loading') /\ storeInFlight' = Cardinality(Storing')
      BY <1>6, <2>4, <2>2, <3>1
    <3>4. loadInFlight' \in Nat /\ storeInFlight' \in Nat /\ storeInFlight' <= StoreLimit
      BY <2>1, <3>1
    <3> QED BY <3>2, <3>3, <3>4 DEF Counts
  <2>3. CASE t \in Stores
    <3>1. /\ Len(storePending') = Len(storePending) - 1 /\ storeInFlight' = storeInFlight + 1
          /\ loadPending' = loadPending /\ loadInFlight' = loadInFlight
          /\ storeInFlight < StoreLimit
      BY <1>4, <2>3, TasksAssumption
    <3>2. accepted' = Len(loadPending') + Len(storePending') + loadInFlight' + storeInFlight'
      BY <1>1, <2>1, <3>1
    <3>3. loadInFlight' = Cardinality(Loading') /\ storeInFlight' = Cardinality(Storing')
      BY <1>6, <2>4, <2>3, <3>1
    <3>4. loadInFlight' \in Nat /\ storeInFlight' \in Nat /\ storeInFlight' <= StoreLimit
      BY <2>1, <3>1
    <3> QED BY <3>2, <3>3, <3>4 DEF Counts
  <2> QED BY <2>2, <2>3 DEF Tasks
<1> QED BY <1>4, <1>6, <1>7, <1>8, <1>9 DEF Blocks

(* A transfer that is over answers its block.                              *)
LEMMA FinishKeepsBlocks ==
  ASSUME PoolTypeOK, Blocks, NEW w \in Workers, Finish(w)
  PROVE  /\ Blocks'
         /\ loadInFlight' \in Nat /\ storeInFlight' \in Nat
         /\ accepted > 0 /\ accepted' \in Nat
         /\ completions' \in SUBSET Result /\ task' \in [Workers -> SUBSET Tasks]
<1>1. /\ workerPc[w] = "io" /\ workerPc' = [workerPc EXCEPT ![w] = "notify"]
      /\ task' = [task EXCEPT ![w] = {}] /\ accepted' = accepted - 1
      /\ UNCHANGED <<loadPending, storePending, given, delivered>>
  BY DEF Finish, AfterFinish, queues, history
<1>2. PICK t \in Tasks : task[w] = {t}
  BY <1>1 DEF Blocks, HandsInv
<1>3. PICK ok \in BOOLEAN :
        /\ completions' = completions \cup {[task |-> t, ok |-> ok]}
        /\ IF t \in Loads
           THEN loadInFlight' = loadInFlight - 1 /\ UNCHANGED storeInFlight
           ELSE storeInFlight' = storeInFlight - 1 /\ UNCHANGED loadInFlight
  BY <1>2 DEF Finish
<1>4. completions' \in SUBSET Result /\ Answered' = Answered \cup {t}
  <2> DEFINE c == [task |-> t, ok |-> ok]
  <2>1. c \in Result /\ c.task = t /\ completions' = completions \cup {c}
    BY <1>3 DEF Result
  <2> HIDE DEF c
  <2> QED BY <2>1 DEF PoolTypeOK, Answered
<1>5. UNCHANGED <<Pending, Received>>
  BY <1>1 DEF Pending, Received
<1>6. /\ task' \in [Workers -> SUBSET Tasks] /\ Dispatched' = Dispatched \ {t}
      /\ t \in Dispatched
      /\ \A u, v \in Workers : u # v => task'[u] \cap task'[v] = {}
      /\ t \in Loads => /\ Cardinality(Loading') = Cardinality(Loading) - 1
                        /\ Storing' = Storing
      /\ t \in Stores => /\ Cardinality(Storing') = Cardinality(Storing) - 1
                         /\ Loading' = Loading
  BY <1>1, <1>2, HandBack DEF Blocks
<1>7. HandsInv'
  <2>1. \A v \in Workers : task'[v] = IF v = w THEN {} ELSE task[v]
    BY <1>1 DEF PoolTypeOK
  <2>2. \A v \in Workers : workerPc'[v] = IF v = w THEN "notify" ELSE workerPc[v]
    BY <1>1 DEF PoolTypeOK
  <2> QED BY <1>6, <2>1, <2>2 DEF Blocks, HandsInv
<1>8. Apart'
  BY <1>1, <1>4, <1>5, <1>6 DEF Blocks, Apart
<1>9. /\ Counts' /\ loadInFlight' \in Nat /\ storeInFlight' \in Nat
      /\ accepted > 0 /\ accepted' \in Nat
  <2>1. /\ accepted = Len(loadPending) + Len(storePending) + loadInFlight + storeInFlight
        /\ Len(loadPending) \in Nat /\ Len(storePending) \in Nat
        /\ loadInFlight \in Nat /\ storeInFlight \in Nat
        /\ storeInFlight <= StoreLimit /\ StoreLimit \in Nat
    BY Sizes, Reserve DEF Blocks, Counts
  <2>4. loadInFlight = Cardinality(Loading) /\ storeInFlight = Cardinality(Storing)
    BY DEF Blocks, Counts
  <2>0. /\ Len(loadPending') = Len(loadPending) /\ Len(storePending') = Len(storePending)
        /\ accepted' = accepted - 1
    BY <1>1
  <2>2. CASE t \in Loads
    <3>1. loadInFlight' = loadInFlight - 1 /\ storeInFlight' = storeInFlight
      BY <1>3, <2>2
    <3>2. loadInFlight > 0
      <4>1. w \in Loading /\ IsFiniteSet(Loading)
        BY <1>2, <2>2, WorkersFinite DEF Loading
      <4>2. Loading # {}
        BY <4>1
      <4> QED BY <2>1, <2>4, <4>1, <4>2, FS_EmptySet
    <3>3. /\ accepted' = Len(loadPending') + Len(storePending') + loadInFlight' + storeInFlight'
          /\ loadInFlight' \in Nat /\ accepted > 0 /\ accepted' \in Nat
      BY <2>0, <2>1, <3>1, <3>2
    <3>4. loadInFlight' = Cardinality(Loading') /\ storeInFlight' = Cardinality(Storing')
      BY <1>6, <2>4, <2>2, <3>1
    <3>5. storeInFlight' \in Nat /\ storeInFlight' <= StoreLimit
      BY <2>1, <3>1
    <3> QED BY <3>3, <3>4, <3>5 DEF Counts
  <2>3. CASE t \notin Loads
    <3>0. t \in Stores
      BY <2>3 DEF Tasks
    <3>1. storeInFlight' = storeInFlight - 1 /\ loadInFlight' = loadInFlight
      BY <1>3, <2>3
    <3>2. storeInFlight > 0
      <4>1. w \in Storing /\ IsFiniteSet(Storing)
        BY <1>2, <3>0, WorkersFinite DEF Storing
      <4>2. Storing # {}
        BY <4>1
      <4> QED BY <2>1, <2>4, <4>1, <4>2, FS_EmptySet
    <3>3. /\ accepted' = Len(loadPending') + Len(storePending') + loadInFlight' + storeInFlight'
          /\ storeInFlight' \in Nat /\ storeInFlight' <= StoreLimit
          /\ accepted > 0 /\ accepted' \in Nat
      BY <2>0, <2>1, <3>1, <3>2
    <3>4. loadInFlight' = Cardinality(Loading') /\ storeInFlight' = Cardinality(Storing')
      BY <1>6, <2>4, <3>0, <3>1
    <3>5. loadInFlight' \in Nat
      BY <2>1, <3>1
    <3> QED BY <3>3, <3>4, <3>5 DEF Counts
  <2> QED BY <2>2, <2>3
<1> QED BY <1>4, <1>6, <1>7, <1>8, <1>9 DEF Blocks

--------------------------------------------------------------------------------
(* Who is awake, step by step                                              *)

(* What the wake-up argument counts.                                       *)
LEMMA WakeSizes ==
  ASSUME PoolTypeOK, Counts
  PROVE  /\ Dispatchable \in Nat /\ Cardinality(Testers) \in Nat
         /\ ~CanDispatch => Dispatchable = 0
         /\ accepted = 0 => Dispatchable = 0
<1>1. /\ Len(loadPending) \in Nat /\ Len(storePending) \in Nat
      /\ loadInFlight \in Nat /\ storeInFlight \in Nat
      /\ storeInFlight <= StoreLimit /\ StoreLimit \in Nat
      /\ accepted = Len(loadPending) + Len(storePending) + loadInFlight + storeInFlight
  BY Sizes, Reserve DEF Counts
<1>2. loadPending = <<>> => Len(loadPending) = 0
  OBVIOUS
<1>3. storePending = <<>> => Len(storePending) = 0
  OBVIOUS
<1>4. ~CanDispatch => Dispatchable = 0
  BY <1>1, <1>2, <1>3 DEF CanDispatch, Dispatchable
<1>5. Dispatchable \in Nat /\ (accepted = 0 => Dispatchable = 0)
  BY <1>1 DEF Dispatchable
<1> QED BY <1>4, <1>5, WorkersFinite DEF Testers

(* A worker begins or ends looking at the queues.                          *)
LEMMA OneTester ==
  ASSUME PoolTypeOK, NEW w \in Workers, NEW pc, workerPc' = [workerPc EXCEPT ![w] = pc]
  PROVE  /\ workerPc[w] # "test" /\ pc = "test"
              => Cardinality(Testers') = Cardinality(Testers) + 1
         /\ workerPc[w] = "test" /\ pc # "test"
              => Cardinality(Testers') = Cardinality(Testers) - 1
<1>1. \A v \in Workers : workerPc'[v] = IF v = w THEN pc ELSE workerPc[v]
  BY DEF PoolTypeOK
<1>2. IsFiniteSet(Testers)
  BY WorkersFinite DEF Testers
<1>3. ASSUME workerPc[w] # "test", pc = "test"
      PROVE  Cardinality(Testers') = Cardinality(Testers) + 1
  <2>1. Testers' = Testers \cup {w} /\ w \notin Testers
    BY <1>1, <1>3 DEF Testers
  <2> QED BY <1>2, <2>1, FS_AddElement
<1>4. ASSUME workerPc[w] = "test", pc # "test"
      PROVE  Cardinality(Testers') = Cardinality(Testers) - 1
  <2>1. Testers' = Testers \ {w} /\ w \in Testers
    BY <1>1, <1>4 DEF Testers
  <2> QED BY <1>2, <2>1, FS_RemoveElement
<1> QED BY <1>3, <1>4

(* What may be dispatched follows the queues and the counter of stores.    *)
LEMMA SameDispatchable ==
  ASSUME UNCHANGED blocks
  PROVE  /\ Dispatchable' = Dispatchable /\ accepted' = accepted
         /\ (CanDispatch' <=> CanDispatch)
BY DEF blocks, queues, inFlight, Dispatchable, CanDispatch

(* Nobody's rest is disturbed by a step that leaves the pool as it is.     *)
LEMMA WakeStays ==
  ASSUME WakeInv, UNCHANGED <<blocks, workerPc, stopping>>,
         callerPc \notin {"stop", "unwind", "notify"}, callerPc' \notin {"notify"}
  PROVE  WakeInv'
<1>1. Dispatchable' = Dispatchable /\ accepted' = accepted
  BY SameDispatchable
<1>2. UNCHANGED <<Calm, Telling, Testers, stopping>>
  BY DEF Calm, Telling, Testers
<1>3. Unsaid = 0 /\ Unsaid' = 0
  BY DEF Unsaid
<1> QED BY <1>1, <1>2, <1>3 DEF WakeInv

(* With nobody asleep there is nobody to wake.                             *)
LEMMA CalmWakes ==
  ASSUME \A w \in Workers : workerPc'[w] # "wait"
  PROVE  WakeInv'
BY DEF WakeInv, Calm

(* A step that moves no block keeps the invariant if it keeps the rest.    *)
LEMMA QuietStep ==
  ASSUME PoolInv, UNCHANGED <<blocks, task, history>>,
         \A w \in Workers : workerPc'[w] = "io" <=> workerPc[w] = "io",
         workerPc' \in [Workers -> {"none", "test", "wait", "io", "notify", "exited"}],
         callerPc' \in {"construct", "spawn", "unwind", "unwindJoin", "threw", "idle", "notify",
                        "drain", "waiting", "stop", "join", "closed"},
         stopping' \in BOOLEAN, slabOpen' \in BOOLEAN,
         CallInv', WakeInv'
  PROVE  PoolInv'
<1>1. Blocks'
  BY BlocksStay DEF PoolInv, Blocks
<1>2. PoolTypeOK'
  <2>1. UNCHANGED <<loadPending, storePending, loadInFlight, storeInFlight, accepted, completions,
                    task, given, delivered>>
    BY DEF blocks, queues, inFlight, history
  <2> QED BY <2>1 DEF PoolInv, PoolTypeOK
<1> QED BY <1>1, <1>2 DEF PoolInv, Blocks

(* A constructor, whole, failing, unwinding or tried again.                *)
LEMMA ConstructKeepsInv ==
  ASSUME PoolInv, ConstructNext
  PROVE  PoolInv'
<1> USE DEF PoolInv
<1>0. UNCHANGED <<blocks, task, history>> /\ accepted' = accepted
  BY DEF ConstructNext, InitializeSlab, SpawnWorker, Constructed, SpawnFails, UnwindJoins,
    ConstructAgain, blocks, pool
<1>1. CASE InitializeSlab
  <2>1. /\ callerPc = "construct" /\ UNCHANGED <<workerPc, stopping>>
        /\ \/ slabOpen' = TRUE /\ callerPc' = "spawn"
           \/ slabOpen' = slabOpen /\ callerPc' = "threw"
    BY <1>1 DEF InitializeSlab, pool
  <2>2. CallInv'
    BY <1>0, <2>1 DEF CallInv, PoolTypeOK
  <2>3. WakeInv'
    BY <1>0, <2>1, WakeStays
  <2> QED BY <1>0, <2>1, <2>2, <2>3, QuietStep DEF PoolTypeOK
<1>2. ASSUME NEW w \in Workers, SpawnWorker(w) PROVE PoolInv'
  <2>1. /\ callerPc = "spawn" /\ workerPc[w] = "none"
        /\ workerPc' = [workerPc EXCEPT ![w] = "test"]
        /\ UNCHANGED <<stopping, slabOpen, callerPc>>
    BY <1>2 DEF SpawnWorker
  <2>2. \A v \in Workers : workerPc'[v] = IF v = w THEN "test" ELSE workerPc[v]
    BY <2>1 DEF PoolTypeOK
  <2>3. CallInv'
    BY <1>0, <2>1, <2>2 DEF CallInv, PoolTypeOK
  <2>4. WakeInv'
    <3>1. Cardinality(Testers') = Cardinality(Testers) + 1
      BY <2>1, OneTester
    <3>2. Dispatchable \in Nat /\ Cardinality(Testers) \in Nat
      BY WakeSizes
    <3>3. Dispatchable' = Dispatchable /\ stopping' = stopping /\ callerPc' = callerPc
      BY <1>0, <2>1, SameDispatchable
    <3>4. Unsaid = 0 /\ Unsaid' = 0
      BY <2>1 DEF Unsaid
    <3>5. (Calm => Calm') /\ (Telling => Telling')
      BY <2>1, <2>2 DEF Calm, Telling
    <3>6. Dispatchable <= Cardinality(Testers) + Unsaid
            => Dispatchable' <= Cardinality(Testers') + Unsaid'
      BY <3>1, <3>2, <3>3, <3>4
    <3> QED BY <1>0, <3>3, <3>5, <3>6 DEF WakeInv
  <2> QED BY <1>0, <2>1, <2>2, <2>3, <2>4, QuietStep DEF PoolTypeOK
<1>3. CASE Constructed
  <2>1. /\ callerPc = "spawn" /\ callerPc' = "idle" /\ \A w \in Workers : workerPc[w] # "none"
        /\ UNCHANGED <<workerPc, stopping, slabOpen>>
    BY <1>3 DEF Constructed, pool
  <2>2. CallInv'
    BY <1>0, <2>1 DEF CallInv, PoolTypeOK
  <2>3. WakeInv'
    BY <1>0, <2>1, WakeStays
  <2> QED BY <1>0, <2>1, <2>2, <2>3, QuietStep DEF PoolTypeOK
<1>4. CASE SpawnFails
  <2>1. /\ callerPc = "spawn" /\ callerPc' = "unwind" /\ stopping' = TRUE
        /\ UNCHANGED <<workerPc, slabOpen>>
    BY <1>4 DEF SpawnFails, pool
  <2>2. CallInv'
    BY <1>0, <2>1 DEF CallInv, PoolTypeOK
  <2>3. WakeInv'
    BY <2>1 DEF WakeInv
  <2> QED BY <1>0, <2>1, <2>2, <2>3, QuietStep DEF PoolTypeOK
<1>5. CASE UnwindJoins
  <2>1. /\ callerPc = "unwindJoin" /\ callerPc' = "threw" /\ slabOpen' = FALSE
        /\ \A w \in Workers : workerPc[w] \in {"none", "exited"}
        /\ UNCHANGED <<workerPc, stopping>>
    BY <1>5 DEF UnwindJoins, Started, pool
  <2>2. CallInv'
    BY <1>0, <2>1 DEF CallInv, PoolTypeOK
  <2>3. WakeInv'
    BY <2>1, CalmWakes
  <2> QED BY <1>0, <2>1, <2>2, <2>3, QuietStep DEF PoolTypeOK
<1>6. CASE ConstructAgain
  <2>1. /\ callerPc = "threw" /\ callerPc' = "construct" /\ stopping' = FALSE
        /\ workerPc' = [w \in Workers |-> "none"] /\ slabOpen' = slabOpen
    BY <1>6 DEF ConstructAgain
  <2>2. \A w \in Workers : workerPc'[w] = "none" /\ workerPc[w] \in {"none", "exited"}
    BY <2>1 DEF CallInv
  <2>3. CallInv'
    BY <1>0, <2>1, <2>2 DEF CallInv, PoolTypeOK
  <2>4. WakeInv'
    BY <2>2, CalmWakes
  <2> QED BY <1>0, <2>1, <2>2, <2>3, <2>4, QuietStep DEF PoolTypeOK
<1> QED BY <1>1, <1>2, <1>3, <1>4, <1>5, <1>6 DEF ConstructNext

(* The Python thread inside a call it has begun, or beginning a drain or a *)
(* shutdown.                                                               *)
LEMMA CallKeepsInv ==
  ASSUME PoolInv,
         \/ SubmitNotifies \/ DrainBegin \/ (DrainTest /\ accepted # 0)
         \/ ShutdownBegin \/ ShutdownNotifies \/ Join
  PROVE  PoolInv'
<1> USE DEF PoolInv
<1>0. UNCHANGED <<blocks, task, history>> /\ accepted' = accepted
  BY DEF SubmitNotifies, DrainBegin, DrainTest, ShutdownBegin, ShutdownNotifies, Join,
    blocks, pool, history
<1>1. CASE SubmitNotifies
  <2>1. /\ callerPc = "notify" /\ callerPc' = "idle" /\ NotifyOne
        /\ UNCHANGED <<stopping, slabOpen>>
    BY <1>1 DEF SubmitNotifies
  <2>2. CASE Calm
    <3>1. workerPc' = workerPc
      BY <2>1, <2>2 DEF NotifyOne, Calm
    <3>2. CallInv'
      BY <1>0, <2>1, <3>1 DEF CallInv, PoolTypeOK
    <3>3. WakeInv'
      BY <2>2, <3>1, CalmWakes DEF Calm
    <3> QED BY <1>0, <2>1, <3>1, <3>2, <3>3, QuietStep DEF PoolTypeOK
  <2>3. CASE ~Calm
    <3>1. PICK w \in Workers : workerPc[w] = "wait" /\ workerPc' = [workerPc EXCEPT ![w] = "test"]
      BY <2>1, <2>3 DEF NotifyOne, Calm
    <3>2. \A v \in Workers : workerPc'[v] = IF v = w THEN "test" ELSE workerPc[v]
      BY <3>1 DEF PoolTypeOK
    <3>3. CallInv'
      BY <1>0, <2>1, <3>1, <3>2 DEF CallInv, PoolTypeOK
    <3>4. WakeInv'
      <4>1. Cardinality(Testers') = Cardinality(Testers) + 1
        BY <3>1, OneTester
      <4>2. Dispatchable \in Nat /\ Cardinality(Testers) \in Nat
        BY WakeSizes
      <4>3. Dispatchable' = Dispatchable /\ stopping' = stopping
        BY <1>0, <2>1, SameDispatchable
      <4>4. Unsaid = 1 /\ Unsaid' = 0
        BY <2>1 DEF Unsaid
      <4>5. Telling => Telling'
        BY <3>1, <3>2 DEF Telling
      <4>6. Dispatchable <= Cardinality(Testers) + Unsaid
              => Dispatchable' <= Cardinality(Testers') + Unsaid'
        BY <4>1, <4>2, <4>3, <4>4
      <4> QED BY <1>0, <2>1, <2>3, <4>3, <4>5, <4>6 DEF WakeInv
    <3> QED BY <1>0, <2>1, <3>1, <3>2, <3>3, <3>4, QuietStep DEF PoolTypeOK
  <2> QED BY <2>2, <2>3
<1>2. CASE DrainBegin \/ (DrainTest /\ accepted # 0)
  <2>1. /\ \/ callerPc = "idle" /\ callerPc' = "drain"
           \/ callerPc = "drain" /\ callerPc' = "waiting" /\ accepted > 0
        /\ UNCHANGED <<workerPc, stopping, slabOpen>>
    BY <1>2 DEF DrainBegin, DrainTest, pool, PoolTypeOK
  <2>2. CallInv'
    BY <1>0, <2>1 DEF CallInv, PoolTypeOK
  <2>3. WakeInv'
    BY <1>0, <2>1, WakeStays
  <2> QED BY <1>0, <2>1, <2>2, <2>3, QuietStep DEF PoolTypeOK
<1>3. CASE ShutdownBegin
  <2>1. /\ callerPc \in {"idle", "closed"} /\ callerPc' = "stop" /\ stopping' = TRUE
        /\ UNCHANGED <<workerPc, slabOpen>>
    BY <1>3 DEF ShutdownBegin, pool
  <2>2. CallInv'
    BY <1>0, <2>1 DEF CallInv, PoolTypeOK
  <2>3. WakeInv'
    BY <2>1 DEF WakeInv
  <2> QED BY <1>0, <2>1, <2>2, <2>3, QuietStep DEF PoolTypeOK
<1>4. CASE ShutdownNotifies
  <2>1. /\ \/ callerPc = "stop" /\ callerPc' = "join"
           \/ callerPc = "unwind" /\ callerPc' = "unwindJoin"
        /\ workerPc' = NotifyAll /\ UNCHANGED <<stopping, slabOpen>>
    BY <1>4 DEF ShutdownNotifies, AfterStop
  <2>2. \A v \in Workers : workerPc'[v] = IF workerPc[v] = "wait" THEN "test" ELSE workerPc[v]
    BY <2>1 DEF NotifyAll
  <2>3. CallInv'
    BY <1>0, <2>1, <2>2 DEF CallInv, PoolTypeOK
  <2>4. WakeInv'
    BY <2>2, CalmWakes
  <2>5. workerPc' \in [Workers -> {"none", "test", "wait", "io", "notify", "exited"}]
    BY <2>1 DEF NotifyAll, PoolTypeOK
  <2>6. \A w \in Workers : workerPc'[w] = "io" <=> workerPc[w] = "io"
    BY <2>2
  <2> QED BY <1>0, <2>1, <2>3, <2>4, <2>5, <2>6, QuietStep DEF PoolTypeOK
<1>5. CASE Join
  <2>1. /\ callerPc = "join" /\ callerPc' = "closed" /\ slabOpen' = FALSE
        /\ \A w \in Workers : workerPc[w] = "exited"
        /\ UNCHANGED <<workerPc, stopping>>
    BY <1>5 DEF Join, pool
  <2>2. accepted = 0
    <3>1. Workers # {}
      BY Reserve, FS_EmptySet DEF NumWorkers
    <3> QED BY <2>1, <3>1 DEF CallInv
  <2>3. CallInv'
    BY <1>0, <2>1, <2>2 DEF CallInv, PoolTypeOK
  <2>4. WakeInv'
    BY <2>1, CalmWakes
  <2> QED BY <1>0, <2>1, <2>3, <2>4, QuietStep DEF PoolTypeOK
<1> QED BY <1>1, <1>2, <1>3, <1>4, <1>5

(* Submit accepts one block more, and has one worker notified.             *)
LEMMA SubmitKeepsInv ==
  ASSUME PoolInv, NEW t \in Tasks, Submit(t)
  PROVE  PoolInv'
<1> USE DEF PoolInv
<1>1. /\ callerPc = "idle" /\ ~stopping /\ callerPc' \in {"idle", "notify"}
      /\ UNCHANGED <<loadInFlight, storeInFlight, stopping, slabOpen, workerPc, task, delivered>>
  BY DEF Submit, AfterSubmit, inFlight, pool
<1>2. /\ Blocks'
      /\ loadPending' \in Seq(Loads) /\ storePending' \in Seq(Stores)
      /\ completions' \in SUBSET Result /\ accepted' \in Nat /\ given' \in SUBSET Tasks
  BY SubmitKeepsBlocks DEF Blocks
<1>3. PoolTypeOK'
  BY <1>1, <1>2 DEF PoolTypeOK
<1>4. CallInv'
  BY <1>1 DEF CallInv, PoolTypeOK
<1>5. WakeInv'
  <2>0. (Calm' <=> Calm) /\ (Telling' <=> Telling) /\ Testers' = Testers
    BY <1>1 DEF Calm, Telling, Testers
  <2>1. CASE QueueFull
    <3>1. /\ Dispatchable' = Dispatchable /\ Unsaid' = Unsaid
      BY <1>1, <2>1 DEF Submit, queues, Dispatchable, Unsaid
    <3> QED BY <1>1, <2>0, <3>1 DEF WakeInv
  <2>2. CASE ~QueueFull
    <3>1. Unsaid = 0 /\ Unsaid' = 1
      BY <1>1, <2>2 DEF Submit, AfterSubmit, Unsaid
    <3>2. /\ Len(loadPending) \in Nat /\ Len(storePending) \in Nat /\ storeInFlight \in Nat
          /\ storeInFlight <= StoreLimit /\ StoreLimit \in Nat
      BY Sizes, Reserve DEF Counts
    <3>3. Dispatchable' <= Dispatchable + 1 /\ Dispatchable' \in Nat
      <4>1. CASE t \in Loads
        <5>1. loadPending' = Append(loadPending, t) /\ storePending' = storePending
          BY <2>2, <4>1 DEF Submit
        <5>2. Len(loadPending') = Len(loadPending) + 1
          BY <4>1, <5>1, AppendFacts DEF PoolTypeOK
        <5>3. Len(storePending') = Len(storePending) /\ storeInFlight' = storeInFlight
          BY <1>1, <5>1
        <5> DEFINE stores == IF Len(storePending) < StoreLimit - storeInFlight
                             THEN Len(storePending) ELSE StoreLimit - storeInFlight
        <5>4. stores \in Nat /\ Dispatchable = Len(loadPending) + stores
          BY <3>2 DEF Dispatchable
        <5>5. Dispatchable' = Len(loadPending') + stores
          BY <5>3 DEF Dispatchable
        <5> HIDE DEF stores
        <5>6. Dispatchable' = Dispatchable + 1
          BY <3>2, <5>2, <5>4, <5>5
        <5> QED BY <5>6, WakeSizes
      <4>2. CASE t \notin Loads
        <5>1. storePending' = Append(storePending, t) /\ loadPending' = loadPending /\ t \in Stores
          BY <2>2, <4>2 DEF Submit, Tasks
        <5>2. Len(storePending') = Len(storePending) + 1
          BY <5>1, AppendFacts DEF PoolTypeOK
        <5>3. Len(loadPending') = Len(loadPending) /\ storeInFlight' = storeInFlight
          BY <1>1, <5>1
        <5> QED BY <3>2, <5>2, <5>3 DEF Dispatchable
      <4> QED BY <4>1, <4>2
    <3>4. Dispatchable \in Nat /\ Cardinality(Testers) \in Nat
      BY WakeSizes
    <3>5. Cardinality(Testers') = Cardinality(Testers)
      BY <2>0
    <3>6. Dispatchable <= Cardinality(Testers) + Unsaid
            => Dispatchable' <= Cardinality(Testers') + Unsaid'
      BY <3>1, <3>3, <3>4, <3>5
    <3> QED BY <1>1, <2>0, <3>6 DEF WakeInv
  <2> QED BY <2>1, <2>2
<1> QED BY <1>2, <1>3, <1>4, <1>5 DEF Blocks

(* Completions taken by a poll or by a drain that is over.                 *)
LEMMA PollKeepsInv ==
  ASSUME PoolInv, PollCompletions \/ (DrainTest /\ accepted = 0)
  PROVE  PoolInv'
<1> USE DEF PoolInv
<1>1. /\ TakeCompletions
      /\ UNCHANGED <<queues, inFlight, accepted, stopping, slabOpen, pool, given>>
      /\ \/ callerPc \in {"idle", "closed"} /\ callerPc' = callerPc
         \/ callerPc = "drain" /\ callerPc' = "idle"
  BY DEF PollCompletions, DrainTest
<1>2. Blocks' /\ completions' \in SUBSET Result /\ delivered' \in SUBSET Result
  BY <1>1, PollKeepsBlocks DEF Blocks
<1>3. UNCHANGED <<loadPending, storePending, loadInFlight, storeInFlight, workerPc, task>>
  BY <1>1 DEF queues, inFlight, pool
<1>4. PoolTypeOK'
  BY <1>1, <1>2, <1>3 DEF PoolTypeOK
<1>5. CallInv'
  BY <1>1, <1>3 DEF CallInv, PoolTypeOK
<1>6. WakeInv'
  <2>1. UNCHANGED <<Calm, Telling, Testers, Dispatchable>>
    BY <1>3 DEF Calm, Telling, Testers, Dispatchable
  <2>2. Unsaid = 0 /\ Unsaid' = 0 /\ callerPc \notin {"stop", "unwind"}
    BY <1>1 DEF Unsaid
  <2> QED BY <1>1, <2>1, <2>2 DEF WakeInv
<1> QED BY <1>2, <1>4, <1>5, <1>6 DEF Blocks

(* A worker that exits, goes to sleep or wakes the others.                 *)
LEMMA WorkerRestKeepsInv ==
  ASSUME PoolInv, NEW w \in Workers, Exit(w) \/ Sleep(w) \/ WorkerNotifies(w)
  PROVE  PoolInv'
<1> USE DEF PoolInv
<1>0. /\ UNCHANGED <<blocks, task, history, stopping, slabOpen, callerPc>>
      /\ accepted' = accepted
  BY DEF Exit, Sleep, WorkerNotifies, blocks
<1>1. CASE Exit(w)
  <2>1. /\ workerPc[w] = "test" /\ stopping /\ accepted = 0
        /\ workerPc' = [workerPc EXCEPT ![w] = "exited"]
    BY <1>1 DEF Exit, MustExit
  <2>2. \A v \in Workers : workerPc'[v] = IF v = w THEN "exited" ELSE workerPc[v]
    BY <2>1 DEF PoolTypeOK
  <2>3. CallInv'
    BY <1>0, <2>1, <2>2 DEF CallInv
  <2>4. WakeInv'
    <3>1. (Calm => Calm') /\ (Telling => Telling')
      BY <2>1, <2>2 DEF Calm, Telling
    <3> QED BY <1>0, <2>1, <3>1 DEF WakeInv
  <2> QED BY <1>0, <2>1, <2>2, <2>3, <2>4, QuietStep DEF PoolTypeOK
<1>2. CASE Sleep(w)
  <2>1. /\ workerPc[w] = "test" /\ ~(stopping /\ accepted = 0) /\ ~CanDispatch
        /\ workerPc' = [workerPc EXCEPT ![w] = "wait"]
    BY <1>2 DEF Sleep, MustExit
  <2>2. \A v \in Workers : workerPc'[v] = IF v = w THEN "wait" ELSE workerPc[v]
    BY <2>1 DEF PoolTypeOK
  <2>3. CallInv'
    BY <1>0, <2>1, <2>2 DEF CallInv
  <2>4. WakeInv'
    <3>1. Dispatchable' = 0
      BY <1>0, <2>1, WakeSizes, SameDispatchable
    <3>2. Cardinality(Testers') \in Nat
      BY WorkersFinite DEF Testers
    <3>3. Unsaid' \in Nat
      BY DEF Unsaid
    <3>4. Dispatchable' <= Cardinality(Testers') + Unsaid'
      BY <3>1, <3>2, <3>3
    <3> QED BY <1>0, <2>1, <3>4 DEF WakeInv
  <2> QED BY <1>0, <2>1, <2>2, <2>3, <2>4, QuietStep DEF PoolTypeOK
<1>3. CASE WorkerNotifies(w)
  <2>1. workerPc[w] = "notify" /\ workerPc' = [NotifyAll EXCEPT ![w] = "test"]
    BY <1>3 DEF WorkerNotifies
  <2>2. \A v \in Workers :
          workerPc'[v] = IF v = w \/ workerPc[v] = "wait" THEN "test" ELSE workerPc[v]
    BY <2>1 DEF NotifyAll
  <2>3. CallInv'
    BY <1>0, <2>1, <2>2 DEF CallInv
  <2>4. WakeInv'
    BY <2>2, CalmWakes
  <2>5. workerPc' \in [Workers -> {"none", "test", "wait", "io", "notify", "exited"}]
    BY <2>1 DEF NotifyAll, PoolTypeOK
  <2>6. \A v \in Workers : workerPc'[v] = "io" <=> workerPc[v] = "io"
    BY <2>1, <2>2
  <2> QED BY <1>0, <2>3, <2>4, <2>5, <2>6, QuietStep DEF PoolTypeOK
<1> QED BY <1>1, <1>2, <1>3

(* A worker that takes a block leaves one less to the others.              *)
LEMMA TakeKeepsInv ==
  ASSUME PoolInv, NEW w \in Workers, Take(w)
  PROVE  PoolInv'
<1> USE DEF PoolInv
<1>1. /\ workerPc[w] = "test" /\ workerPc' = [workerPc EXCEPT ![w] = "io"]
      /\ ~(stopping /\ accepted = 0) /\ CanDispatch
      /\ UNCHANGED <<accepted, completions, stopping, slabOpen, callerPc, given, delivered>>
  BY DEF Take, MustExit, history
<1>2. \A v \in Workers : workerPc'[v] = IF v = w THEN "io" ELSE workerPc[v]
  BY <1>1 DEF PoolTypeOK
<1>3. /\ Blocks'
      /\ loadPending' \in Seq(Loads) /\ storePending' \in Seq(Stores)
      /\ loadInFlight' \in Nat /\ storeInFlight' \in Nat
      /\ task' \in [Workers -> SUBSET Tasks]
  BY TakeKeepsBlocks DEF Blocks
<1>4. PoolTypeOK'
  BY <1>1, <1>3 DEF PoolTypeOK
<1>5. CallInv'
  BY <1>1, <1>2 DEF CallInv
<1>6. WakeInv'
  <2>1. Cardinality(Testers') = Cardinality(Testers) - 1
    <3>1. workerPc[w] = "test" /\ workerPc' = [workerPc EXCEPT ![w] = "io"]
      BY <1>1
    <3>2. "io" # "test"
      OBVIOUS
    <3> QED BY <3>1, <3>2, OneTester
  <2>2. Dispatchable \in Nat /\ Cardinality(Testers) \in Nat
    BY WakeSizes
  <2>3. Dispatchable' = Dispatchable - 1
    <3>1. /\ Len(loadPending) \in Nat /\ Len(storePending) \in Nat /\ storeInFlight \in Nat
          /\ storeInFlight <= StoreLimit /\ StoreLimit \in Nat
      BY Sizes, Reserve DEF Counts
    <3>2. CASE loadPending # <<>>
      <4>1. /\ loadPending' = Tail(loadPending) /\ storePending' = storePending
            /\ storeInFlight' = storeInFlight
        BY <3>2 DEF Take
      <4>2. Len(loadPending') = Len(loadPending) - 1
        BY <3>2, <4>1, HeadTailProperties DEF PoolTypeOK
      <4>3. Len(storePending') = Len(storePending) /\ storeInFlight' = storeInFlight
        BY <4>1
      <4> QED BY <3>1, <4>2, <4>3 DEF Dispatchable
    <3>3. CASE loadPending = <<>>
      <4>0. storePending # <<>> /\ storeInFlight < StoreLimit
        BY <1>1, <3>3 DEF CanDispatch
      <4>1. /\ storePending' = Tail(storePending) /\ loadPending' = loadPending
            /\ storeInFlight' = storeInFlight + 1
        BY <3>3 DEF Take
      <4>2. Len(storePending') = Len(storePending) - 1 /\ Len(storePending) > 0
        BY <3>1, <4>0, <4>1, HeadTailProperties, EmptySeq DEF PoolTypeOK
      <4>3. Len(loadPending') = Len(loadPending) /\ storeInFlight' = storeInFlight + 1
        BY <4>1
      <4> QED BY <3>1, <4>0, <4>2, <4>3 DEF Dispatchable
    <3> QED BY <3>2, <3>3
  <2>4. Unsaid' = Unsaid /\ Unsaid \in Nat
    BY <1>1 DEF Unsaid
  <2>5. (Calm => Calm') /\ (Telling => Telling')
    BY <1>1, <1>2 DEF Calm, Telling
  <2>6. Dispatchable <= Cardinality(Testers) + Unsaid
          => Dispatchable' <= Cardinality(Testers') + Unsaid'
    BY <2>1, <2>2, <2>3, <2>4
  <2> QED BY <1>1, <2>5, <2>6 DEF WakeInv
<1> QED BY <1>3, <1>4, <1>5, <1>6 DEF Blocks

(* A worker that has transferred its block is about to tell all others.    *)
LEMMA FinishKeepsInv ==
  ASSUME PoolInv, NEW w \in Workers, Finish(w)
  PROVE  PoolInv'
<1> USE DEF PoolInv
<1>1. /\ workerPc[w] = "io" /\ workerPc' = [workerPc EXCEPT ![w] = "notify"]
      /\ accepted' = accepted - 1 /\ callerPc' = DrainWoken
      /\ UNCHANGED <<loadPending, storePending, stopping, slabOpen, given, delivered>>
  BY DEF Finish, AfterFinish, queues, history
<1>2. \A v \in Workers : workerPc'[v] = IF v = w THEN "notify" ELSE workerPc[v]
  BY <1>1 DEF PoolTypeOK
<1>3. /\ Blocks'
      /\ loadInFlight' \in Nat /\ storeInFlight' \in Nat /\ accepted > 0 /\ accepted' \in Nat
      /\ completions' \in SUBSET Result /\ task' \in [Workers -> SUBSET Tasks]
  BY FinishKeepsBlocks DEF Blocks
<1>4. \/ callerPc' = callerPc /\ ~(callerPc = "waiting" /\ accepted' = 0)
      \/ callerPc = "waiting" /\ callerPc' = "drain"
  BY <1>1 DEF DrainWoken
<1>5. PoolTypeOK'
  BY <1>1, <1>3, <1>4 DEF PoolTypeOK
<1>6. CallInv'
  <2>1. /\ slabOpen
        /\ callerPc \notin {"construct", "spawn", "unwind", "unwindJoin", "threw", "closed"}
    BY <1>1, <1>3 DEF CallInv
  <2>2. \A v \in Workers : workerPc[v] # "exited"
    BY <1>3 DEF CallInv
  <2>3. callerPc' = "waiting" => accepted' > 0
    BY <1>3, <1>4
  <2> QED BY <1>1, <1>2, <1>4, <2>1, <2>2, <2>3 DEF CallInv
<1>7. WakeInv'
  BY <1>2 DEF WakeInv, Telling
<1> QED BY <1>3, <1>5, <1>6, <1>7 DEF Blocks

--------------------------------------------------------------------------------
(* The invariant holds                                                     *)

(* It holds before any constructor has run.                                *)
LEMMA PoolInvInit ==
  ASSUME Init
  PROVE  PoolInv
<1>1. /\ ToSet(<<>>) = {} /\ IsInjective(<<>>)
      /\ <<>> \in Seq(Loads) /\ <<>> \in Seq(Stores) /\ Len(<<>>) = 0
  BY DEF ToSet, IsInjective
<1>2. PoolTypeOK
  BY <1>1 DEF Init, PoolTypeOK
<1>3. HandsInv
  BY DEF Init, HandsInv
<1>4. Pending = {} /\ Dispatched = {} /\ Answered = {} /\ Received = {}
  BY <1>1 DEF Init, Pending, Dispatched, Answered, Received
<1>5. Apart
  BY <1>1, <1>4 DEF Init, Apart
<1>6. Counts
  <2>1. Loading = {} /\ Storing = {}
    BY DEF Init, Loading, Storing
  <2>2. Cardinality(Loading) = 0 /\ Cardinality(Storing) = 0
    BY <2>1, FS_EmptySet
  <2>3. loadInFlight = 0 /\ storeInFlight = 0 /\ accepted = 0
        /\ Len(loadPending) = 0 /\ Len(storePending) = 0
    BY <1>1 DEF Init
  <2> QED BY <2>2, <2>3, Reserve DEF Counts
<1>7. CallInv /\ WakeInv
  BY DEF Init, CallInv, WakeInv, Calm
<1> QED BY <1>2, <1>3, <1>5, <1>6, <1>7 DEF PoolInv

(* Every step keeps it.                                                    *)
LEMMA PoolInvStep ==
  ASSUME PoolInv, [Next]_vars
  PROVE  PoolInv'
<1>1. CASE ConstructNext
  BY <1>1, ConstructKeepsInv
<1>2. CASE \E t \in Tasks : Submit(t)
  BY <1>2, SubmitKeepsInv
<1>3. CASE PollCompletions \/ (DrainTest /\ accepted = 0)
  BY <1>3, PollKeepsInv
<1>4. CASE \/ SubmitNotifies \/ DrainBegin \/ (DrainTest /\ accepted # 0)
           \/ ShutdownBegin \/ ShutdownNotifies \/ Join
  BY <1>4, CallKeepsInv
<1>5. ASSUME NEW w \in Workers, WorkerNext(w) PROVE PoolInv'
  BY <1>5, WorkerRestKeepsInv, TakeKeepsInv, FinishKeepsInv DEF WorkerNext
<1>6. CASE UNCHANGED vars
  <2>1. UNCHANGED <<blocks, task, history, workerPc, callerPc, stopping, slabOpen>>
    BY <1>6 DEF vars, pool
  <2>2. accepted' = accepted
    BY <2>1 DEF blocks
  <2>3. CallInv'
    BY <2>1, <2>2 DEF PoolInv, CallInv
  <2>4. UNCHANGED <<Calm, Telling, Testers, Unsaid, Dispatchable>>
    BY <2>1, SameDispatchable DEF Calm, Telling, Testers, Unsaid
  <2>5. WakeInv'
    BY <2>1, <2>2, <2>4 DEF PoolInv, WakeInv
  <2> QED BY <2>1, <2>3, <2>5, QuietStep DEF PoolInv, PoolTypeOK
<1> QED BY <1>1, <1>2, <1>3, <1>4, <1>5, <1>6 DEF Next, CallNext

(* The invariant of the pool holds in every state.                         *)
THEOREM PoolInvariance == Spec => []PoolInv
<1>1. Init => PoolInv
  BY PoolInvInit
<1>2. PoolInv /\ [Next]_vars => PoolInv'
  BY PoolInvStep
<1> QED BY <1>1, <1>2, PTL DEF Spec

--------------------------------------------------------------------------------
(* What it gives                                                           *)

(* With nothing accepted no block is pending or in the hands of a worker.  *)
LEMMA NothingAccepted ==
  ASSUME PoolInv, accepted = 0
  PROVE  Pending = {} /\ Dispatched = {}
<1> USE DEF PoolInv
<1>1. /\ accepted = Len(loadPending) + Len(storePending) + loadInFlight + storeInFlight
      /\ Len(loadPending) \in Nat /\ Len(storePending) \in Nat
      /\ loadInFlight \in Nat /\ storeInFlight \in Nat
  BY Sizes DEF Counts
<1>2. Len(loadPending) = 0 /\ Len(storePending) = 0 /\ loadInFlight = 0 /\ storeInFlight = 0
  BY <1>1
<1>3. loadPending = <<>> /\ storePending = <<>>
  BY <1>2, EmptySeq DEF PoolTypeOK
<1>4. Loading = {} /\ Storing = {}
  <2>1. Cardinality(Loading) = 0 /\ Cardinality(Storing) = 0
    BY <1>2 DEF Counts
  <2>2. IsFiniteSet(Loading) /\ IsFiniteSet(Storing)
    BY WorkersFinite DEF Loading, Storing
  <2> QED BY <2>1, <2>2, FS_EmptySet
<1>5. Dispatched = {}
  <2>1. ASSUME NEW w \in Workers PROVE task[w] = {}
    BY <1>4 DEF Loading, Storing, PoolTypeOK, Tasks
  <2> QED BY <2>1 DEF Dispatched
<1> QED BY <1>3, <1>5 DEF Pending, ToSet

(* With blocks accepted a worker transfers, or a block may be dispatched.  *)
LEMMA SomethingGoesOn ==
  ASSUME PoolInv, accepted > 0, \A w \in Workers : workerPc[w] # "io"
  PROVE  Dispatchable > 0
<1>1. loadInFlight = 0 /\ storeInFlight = 0
  BY BusyCount DEF PoolInv
<1>2. /\ Len(loadPending) \in Nat /\ Len(storePending) \in Nat
      /\ accepted = Len(loadPending) + Len(storePending) + loadInFlight + storeInFlight
      /\ StoreLimit \in Nat /\ StoreLimit > 0
  BY Sizes, Reserve DEF PoolInv, Counts
<1> QED BY <1>1, <1>2 DEF Dispatchable

(* No worker sleeps over a block that may be dispatched, though a submit   *)
(* wakes one worker only, and while all workers transfer a reserved share  *)
(* of them has loads.                                                      *)
THEOREM WorkIsConserved == Spec => []WorkConserving
<1>1. PoolInv => WorkConserving
  <2> SUFFICES ASSUME PoolInv PROVE WorkConserving
    OBVIOUS
  <2>1. \/ \A w \in Workers : workerPc[w] # "wait"
        \/ Notifying
        \/ Dispatchable <= Cardinality({w \in Workers : workerPc[w] = "test"})
    <3>1. CASE callerPc = "notify"
      BY <3>1 DEF Notifying
    <3>2. CASE callerPc # "notify"
      <4>1. Unsaid = 0 /\ Cardinality(Testers) \in Nat
        BY <3>2, WorkersFinite DEF Unsaid, Testers
      <4>2. Cardinality(Testers) + Unsaid = Cardinality(Testers)
        BY <4>1
      <4> QED BY <4>2 DEF PoolInv, WakeInv, Calm, Telling, Testers, Notifying
    <3> QED BY <3>1, <3>2
  <2>2. ASSUME \A w \in Workers : workerPc[w] = "io"
        PROVE  loadInFlight >= NumWorkers - StoreLimit
    <3>1. {w \in Workers : workerPc[w] = "io"} = Workers
      BY <2>2
    <3>2. loadInFlight + storeInFlight = NumWorkers
      BY <3>1, BusyCount DEF PoolInv, NumWorkers
    <3>3. loadInFlight \in Nat /\ storeInFlight \in Nat /\ storeInFlight <= StoreLimit
      BY DEF PoolInv, PoolTypeOK, Counts
    <3> QED BY <3>2, <3>3, Reserve
  <2> QED BY <2>1, <2>2 DEF WorkConserving
<1> QED BY <1>1, PoolInvariance, PTL

(* The slab is closed only when no worker needs it, by a shutdown as by a  *)
(* constructor that fails.                                                 *)
THEOREM SlabOutlivesWorkers == Spec => []SlabOutlivesTransfers
<1>1. PoolInv => SlabOutlivesTransfers
  BY NothingAccepted DEF PoolInv, CallInv, SlabOutlivesTransfers
<1> QED BY <1>1, PoolInvariance, PTL

(* A drain that waits, and a join, have a worker that is awake.            *)
THEOREM NoCallIsStuck == Spec => []NoStuckCall
<1>1. PoolInv => NoStuckCall
  <2> SUFFICES ASSUME PoolInv PROVE NoStuckCall
    OBVIOUS
  <2> USE DEF PoolInv
  <2>1. ASSUME \A w \in Workers : ~Awake(w), accepted > 0,
               callerPc \notin {"notify", "stop", "unwind"}
        PROVE  Calm
    <3>1. Dispatchable > 0 /\ Dispatchable \in Nat
      BY <2>1, SomethingGoesOn, WakeSizes DEF Awake
    <3>2. ~Telling /\ Testers = {} /\ Unsaid = 0
      BY <2>1 DEF Awake, Telling, Testers, Unsaid
    <3>3. Cardinality(Testers) + Unsaid = 0
      BY <3>2, FS_EmptySet
    <3> QED BY <2>1, <3>1, <3>2, <3>3 DEF WakeInv
  <2>2. ASSUME callerPc = "waiting" PROVE \E w \in Workers : Awake(w)
    <3>1. accepted > 0 /\ ~stopping /\ \A w \in Workers : workerPc[w] \notin {"none", "exited"}
      BY <2>2 DEF CallInv
    <3>2. PICK w \in Workers : TRUE
      BY Reserve, FS_EmptySet DEF NumWorkers
    <3>3. workerPc[w] \in {"none", "test", "wait", "io", "notify", "exited"}
      BY DEF PoolTypeOK
    <3> QED BY <2>1, <2>2, <3>1, <3>2, <3>3 DEF Calm, Awake
  <2>3. ASSUME callerPc \in {"join", "unwindJoin"}, NEW w \in Workers, workerPc[w] = "wait"
        PROVE  \E v \in Workers : Awake(v)
    <3>1. CASE accepted = 0
      BY <2>3, <3>1 DEF CallInv, WakeInv, Calm, Telling, Awake
    <3>2. CASE accepted > 0
      BY <2>1, <2>3, <3>2 DEF Calm
    <3> QED BY <3>1, <3>2 DEF PoolTypeOK
  <2> QED BY <2>2, <2>3 DEF NoStuckCall
<1> QED BY <1>1, PoolInvariance, PTL

--------------------------------------------------------------------------------
(* The pool keeps the block I/O contract                                   *)

Succeeded(t) == [task |-> t, ok |-> TRUE] \in completions \cup delivered
Closed       == stopping /\ callerPc \in {"stop", "join", "closed"}

(* Contract steps, by their effect on each block.                          *)
LEMMA ContractStutters ==
  ASSUME UNCHANGED <<given, completions, delivered, Closed>>
  PROVE  UNCHANGED Contract!vars
<1>1. \A t \in Tasks : StatusOf(t)' = StatusOf(t)
  BY DEF StatusOf, Answered, Received
<1>2. \A t \in Tasks : Succeeded(t)' = Succeeded(t)
  BY DEF Succeeded
<1> QED BY <1>1, <1>2 DEF Contract!vars, Succeeded, Closed

(* Submit, with a refusal or without, is the Submit of the contract.       *)
LEMMA SubmitIsContractSubmit ==
  ASSUME PoolInv, NEW t \in Tasks, Submit(t)
  PROVE  Contract!Next
<1> DEFINE refused == IF QueueFull THEN {t} ELSE {}
<1>1. ~stopping /\ stopping' = stopping /\ t \notin given /\ given' = given \cup {t}
      /\ delivered' = delivered
  BY DEF Submit
<1>2. given = UNION {Pending, Dispatched, Answered, Received}
  BY DEF PoolInv, Apart
<1>3. completions' = IF QueueFull THEN completions \cup {[task |-> t, ok |-> FALSE]}
                                  ELSE completions
  BY DEF Submit
<1>4. Answered' = Answered \cup refused /\ Received' = Received
  <2>1. Received' = Received
    BY <1>1 DEF Received
  <2>2. CASE QueueFull
    <3> DEFINE c == [task |-> t, ok |-> FALSE]
    <3>1. completions' = completions \cup {c} /\ c.task = t
      BY <1>3, <2>2
    <3> HIDE DEF c
    <3>2. Answered' = Answered \cup {t}
      BY <3>1 DEF Answered
    <3> QED BY <2>1, <2>2, <3>2
  <2>3. CASE ~QueueFull
    BY <1>3, <2>1, <2>3 DEF Answered
  <2> QED BY <2>2, <2>3
<1>5. \A u \in Tasks : StatusOf(u)' = IF u \in refused THEN "ready"
                                   ELSE IF u \in {t} THEN "owed" ELSE StatusOf(u)
  BY <1>1, <1>2, <1>4 DEF StatusOf
<1>6. \A u \in Tasks : Succeeded(u)' = Succeeded(u)
  BY <1>1, <1>3 DEF Succeeded
<1>7. StatusOf(t) = "new"
  BY <1>1 DEF StatusOf
<1>8. Contract!Submit({t}, refused)
  BY <1>1, <1>5, <1>6, <1>7 DEF Contract!Submit, Contract!In, Succeeded
<1> QED BY <1>8 DEF Contract!Next

(* A transfer that is over is the Complete of the contract.                *)
LEMMA FinishIsContractComplete ==
  ASSUME PoolInv, NEW w \in Workers, Finish(w)
  PROVE  Contract!Next
<1>1. PICK t \in Tasks, ok \in BOOLEAN :
        t \in task[w] /\ completions' = completions \cup {[task |-> t, ok |-> ok]}
  BY DEF Finish, PoolInv, PoolTypeOK
<1>2. /\ given' = given /\ delivered' = delivered
      /\ Closed' = Closed
  BY DEF Finish, history, DrainWoken, Closed
<1>3. t \in given /\ t \notin Answered /\ t \notin Received
  BY <1>1 DEF PoolInv, Apart, Dispatched
<1> DEFINE c == [task |-> t, ok |-> ok]
<1>4. c.task = t /\ c.ok = ok /\ completions' = completions \cup {c}
  BY <1>1
<1> HIDE DEF c
<1>5. Answered' = Answered \cup {t} /\ Received' = Received
  BY <1>2, <1>4 DEF Answered, Received
<1>6. \A u \in Tasks : StatusOf(u)' = IF u = t THEN "ready" ELSE StatusOf(u)
  BY <1>2, <1>3, <1>5 DEF StatusOf
<1>7. StatusOf(t) = "owed"
  BY <1>3 DEF StatusOf
<1>8. \A u \in Tasks : Succeeded(u)' = IF u = t THEN ok ELSE Succeeded(u)
  <2>1. ~Succeeded(t)
    BY <1>3 DEF Succeeded, Answered, Received
  <2>2. ASSUME NEW u \in Tasks, u # t PROVE Succeeded(u)' = Succeeded(u)
    <3>1. [task |-> u, ok |-> TRUE] # c
      BY <1>4, <2>2
    <3> QED BY <1>2, <1>4, <3>1 DEF Succeeded
  <2>3. Succeeded(t)' = ok
    <3>1. CASE ok = TRUE
      <4>1. c = [task |-> t, ok |-> TRUE]
        BY <3>1 DEF c
      <4>2. Succeeded(t)' = TRUE
        BY <1>4, <4>1 DEF Succeeded
      <4> QED BY <3>1, <4>2
    <3>2. CASE ok = FALSE
      <4>1. [task |-> t, ok |-> TRUE] # c
        BY <1>4, <3>2
      <4>2. Succeeded(t)' = FALSE
        BY <1>2, <1>4, <2>1, <4>1 DEF Succeeded
      <4> QED BY <3>2, <4>2
    <3> QED BY <3>1, <3>2
  <2> QED BY <2>2, <2>3
<1>9. Contract!Complete(t, ok)
  BY <1>2, <1>6, <1>7, <1>8 DEF Contract!Complete, Succeeded, Closed
<1> QED BY <1>9 DEF Contract!Next

(* Completions taken are the Poll of the contract, and none are a stutter. *)
LEMMA TakeIsContractPoll ==
  ASSUME PoolInv, TakeCompletions, UNCHANGED <<given, Closed>>
  PROVE  Contract!Next \/ UNCHANGED Contract!vars
<1>1. delivered' = delivered \cup completions /\ completions' = {}
  BY DEF TakeCompletions
<1>2. CASE completions = {}
  <2>1. UNCHANGED <<given, completions, delivered, Closed>>
    BY <1>1, <1>2
  <2> QED BY <2>1, ContractStutters
<1>3. CASE completions # {}
  <2>1. Answered \subseteq given /\ Answered \subseteq Tasks /\ Answered \cap Received = {}
    BY DEF PoolInv, Apart, Answered, PoolTypeOK, Result
  <2>2. Answered' = {} /\ Received' = Received \cup Answered
    BY <1>1 DEF Answered, Received
  <2>3. \A u \in Tasks : StatusOf(u)' = IF StatusOf(u) = "ready" THEN "delivered" ELSE StatusOf(u)
    BY <2>1, <2>2 DEF StatusOf
  <2>4. \A u \in Tasks : Succeeded(u)' = Succeeded(u)
    BY <1>1 DEF Succeeded
  <2>5. PICK c \in completions : TRUE
    BY <1>3
  <2>6. c.task \in Tasks /\ StatusOf(c.task) = "ready"
    BY <2>1, <2>5 DEF Answered, StatusOf
  <2>7. Contract!Poll
    BY <2>3, <2>4, <2>6 DEF Contract!Poll, Contract!In, Contract!Handed, Succeeded, Closed
  <2> QED BY <2>7 DEF Contract!Next
<1> QED BY <1>2, <1>3

(* The pool keeps the contract the io_uring engine keeps: a block is owed  *)
(* from Submit until a worker answers it, ready until it is polled, handed *)
(* over once, and none is accepted after a shutdown.                       *)
THEOREM PoolKeepsContract == Spec => ImplementsContract
<1>1. Init => Contract!Init
  <2> SUFFICES ASSUME Init PROVE Contract!Init
    OBVIOUS
  <2>1. \A t \in Tasks : StatusOf(t) = "new"
    BY DEF Init, StatusOf
  <2>2. \A t \in Tasks : Succeeded(t) = FALSE
    BY DEF Init, Succeeded
  <2> QED BY <2>1, <2>2 DEF Init, Contract!Init, Succeeded
<1>2. ASSUME PoolInv, [Next]_vars PROVE [Contract!Next]_(Contract!vars)
  <2>1. CASE \E t \in Tasks : Submit(t)
    BY <1>2, <2>1, SubmitIsContractSubmit
  <2>2. CASE \E w \in Workers : Finish(w)
    BY <1>2, <2>2, FinishIsContractComplete
  <2>3. CASE PollCompletions \/ (DrainTest /\ accepted = 0)
    <3>1. TakeCompletions /\ UNCHANGED <<given, Closed>>
      BY <2>3 DEF PollCompletions, DrainTest, Closed
    <3> QED BY <1>2, <3>1, TakeIsContractPoll
  <2>4. CASE ShutdownBegin
    <3>1. UNCHANGED <<given, completions, delivered>> /\ Closed' = TRUE
      BY <2>4 DEF ShutdownBegin, blocks, history, Closed
    <3>2. \A t \in Tasks : StatusOf(t)' = StatusOf(t)
      BY <3>1 DEF StatusOf, Answered, Received
    <3>3. \A t \in Tasks : Succeeded(t)' = Succeeded(t)
      BY <3>1 DEF Succeeded
    <3>4. Contract!Close
      BY <3>1, <3>2, <3>3 DEF Contract!Close, Succeeded, Closed
    <3> QED BY <3>4 DEF Contract!Next
  <2>5. CASE \/ ConstructNext \/ (DrainTest /\ accepted # 0) \/ DrainBegin
             \/ SubmitNotifies \/ ShutdownNotifies \/ Join
    <3>1. UNCHANGED <<given, completions, delivered>>
      BY <2>5 DEF ConstructNext, InitializeSlab, SpawnWorker, Constructed, SpawnFails,
        UnwindJoins, ConstructAgain, DrainTest, DrainBegin, SubmitNotifies, ShutdownNotifies, Join,
        blocks, history
    <3>2. Closed' = Closed
      BY <1>2, <2>5 DEF ConstructNext, InitializeSlab, SpawnWorker, Constructed, SpawnFails,
        UnwindJoins, ConstructAgain, DrainTest, DrainBegin, SubmitNotifies, ShutdownNotifies, Join,
        AfterStop, Closed, PoolInv, CallInv, PoolTypeOK
    <3> QED BY <3>1, <3>2, ContractStutters
  <2>6. CASE \/ \E w \in Workers : Exit(w) \/ Sleep(w) \/ Take(w) \/ WorkerNotifies(w)
             \/ UNCHANGED vars
    <3>1. UNCHANGED <<given, completions, delivered, Closed>>
      BY <2>6 DEF Exit, Sleep, Take, WorkerNotifies, vars, blocks, history, Closed
    <3> QED BY <3>1, ContractStutters
  <2> QED BY <1>2, <2>1, <2>2, <2>3, <2>4, <2>5, <2>6 DEF Next, CallNext, WorkerNext
<1> QED BY <1>1, <1>2, PoolInvariance, PTL DEF Spec, ImplementsContract, Contract!Spec
================================================================================
