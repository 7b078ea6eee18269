--------------------------- MODULE DataEngine_proofs ---------------------------
(***************************************************************************)
(* Proofs about DataEngine, for any finite set of blocks, any queue depth  *)
(* and capacity the constructor accepts, and any submit batch: where every *)
(* block is, the limits of the ring, no lost wake-up, what a drain and a   *)
(* shutdown promise, and that the engine keeps BlockIoContract.            *)
(***************************************************************************)
EXTENDS DataEngine, FiniteSetTheorems, SequenceTheorems, WellFoundedInduction, TLAPS

--------------------------------------------------------------------------------
(* Sequences without repetition, as the queues are                         *)

(* A new element at the end.                                               *)
LEMMA AppendFacts ==
  ASSUME NEW S, NEW s \in Seq(S), NEW e \in S
  PROVE  /\ Append(s, e) \in Seq(S) /\ Len(Append(s, e)) = Len(s) + 1
         /\ ToSet(Append(s, e)) = ToSet(s) \cup {e}
         /\ IsInjective(s) /\ e \notin ToSet(s) => IsInjective(Append(s, e))
<1>1. /\ Append(s, e) \in Seq(S) /\ Len(Append(s, e)) = Len(s) + 1
      /\ \A i \in 1 .. Len(s) : Append(s, e)[i] = s[i]
      /\ Append(s, e)[Len(s) + 1] = e
  BY AppendProperties
<1>2. DOMAIN s = 1 .. Len(s) /\ DOMAIN Append(s, e) = 1 .. Len(s) + 1 /\ Len(s) \in Nat
  BY <1>1, LenProperties
<1>3. ToSet(Append(s, e)) = ToSet(s) \cup {e}
  BY <1>1, <1>2 DEF ToSet
<1>4. IsInjective(s) /\ e \notin ToSet(s) => IsInjective(Append(s, e))
  BY <1>1, <1>2 DEF ToSet, IsInjective
<1> QED BY <1>1, <1>3, <1>4

(* The first element taken off.                                            *)
LEMMA TailFacts ==
  ASSUME NEW S, NEW s \in Seq(S), s # <<>>
  PROVE  /\ Head(s) \in ToSet(s) /\ Tail(s) \in Seq(S) /\ Len(Tail(s)) = Len(s) - 1
         /\ ToSet(s) = ToSet(Tail(s)) \cup {Head(s)} /\ Head(s) \in S
         /\ IsInjective(s) => IsInjective(Tail(s)) /\ Head(s) \notin ToSet(Tail(s))
<1>1. /\ Tail(s) \in Seq(S) /\ Len(Tail(s)) = Len(s) - 1
      /\ \A i \in 1 .. Len(s) - 1 : Tail(s)[i] = s[i + 1]
      /\ Head(s) \in S
  BY HeadTailProperties
<1>2. /\ DOMAIN s = 1 .. Len(s) /\ DOMAIN Tail(s) = 1 .. Len(s) - 1 /\ Len(s) \in Nat \ {0}
      /\ Head(s) = s[1]
  BY <1>1, LenProperties, EmptySeq
<1>3. \A i \in 1 .. Len(s) : i = 1 \/ (i - 1 \in 1 .. Len(s) - 1 /\ s[i] = Tail(s)[i - 1])
  BY <1>1, <1>2
<1>4. ToSet(s) = ToSet(Tail(s)) \cup {Head(s)}
  <2>1. ASSUME NEW i \in 1 .. Len(s) PROVE s[i] \in ToSet(Tail(s)) \cup {Head(s)}
    BY <1>2, <1>3 DEF ToSet
  <2>2. ASSUME NEW i \in 1 .. Len(s) - 1 PROVE Tail(s)[i] \in ToSet(s)
    <3>1. i + 1 \in 1 .. Len(s) /\ Tail(s)[i] = s[i + 1]
      BY <1>1, <1>2
    <3> QED BY <1>2, <3>1 DEF ToSet
  <2> QED BY <1>2, <2>1, <2>2 DEF ToSet
<1>5. IsInjective(s) => IsInjective(Tail(s)) /\ Head(s) \notin ToSet(Tail(s))
  BY <1>1, <1>2 DEF ToSet, IsInjective
<1> QED BY <1>1, <1>2, <1>4, <1>5 DEF ToSet

(* A part submitted and the rest kept.                                     *)
LEMMA SplitFacts ==
  ASSUME NEW S, NEW s \in Seq(S), NEW n \in 0 .. Len(s)
  PROVE  LET front == SubSeq(s, 1, n)
             rest  == SubSeq(s, n + 1, Len(s))
         IN  /\ front \in Seq(S) /\ Len(front) = n
             /\ rest \in Seq(S) /\ Len(rest) = Len(s) - n
             /\ ToSet(s) = ToSet(front) \cup ToSet(rest)
             /\ IsInjective(s) => /\ IsInjective(front) /\ IsInjective(rest)
                                  /\ ToSet(front) \cap ToSet(rest) = {}
<1> DEFINE front == SubSeq(s, 1, n)
           rest  == SubSeq(s, n + 1, Len(s))
<1>1. Len(s) \in Nat /\ DOMAIN s = 1 .. Len(s) /\ \A i \in 1 .. Len(s) : s[i] \in S
  BY LenProperties
<1>2. /\ front \in Seq(S) /\ Len(front) = n
      /\ \A i \in 1 .. n : front[i] = s[i]
  BY <1>1, SubSeqProperties
<1>3. /\ rest \in Seq(S) /\ Len(rest) = Len(s) - n
      /\ \A i \in 1 .. Len(s) - n : rest[i] = s[n + i]
  <2>1. \A i \in n + 1 .. Len(s) : s[i] \in S
    BY <1>1
  <2>2. /\ rest \in Seq(S) /\ Len(rest) = IF n + 1 <= Len(s) THEN Len(s) - (n + 1) + 1 ELSE 0
        /\ \A i \in 1 .. Len(s) - (n + 1) + 1 : rest[i] = s[n + 1 + i - 1]
    BY <1>1, <2>1, SubSeqProperties
  <2> HIDE DEF rest
  <2>3. Len(rest) = Len(s) - n
    <3>1. CASE n + 1 <= Len(s)
      BY <1>1, <2>2, <3>1
    <3>2. CASE ~(n + 1 <= Len(s))
      <4>0. Len(s) \in Nat
        BY <1>1
      <4>1. Len(s) - n = 0
        BY <4>0, <3>2
      <4>2. Len(rest) = 0
        BY <2>2, <3>2
      <4> QED BY <4>1, <4>2
    <3> QED BY <3>1, <3>2
  <2>4. ASSUME NEW i \in 1 .. Len(s) - n PROVE rest[i] = s[n + i]
    <3>1. i \in 1 .. Len(s) - (n + 1) + 1 /\ n + 1 + i - 1 = n + i
      BY <1>1
    <3>2. rest[i] = s[n + 1 + i - 1]
      BY <2>2, <3>1
    <3> QED BY <3>1, <3>2
  <2> QED BY <2>2, <2>3, <2>4
<1> HIDE DEF front, rest
<1>4. DOMAIN front = 1 .. n /\ DOMAIN rest = 1 .. Len(s) - n
  BY <1>1, <1>2, <1>3, LenProperties
<1>5. \A i \in 1 .. Len(s) : \/ i \in 1 .. n /\ s[i] = front[i]
                             \/ i - n \in 1 .. Len(s) - n /\ s[i] = rest[i - n]
  BY <1>1, <1>2, <1>3
<1>6. ToSet(s) = ToSet(front) \cup ToSet(rest)
  <2>1. ASSUME NEW i \in 1 .. Len(s) PROVE s[i] \in ToSet(front) \cup ToSet(rest)
    BY <1>4, <1>5 DEF ToSet
  <2>2. ASSUME NEW i \in 1 .. n PROVE front[i] \in ToSet(s)
    <3>1. i \in 1 .. Len(s)
      BY <1>1
    <3> QED BY <1>1, <1>2, <3>1 DEF ToSet
  <2>3. ASSUME NEW i \in 1 .. Len(s) - n PROVE rest[i] \in ToSet(s)
    <3>1. n + i \in 1 .. Len(s)
      BY <1>1
    <3> QED BY <1>1, <1>3, <3>1 DEF ToSet
  <2> QED BY <1>1, <1>4, <2>1, <2>2, <2>3 DEF ToSet
<1>7. ASSUME IsInjective(s)
      PROVE  IsInjective(front) /\ IsInjective(rest) /\ ToSet(front) \cap ToSet(rest) = {}
  <2>1. \A i \in 1 .. n : i \in 1 .. Len(s)
    BY <1>1
  <2>2. \A i \in 1 .. Len(s) - n : n + i \in 1 .. Len(s) /\ n + i > n
    BY <1>1
  <2>3. \A i, j \in 1 .. Len(s) : s[i] = s[j] => i = j
    BY <1>1, <1>7 DEF IsInjective
  <2>4. IsInjective(front)
    BY <1>2, <1>4, <2>1, <2>3 DEF IsInjective
  <2>5. IsInjective(rest)
    <3>1. ASSUME NEW i \in 1 .. Len(s) - n, NEW j \in 1 .. Len(s) - n, rest[i] = rest[j]
          PROVE  i = j
      <4>1. n + i = n + j
        BY <1>3, <2>2, <2>3, <3>1
      <4> QED BY <1>1, <4>1
    <3> QED BY <1>4, <3>1 DEF IsInjective
  <2>6. ASSUME NEW i \in 1 .. n, NEW j \in 1 .. Len(s) - n PROVE front[i] # rest[j]
    <3>1. i # n + j
      BY <1>1
    <3> QED BY <1>2, <1>3, <2>1, <2>2, <2>3, <3>1
  <2> QED BY <1>4, <2>4, <2>5, <2>6 DEF ToSet
<1> QED BY <1>2, <1>3, <1>6, <1>7 DEF front, rest

(* As long as it has elements.                                             *)
LEMMA DistinctCount ==
  ASSUME NEW S, NEW s \in Seq(S), IsInjective(s)
  PROVE  IsFiniteSet(ToSet(s)) /\ Cardinality(ToSet(s)) = Len(s)
<1>1. Len(s) \in Nat /\ DOMAIN s = 1 .. Len(s) /\ s \in [1 .. Len(s) -> S]
  BY LenProperties
<1>2. s \in Bijection(1 .. Len(s), ToSet(s))
  BY <1>1 DEF Bijection, Injection, Surjection, IsInjective, ToSet
<1>3. IsFiniteSet(1 .. Len(s)) /\ Cardinality(1 .. Len(s)) = Len(s)
  BY <1>1, FS_Interval
<1> QED BY <1>2, <1>3, FS_Bijection DEF ExistsBijection

(* Powers of two are numbers, and the n-th is at least n.                  *)
LEMMA PowerOfTwo ==
  ASSUME NEW n \in Nat
  PROVE  2 ^ n \in Nat /\ n <= 2 ^ n
<1> DEFINE f == [i \in 1 .. n |-> {i}]
<1>1. IsFiniteSet(1 .. n) /\ Cardinality(1 .. n) = n
  BY FS_Interval
<1>2. IsFiniteSet(SUBSET (1 .. n)) /\ Cardinality(SUBSET (1 .. n)) = 2 ^ n
  BY <1>1, FS_SUBSET
<1>3. f \in Injection(1 .. n, SUBSET (1 .. n))
  BY DEF Injection, IsInjective
<1>4. n <= 2 ^ n
  BY <1>1, <1>2, <1>3, FS_Injection
<1> QED BY <1>2, <1>4, FS_CardinalityType

(* The ring has room for the requests it is made for.                      *)
LEMMA RingHasRoom ==
  ASSUME NEW n \in Nat
  PROVE  RingEntries(n) \in Nat /\ RingEntries(n) >= n
<1> DEFINE powers == {2 ^ i : i \in 0 .. n}
           enough == {p \in powers : p >= n}
<1>1. powers \subseteq Nat
  BY PowerOfTwo
<1>2. enough # {}
  BY PowerOfTwo
<1> DEFINE intervals == {1 .. p : p \in enough}
<1>3. intervals \subseteq FiniteSubsetsOf(Nat) /\ intervals # {}
  <2>1. ASSUME NEW p \in Nat PROVE 1 .. p \in FiniteSubsetsOf(Nat)
    BY FS_Interval DEF FiniteSubsetsOf
  <2> QED BY <1>1, <1>2, <2>1
<1>4. PICK least \in intervals :
        \A other \in intervals : <<other, least>> \notin StrictSubsetOrdering(Nat)
  BY <1>3, FS_StrictSubsetOrderingWellFounded, WFMin
<1>5. PICK p \in enough : least = 1 .. p
  BY <1>4
<1>6. ASSUME NEW q \in enough PROVE p <= q
  <2>1. p \in Nat /\ q \in Nat
    BY <1>1
  <2>2. ASSUME q < p PROVE FALSE
    <3>1. 1 .. q \subseteq 1 .. p /\ p \in 1 .. p /\ p \notin 1 .. q
      BY <2>1, <2>2
    <3>2. 1 .. q \in SUBSET Nat /\ 1 .. p \in SUBSET Nat /\ 1 .. q # 1 .. p
      BY <2>1, <3>1
    <3>3. <<1 .. q, 1 .. p>> \in StrictSubsetOrdering(Nat)
      BY <3>1, <3>2 DEF StrictSubsetOrdering
    <3> QED BY <1>4, <1>5, <3>3
  <2> QED BY <2>1, <2>2
<1>7. \E r \in powers : r >= n /\ \A q \in powers : q >= n => r <= q
  BY <1>6
<1> QED BY <1>1, <1>7 DEF RingEntries

--------------------------------------------------------------------------------
(* The invariant                                                           *)

Result == [task : Tasks, ok : BOOLEAN]
InCq   == {c.task : c \in cq}

(* Types of what the engine shares.                                        *)
EngineTypeOK ==
  /\ loadPending \in Seq(Loads) /\ storePending \in Seq(Stores) /\ sq \in Seq(Tasks)
  /\ loadInFlight \in Nat /\ storeInFlight \in Nat /\ accepted \in Nat /\ freeContexts \in Nat
  /\ prepared \in Nat /\ batched \in Nat /\ wakeCount \in Nat
  /\ kernel \subseteq Tasks /\ given \subseteq Tasks
  /\ cq \subseteq Result /\ completions \subseteq Result /\ delivered \subseteq Result
  /\ stats \in [submitted : Nat, load : Nat, store : Nat]
  /\ stopping \in BOOLEAN /\ wakeFd \in {"open", "closed", "unset"}
  /\ ownerPc \in {"reap", "dispatch", "submit", "count", "check", "poll", "drainWake",
                  "destroy", "unset", "exited"}
  /\ callerPc \in {"idle", "wake", "write", "drain", "waiting", "stopWake", "stopWrite",
                   "join", "closed"}

(* A block has one completion.                                             *)
OneEach(results) == \A c, d \in results : c.task = d.task => c = d

(* No block is in two places.                                              *)
Apart ==
  /\ IsInjective(loadPending) /\ IsInjective(storePending) /\ IsInjective(sq)
  /\ OneEach(cq) /\ OneEach(completions) /\ OneEach(delivered)
  /\ ToSet(sq) \cap kernel = {} /\ InCq \cap (ToSet(sq) \cup kernel) = {}
  /\ Pending \cap Dispatched = {} /\ Answered \cap Received = {}
  /\ (Pending \cup Dispatched) \cap (Answered \cup Received) = {}
  /\ given = UNION {Pending, Dispatched, Answered, Received}

(* The counters count the blocks.                                          *)
Counts ==
  /\ Cardinality(given) = accepted + Cardinality(completions) + Cardinality(delivered)
  /\ accepted = Len(loadPending) + Len(storePending) + loadInFlight + storeInFlight
  /\ loadInFlight = Cardinality(Dispatched \cap Loads)
  /\ storeInFlight = Cardinality(Dispatched \cap Stores)
  /\ loadInFlight + storeInFlight = Len(sq) + Cardinality(kernel) + Cardinality(cq)
  /\ freeContexts = TotalQD - Cardinality(Dispatched)
  /\ storeInFlight <= StoreQD

BlocksInv == Apart /\ Counts

(* Where the owner is tells what it has prepared and not yet counted.      *)
OwnerInv ==
  /\ prepared = Len(sq) /\ prepared <= SubmitBatch
  /\ ownerPc \notin {"dispatch", "submit"} => prepared = 0
  /\ ownerPc \notin {"dispatch", "submit", "count"} => batched = 0
  /\ batched <= Cardinality(kernel) + Cardinality(cq)
  /\ StatsReconcile

(* What has changed since the owner looked is followed by a wake-up.       *)
WakeInv ==
  /\ ownerPc \in {"count", "check", "poll"} /\ callerPc \notin {"wake", "write"} /\ wakeCount = 0
       => ~CanDispatch
  /\ ownerPc = "poll" /\ callerPc \notin {"stopWake", "stopWrite"} /\ wakeCount = 0
       => ~(stopping /\ accepted = 0)

(* The descriptor is open while the owner runs, and a stopped engine owes  *)
(* nothing.                                                                *)
StopInv ==
  /\ wakeFd = "open" <=> ownerPc \notin {"unset", "exited"}
  /\ wakeFd = "unset" <=> ownerPc = "exited"
  /\ ownerPc \in {"destroy", "unset", "exited"} => stopping /\ accepted = 0
  /\ callerPc = "closed" => ownerPc = "exited"

EngineInv == EngineTypeOK /\ BlocksInv /\ OwnerInv /\ WakeInv /\ StopInv

--------------------------------------------------------------------------------
(* What the invariant says of sizes                                        *)

(* Sets that have nothing in common add up.                                *)
LEMMA DisjointUnion ==
  ASSUME NEW some, NEW more, IsFiniteSet(some), IsFiniteSet(more), some \cap more = {}
  PROVE  Cardinality(some \cup more) = Cardinality(some) + Cardinality(more)
<1>1. Cardinality(some \cup more)
        = Cardinality(some) + Cardinality(more) - Cardinality(some \cap more)
  BY FS_Union
<1>2. Cardinality(some \cap more) = 0
  BY FS_EmptySet
<1>3. Cardinality(some) \in Nat /\ Cardinality(more) \in Nat
  BY FS_CardinalityType
<1> QED BY <1>1, <1>2, <1>3

(* Completions are no more than blocks.                                    *)
LEMMA ResultsFinite ==
  ASSUME NEW results \in SUBSET Result, OneEach(results)
  PROVE  IsFiniteSet(results) /\ Cardinality(results) \in Nat
<1> DEFINE taskOf == [c \in results |-> c.task]
<1>1. taskOf \in Injection(results, Tasks)
  BY DEF Result, OneEach, Injection, IsInjective
<1>2. IsFiniteSet(results)
  BY <1>1, TasksAssumption, FS_Injection DEF Tasks
<1> QED BY <1>2, FS_CardinalityType

(* So are sets of blocks.                                                  *)
LEMMA TasksFinite ==
  ASSUME NEW some \in SUBSET Tasks
  PROVE  IsFiniteSet(some) /\ Cardinality(some) \in Nat
<1>1. IsFiniteSet(some)
  BY TasksAssumption, FS_Subset DEF Tasks
<1> QED BY <1>1, FS_CardinalityType

(* A completion more, or less, is one more, or less, as a set of blocks.   *)
LEMMA OneMoreResult ==
  ASSUME NEW results \in SUBSET Result, OneEach(results), NEW c \in Result,
         c.task \notin {d.task : d \in results}
  PROVE  /\ results \cup {c} \in SUBSET Result /\ OneEach(results \cup {c})
         /\ Cardinality(results \cup {c}) = Cardinality(results) + 1
         /\ {d.task : d \in results \cup {c}} = {d.task : d \in results} \cup {c.task}
<1>1. c \notin results
  OBVIOUS
<1>2. Cardinality(results \cup {c}) = Cardinality(results) + 1
  BY <1>1, ResultsFinite, FS_AddElement
<1> QED BY <1>2 DEF OneEach

(* A completion less.                                                      *)
LEMMA OneLessResult ==
  ASSUME NEW results \in SUBSET Result, OneEach(results), NEW c \in results
  PROVE  /\ results \ {c} \in SUBSET Result /\ OneEach(results \ {c})
         /\ Cardinality(results \ {c}) = Cardinality(results) - 1
         /\ {d.task : d \in results \ {c}} = {d.task : d \in results} \ {c.task}
<1>1. Cardinality(results \ {c}) = Cardinality(results) - 1
  BY ResultsFinite, FS_RemoveElement
<1> QED BY <1>1 DEF OneEach

(* Completions of different blocks, put together.                          *)
LEMMA TwoResultSets ==
  ASSUME NEW some \in SUBSET Result, NEW more \in SUBSET Result,
         OneEach(some), OneEach(more),
         {d.task : d \in some} \cap {d.task : d \in more} = {}
  PROVE  /\ some \cup more \in SUBSET Result /\ OneEach(some \cup more)
         /\ Cardinality(some \cup more) = Cardinality(some) + Cardinality(more)
         /\ {d.task : d \in some \cup more} = {d.task : d \in some} \cup {d.task : d \in more}
<1>1. some \cap more = {}
  OBVIOUS
<1>2. Cardinality(some \cup more) = Cardinality(some) + Cardinality(more)
  BY <1>1, ResultsFinite, DisjointUnion
<1> QED BY <1>2 DEF OneEach

(* The sets of the invariant, by name.                                     *)
LEMMA Places ==
  ASSUME EngineTypeOK
  PROVE  /\ Pending \subseteq Tasks /\ InCq \subseteq Tasks /\ ToSet(sq) \subseteq Tasks
         /\ Dispatched = ToSet(sq) \cup kernel \cup InCq /\ Dispatched \subseteq Tasks
         /\ Answered \subseteq Tasks /\ Received \subseteq Tasks
<1>1. ToSet(loadPending) \subseteq Loads /\ ToSet(storePending) \subseteq Stores
      /\ ToSet(sq) \subseteq Tasks
  BY LenProperties DEF EngineTypeOK, ToSet
<1>2. InCq \subseteq Tasks /\ Answered \subseteq Tasks /\ Received \subseteq Tasks
  BY DEF EngineTypeOK, InCq, Answered, Received, Result
<1> QED BY <1>1, <1>2 DEF EngineTypeOK, Pending, Dispatched, InCq, Tasks

(* The requests in flight are those dispatched.                            *)
LEMMA InFlightCount ==
  ASSUME EngineTypeOK, BlocksInv
  PROVE  /\ Cardinality(Dispatched) = loadInFlight + storeInFlight
         /\ freeContexts = TotalQD - (loadInFlight + storeInFlight)
<1>1. /\ Dispatched = (Dispatched \cap Loads) \cup (Dispatched \cap Stores)
      /\ (Dispatched \cap Loads) \cap (Dispatched \cap Stores) = {}
  BY Places, TasksAssumption DEF Tasks
<1>2. /\ IsFiniteSet(Dispatched \cap Loads) /\ IsFiniteSet(Dispatched \cap Stores)
      /\ Cardinality(Dispatched \cap Loads) \in Nat /\ Cardinality(Dispatched \cap Stores) \in Nat
  BY TasksFinite DEF Tasks
<1>3. Cardinality(Dispatched)
        = Cardinality(Dispatched \cap Loads) + Cardinality(Dispatched \cap Stores)
  BY <1>1, <1>2, DisjointUnion
<1> QED BY <1>3 DEF BlocksInv, Counts

(* What is counted is a number.                                            *)
LEMMA Sizes ==
  ASSUME EngineTypeOK, Apart
  PROVE  /\ Len(loadPending) \in Nat /\ Len(storePending) \in Nat /\ Len(sq) \in Nat
         /\ Cardinality(given) \in Nat /\ Cardinality(kernel) \in Nat
         /\ Cardinality(cq) \in Nat /\ Cardinality(completions) \in Nat
         /\ Cardinality(delivered) \in Nat
         /\ loadInFlight \in Nat /\ storeInFlight \in Nat /\ accepted \in Nat
<1>1. Len(loadPending) \in Nat /\ Len(storePending) \in Nat /\ Len(sq) \in Nat
  BY LenProperties DEF EngineTypeOK
<1>2. Cardinality(given) \in Nat /\ Cardinality(kernel) \in Nat
  BY TasksFinite DEF EngineTypeOK
<1>3. /\ Cardinality(cq) \in Nat /\ Cardinality(completions) \in Nat
      /\ Cardinality(delivered) \in Nat
  BY ResultsFinite DEF EngineTypeOK, Apart
<1> QED BY <1>1, <1>2, <1>3 DEF EngineTypeOK

--------------------------------------------------------------------------------
(* The steps that move blocks keep BlocksInv                               *)

(* A new block is pending, or answered at once when the queue is full.     *)
LEMMA SubmitKeepsBlocks ==
  ASSUME EngineTypeOK, BlocksInv, NEW t \in Tasks, Submit(t)
  PROVE  /\ BlocksInv'
         /\ loadPending' \in Seq(Loads) /\ storePending' \in Seq(Stores)
         /\ completions' \in SUBSET Result /\ accepted' \in Nat /\ given' \in SUBSET Tasks
<1> USE DEF BlocksInv
<1>1. /\ given' = given \cup {t} /\ t \notin given
      /\ UNCHANGED <<loadInFlight, storeInFlight, freeContexts, sq, kernel, cq, delivered>>
  BY DEF Submit, inFlight, ring
<1>2. /\ Cardinality(given') = Cardinality(given) + 1 /\ Cardinality(given) \in Nat
      /\ given' \in SUBSET Tasks
  BY <1>1, TasksFinite, FS_AddElement DEF EngineTypeOK
<1>3. UNCHANGED <<Dispatched, InCq, Received>>
  BY <1>1 DEF Dispatched, InCq, Received
<1>4. CASE QueueFull
  <2> DEFINE c == [task |-> t, ok |-> FALSE]
  <2>1. completions' = completions \cup {c} /\ UNCHANGED <<loadPending, storePending, accepted>>
    BY <1>4 DEF Submit, queues, Counted, EngineTypeOK
  <2>2. c \in Result /\ c.task = t /\ t \notin {d.task : d \in completions}
    BY <1>1 DEF Result, Apart, Answered
  <2>3. /\ completions' \in SUBSET Result /\ OneEach(completions')
        /\ Cardinality(completions') = Cardinality(completions) + 1
        /\ Answered' = Answered \cup {t}
    BY <2>1, <2>2, OneMoreResult DEF Answered, EngineTypeOK, Apart
  <2>4. UNCHANGED Pending
    BY <2>1 DEF Pending
  <2>5. Apart'
    BY <1>1, <1>3, <2>1, <2>3, <2>4 DEF Apart
  <2>6. Cardinality(given') = accepted' + Cardinality(completions') + Cardinality(delivered')
    <3>1. /\ Cardinality(given) = accepted + Cardinality(completions) + Cardinality(delivered)
          /\ accepted \in Nat /\ Cardinality(completions) \in Nat /\ Cardinality(delivered) \in Nat
      BY Sizes DEF Counts
    <3>2. /\ accepted' = accepted /\ delivered' = delivered
          /\ Cardinality(given') = Cardinality(given) + 1
          /\ Cardinality(completions') = Cardinality(completions) + 1
      BY <1>1, <1>2, <2>1, <2>3
    <3> QED BY <3>1, <3>2
  <2>7. Counts'
    BY <1>1, <1>3, <2>1, <2>6 DEF Counts
  <2> QED BY <1>2, <2>1, <2>3, <2>5, <2>7 DEF EngineTypeOK
<1>5. CASE ~QueueFull
  <2>1. accepted' = accepted + 1 /\ UNCHANGED completions
    BY <1>5 DEF Submit, Counted
  <2>2. t \notin ToSet(loadPending) /\ t \notin ToSet(storePending)
    BY <1>1 DEF Apart, Pending
  <2>3. /\ loadPending' \in Seq(Loads) /\ storePending' \in Seq(Stores)
        /\ IsInjective(loadPending') /\ IsInjective(storePending')
        /\ Pending' = Pending \cup {t}
        /\ Len(loadPending') + Len(storePending') = Len(loadPending) + Len(storePending) + 1
    <3>0. Len(loadPending) \in Nat /\ Len(storePending) \in Nat
      BY LenProperties DEF EngineTypeOK
    <3>1. CASE t \in Loads
      <4>1. loadPending' = Append(loadPending, t) /\ storePending' = storePending
        BY <1>5, <3>1 DEF Submit
      <4> QED BY <2>2, <3>0, <3>1, <4>1, AppendFacts DEF Pending, EngineTypeOK, Apart
    <3>2. CASE t \notin Loads
      <4>1. storePending' = Append(storePending, t) /\ loadPending' = loadPending /\ t \in Stores
        BY <1>5, <3>2 DEF Submit, Tasks
      <4> QED BY <2>2, <3>0, <4>1, AppendFacts DEF Pending, EngineTypeOK, Apart
    <3> QED BY <3>1, <3>2
  <2>4. UNCHANGED Answered
    BY <2>1 DEF Answered
  <2>5. Apart'
    BY <1>1, <1>3, <2>1, <2>3, <2>4 DEF Apart
  <2>6. Cardinality(given') = accepted' + Cardinality(completions') + Cardinality(delivered')
    <3>1. /\ Cardinality(given) = accepted + Cardinality(completions) + Cardinality(delivered)
          /\ accepted \in Nat /\ Cardinality(completions) \in Nat /\ Cardinality(delivered) \in Nat
      BY Sizes DEF Counts
    <3>2. /\ accepted' = accepted + 1 /\ completions' = completions /\ delivered' = delivered
          /\ Cardinality(given') = Cardinality(given) + 1
      BY <1>1, <1>2, <2>1
    <3> QED BY <3>1, <3>2
  <2>7. accepted' = Len(loadPending') + Len(storePending') + loadInFlight' + storeInFlight'
    <3>1. /\ accepted = Len(loadPending) + Len(storePending) + loadInFlight + storeInFlight
          /\ Len(loadPending) \in Nat /\ Len(storePending) \in Nat
          /\ loadInFlight \in Nat /\ storeInFlight \in Nat
      BY Sizes DEF Counts
    <3>2. Len(loadPending') \in Nat /\ Len(storePending') \in Nat
      BY <2>3, LenProperties
    <3>3. /\ accepted' = accepted + 1 /\ loadInFlight' = loadInFlight
          /\ storeInFlight' = storeInFlight
          /\ Len(loadPending') + Len(storePending') = Len(loadPending) + Len(storePending) + 1
      BY <1>1, <2>1, <2>3
    <3> QED BY <3>1, <3>2, <3>3
  <2>8. Counts'
    BY <1>1, <1>3, <2>6, <2>7 DEF Counts
  <2> QED BY <1>2, <2>1, <2>3, <2>5, <2>8 DEF EngineTypeOK
<1> QED BY <1>4, <1>5

(* A poll moves the answered blocks to the received ones.                  *)
LEMMA TakeKeepsBlocks ==
  ASSUME EngineTypeOK, BlocksInv, TakeCompletions,
         UNCHANGED <<queues, inFlight, accepted, ring, given>>
  PROVE  /\ BlocksInv' /\ completions' = {} /\ delivered' \in SUBSET Result
         /\ Received' = Answered \cup Received
<1> USE DEF BlocksInv
<1>1. /\ delivered' = delivered \cup completions /\ completions' = {}
      /\ UNCHANGED <<loadPending, storePending, loadInFlight, storeInFlight, freeContexts,
                     accepted, sq, kernel, cq, given>>
  BY DEF TakeCompletions, queues, inFlight, ring
<1>2. UNCHANGED <<Pending, Dispatched, InCq>>
  BY <1>1 DEF Pending, Dispatched, InCq
<1>3. /\ delivered' \in SUBSET Result /\ OneEach(delivered')
      /\ Cardinality(delivered') = Cardinality(delivered) + Cardinality(completions)
      /\ Received' = Answered \cup Received
  <2>1. /\ delivered \in SUBSET Result /\ completions \in SUBSET Result
        /\ OneEach(delivered) /\ OneEach(completions)
        /\ {d.task : d \in delivered} \cap {d.task : d \in completions} = {}
    BY DEF EngineTypeOK, Apart, Answered, Received
  <2>2. /\ delivered' \in SUBSET Result /\ OneEach(delivered')
        /\ Cardinality(delivered') = Cardinality(delivered) + Cardinality(completions)
        /\ {d.task : d \in delivered'}
             = {d.task : d \in delivered} \cup {d.task : d \in completions}
    BY <1>1, <2>1, TwoResultSets
  <2> QED BY <2>2 DEF Answered, Received
<1>4. Answered' = {} /\ Cardinality(completions') = 0 /\ OneEach(completions')
  BY <1>1, FS_EmptySet DEF Answered, OneEach
<1>5. Apart'
  BY <1>1, <1>2, <1>3, <1>4 DEF Apart
<1>6. Cardinality(given') = accepted' + Cardinality(completions') + Cardinality(delivered')
  BY <1>1, <1>3, <1>4, Sizes DEF Counts
<1>7. Counts'
  BY <1>1, <1>2, <1>6 DEF Counts
<1> QED BY <1>1, <1>3, <1>5, <1>7

(* A reaped completion moves a dispatched block to the answered ones.      *)
LEMMA FinishKeepsBlocks ==
  ASSUME EngineTypeOK, BlocksInv, Reap
  PROVE  /\ BlocksInv' /\ completions' \in SUBSET Result /\ cq' \in SUBSET Result
         /\ loadInFlight' \in Nat /\ storeInFlight' \in Nat /\ accepted' \in Nat
         /\ freeContexts' \in Nat /\ accepted > 0
         /\ Cardinality(cq') = Cardinality(cq) - 1
<1> USE DEF BlocksInv
<1>1. PICK c \in cq : Finish(c) /\ cq' = cq \ {c}
  BY DEF Reap, Seen
<1>2. UNCHANGED <<loadPending, storePending, sq, kernel, given, delivered>>
  BY DEF Reap, queues, history
<1>3. /\ c \in Result /\ c.task \in Tasks /\ c.task \in InCq
      /\ OneEach(cq) /\ OneEach(completions)
      /\ cq \in SUBSET Result /\ completions \in SUBSET Result
  BY DEF EngineTypeOK, Apart, Result, InCq
<1>4. c.task \in Dispatched /\ c.task \notin Answered /\ c.task \notin ToSet(sq) \cup kernel
  BY <1>3, Places DEF Apart
<1>5. /\ cq' \in SUBSET Result /\ OneEach(cq') /\ InCq' = InCq \ {c.task}
      /\ Cardinality(cq') = Cardinality(cq) - 1
  BY <1>1, <1>3, OneLessResult DEF InCq
<1>6. completions' = completions \cup {c}
  BY <1>1 DEF Finish
<1>7. /\ completions' \in SUBSET Result /\ OneEach(completions')
      /\ Answered' = Answered \cup {c.task}
      /\ Cardinality(completions') = Cardinality(completions) + 1
  BY <1>3, <1>4, <1>6, OneMoreResult DEF Answered
<1>8. Dispatched' = Dispatched \ {c.task}
  <2>1. Dispatched' = ToSet(sq)' \cup kernel' \cup InCq'
    BY DEF Dispatched, InCq
  <2> QED BY <1>2, <1>4, <1>5, <2>1, Places
<1>9. UNCHANGED <<Pending, Received>>
  BY <1>2 DEF Pending, Received
<1>10. Apart'
  BY <1>2, <1>3, <1>4, <1>5, <1>7, <1>8, <1>9 DEF Apart
<1>11. accepted' = accepted - 1 /\ freeContexts' = freeContexts + 1
  BY <1>1 DEF Finish
<1>12. /\ Cardinality(Dispatched \cap Loads) = loadInFlight
       /\ Cardinality(Dispatched \cap Stores) = storeInFlight
       /\ IsFiniteSet(Dispatched \cap Loads) /\ IsFiniteSet(Dispatched \cap Stores)
  BY Places, TasksFinite DEF Tasks, Counts
<1>13. PICK dl \in {0, 1}, ds \in {0, 1} :
         /\ dl + ds = 1 /\ loadInFlight' = loadInFlight - dl /\ storeInFlight' = storeInFlight - ds
         /\ Cardinality(Dispatched' \cap Loads) = loadInFlight - dl
         /\ Cardinality(Dispatched' \cap Stores) = storeInFlight - ds
  <2>1. CASE c.task \in Loads
    <3>1. c.task \in Dispatched \cap Loads /\ c.task \notin Stores
      BY <1>4, <2>1, TasksAssumption
    <3>2. /\ Dispatched' \cap Loads = (Dispatched \cap Loads) \ {c.task}
          /\ Dispatched' \cap Stores = Dispatched \cap Stores
      BY <1>8, <3>1
    <3>3. Cardinality(Dispatched' \cap Loads) = Cardinality(Dispatched \cap Loads) - 1
      BY <1>12, <3>1, <3>2, FS_RemoveElement
    <3>4. loadInFlight' = loadInFlight - 1 /\ storeInFlight' = storeInFlight
      BY <1>1, <2>1 DEF Finish
    <3>5. storeInFlight \in Nat /\ storeInFlight - 0 = storeInFlight
      BY DEF EngineTypeOK
    <3> WITNESS 1 \in {0, 1}, 0 \in {0, 1}
    <3> QED BY <1>12, <3>2, <3>3, <3>4, <3>5
  <2>2. CASE c.task \notin Loads
    <3>1. c.task \in Dispatched \cap Stores
      BY <1>3, <1>4, <2>2 DEF Tasks
    <3>2. /\ Dispatched' \cap Stores = (Dispatched \cap Stores) \ {c.task}
          /\ Dispatched' \cap Loads = Dispatched \cap Loads
      BY <1>8, <2>2, <3>1
    <3>3. Cardinality(Dispatched' \cap Stores) = Cardinality(Dispatched \cap Stores) - 1
      BY <1>12, <3>1, <3>2, FS_RemoveElement
    <3>4. storeInFlight' = storeInFlight - 1 /\ loadInFlight' = loadInFlight
      BY <1>1, <2>2 DEF Finish
    <3>5. loadInFlight \in Nat /\ loadInFlight - 0 = loadInFlight
      BY DEF EngineTypeOK
    <3> WITNESS 0 \in {0, 1}, 1 \in {0, 1}
    <3> QED BY <1>12, <3>2, <3>3, <3>4, <3>5
  <2> QED BY <2>1, <2>2
<1>14. /\ Cardinality(Dispatched) \in Nat
       /\ Cardinality(Dispatched') = Cardinality(Dispatched) - 1
  BY <1>4, <1>8, Places, TasksFinite, FS_RemoveElement
<1>15. loadInFlight' \in Nat /\ storeInFlight' \in Nat
  <2>1. /\ Cardinality(Dispatched' \cap Loads) \in Nat
        /\ Cardinality(Dispatched' \cap Stores) \in Nat
    BY <1>8, Places, TasksFinite DEF Tasks
  <2> QED BY <1>13, <2>1
<1>16. /\ accepted = Len(loadPending) + Len(storePending) + loadInFlight + storeInFlight
       /\ Len(loadPending) \in Nat /\ Len(storePending) \in Nat
       /\ loadInFlight \in Nat /\ storeInFlight \in Nat
       /\ loadPending' = loadPending /\ storePending' = storePending
  BY <1>2, Sizes DEF Counts
<1>17. loadInFlight + storeInFlight > 0
  <2>1. loadInFlight - dl \in Nat /\ storeInFlight - ds \in Nat
    BY <1>13, <1>15
  <2> QED BY <1>13, <1>16, <2>1
<1>18. accepted > 0 /\ accepted' \in Nat
  BY <1>11, <1>16, <1>17
<1>19. accepted' = Len(loadPending') + Len(storePending') + loadInFlight' + storeInFlight'
  BY <1>11, <1>13, <1>16
<1>20. Cardinality(given') = accepted' + Cardinality(completions') + Cardinality(delivered')
  <2>1. /\ Cardinality(given) = accepted + Cardinality(completions) + Cardinality(delivered)
        /\ accepted \in Nat /\ Cardinality(completions) \in Nat /\ Cardinality(delivered) \in Nat
    BY Sizes DEF Counts
  <2>2. /\ accepted' = accepted - 1 /\ Cardinality(completions') = Cardinality(completions) + 1
        /\ given' = given /\ delivered' = delivered
    BY <1>2, <1>7, <1>11
  <2> QED BY <2>1, <2>2
<1>21. loadInFlight' + storeInFlight' = Len(sq') + Cardinality(kernel') + Cardinality(cq')
  <2>1. /\ loadInFlight + storeInFlight = Len(sq) + Cardinality(kernel) + Cardinality(cq)
        /\ Len(sq) \in Nat /\ Cardinality(kernel) \in Nat /\ Cardinality(cq) \in Nat
    BY Sizes DEF Counts
  <2>2. Cardinality(cq') = Cardinality(cq) - 1 /\ sq' = sq /\ kernel' = kernel
    BY <1>2, <1>5
  <2> QED BY <1>13, <1>16, <2>1, <2>2
<1>22. freeContexts' = TotalQD - Cardinality(Dispatched') /\ freeContexts' \in Nat
  <2>1. /\ freeContexts = TotalQD - Cardinality(Dispatched) /\ TotalQD \in Nat
        /\ freeContexts \in Nat
    BY OptionsAssumption DEF Counts, EngineTypeOK
  <2> QED BY <1>11, <1>14, <2>1
<1>23. storeInFlight' <= StoreQD
  <2>1. storeInFlight <= StoreQD /\ StoreQD \in Int
    BY OptionsAssumption DEF Counts, EngineTypeOK, StoreQD, LoadReserve
  <2> QED BY <1>13, <1>16, <2>1
<1>24. Counts'
  BY <1>13, <1>19, <1>20, <1>21, <1>22, <1>23 DEF Counts, StoreQD, LoadReserve
<1> QED BY <1>5, <1>7, <1>10, <1>15, <1>18, <1>22, <1>24

(* A dispatch moves the first pending load, or store, to the ring.         *)
LEMMA DispatchKeepsBlocks ==
  ASSUME EngineTypeOK, BlocksInv, Dispatch
  PROVE  /\ BlocksInv'
         /\ loadPending' \in Seq(Loads) /\ storePending' \in Seq(Stores) /\ sq' \in Seq(Tasks)
         /\ loadInFlight' \in Nat /\ storeInFlight' \in Nat /\ freeContexts' \in Nat
         /\ Len(sq') = Len(sq) + 1
<1> USE DEF BlocksInv
<1>1. UNCHANGED <<kernel, cq, accepted, completions, given, delivered>>
  BY DEF Dispatch, history
<1>2. /\ Len(loadPending) \in Nat /\ Len(storePending) \in Nat /\ Len(sq) \in Nat
      /\ loadInFlight \in Nat /\ storeInFlight \in Nat /\ freeContexts \in Nat
  BY Sizes DEF EngineTypeOK
<1>3. /\ ToSet(loadPending) \subseteq Loads /\ ToSet(storePending) \subseteq Stores
      /\ ToSet(loadPending) \cap ToSet(storePending) = {}
  BY LenProperties, TasksAssumption DEF EngineTypeOK, ToSet
<1>4. PICK t \in Tasks, dl \in {0, 1}, ds \in {0, 1} :
         /\ t \in Pending /\ Pending' = Pending \ {t} /\ sq' = Append(sq, t)
         /\ loadPending' \in Seq(Loads) /\ storePending' \in Seq(Stores)
         /\ IsInjective(loadPending') /\ IsInjective(storePending')
         /\ Len(loadPending') = Len(loadPending) - dl
         /\ Len(storePending') = Len(storePending) - ds
         /\ loadInFlight' = loadInFlight + dl /\ storeInFlight' = storeInFlight + ds
         /\ \/ dl = 1 /\ ds = 0 /\ t \in Loads
            \/ dl = 0 /\ ds = 1 /\ t \in Stores /\ storeInFlight < StoreQD
  <2>1. CASE loadPending # <<>>
    <3> DEFINE first == Head(loadPending)
               rest  == Tail(loadPending)
    <3>1. /\ sq' = Append(sq, first) /\ loadPending' = rest
          /\ loadInFlight' = loadInFlight + 1
          /\ storePending' = storePending /\ storeInFlight' = storeInFlight
      BY <2>1 DEF Dispatch, DispatchOne
    <3>2. /\ first \in ToSet(loadPending) /\ rest \in Seq(Loads)
          /\ Len(rest) = Len(loadPending) - 1
          /\ ToSet(loadPending) = ToSet(rest) \cup {first}
          /\ first \in Loads /\ first \in Tasks
          /\ IsInjective(rest) /\ first \notin ToSet(rest)
      BY <2>1, TailFacts DEF EngineTypeOK, Apart, Tasks
    <3> HIDE DEF first, rest
    <3>3. first \in Pending /\ Pending' = Pending \ {first}
      BY <1>3, <3>1, <3>2 DEF Pending
    <3>4. Len(storePending) - 0 = Len(storePending) /\ storeInFlight + 0 = storeInFlight
      BY <1>2
    <3>5. storePending \in Seq(Stores) /\ IsInjective(storePending)
      BY DEF EngineTypeOK, Apart
    <3> USE <3>2
    <3> WITNESS first \in Tasks, 1 \in {0, 1}, 0 \in {0, 1}
    <3> QED BY <3>1, <3>3, <3>4, <3>5
  <2>2. CASE loadPending = <<>>
    <3> DEFINE first == Head(storePending)
               rest  == Tail(storePending)
    <3>0. storePending # <<>> /\ storeInFlight < StoreQD
      BY <2>2 DEF Dispatch, CanDispatch
    <3>1. /\ sq' = Append(sq, first) /\ storePending' = rest
          /\ storeInFlight' = storeInFlight + 1
          /\ loadPending' = loadPending /\ loadInFlight' = loadInFlight
      BY <2>2 DEF Dispatch, DispatchOne
    <3>2. /\ first \in ToSet(storePending) /\ rest \in Seq(Stores)
          /\ Len(rest) = Len(storePending) - 1
          /\ ToSet(storePending) = ToSet(rest) \cup {first}
          /\ first \in Stores /\ first \in Tasks
          /\ IsInjective(rest) /\ first \notin ToSet(rest)
      BY <3>0, TailFacts DEF EngineTypeOK, Apart, Tasks
    <3> HIDE DEF first, rest
    <3>3. first \in Pending /\ Pending' = Pending \ {first}
      BY <1>3, <3>1, <3>2 DEF Pending
    <3>4. Len(loadPending) - 0 = Len(loadPending) /\ loadInFlight + 0 = loadInFlight
      BY <1>2
    <3>5. loadPending \in Seq(Loads) /\ IsInjective(loadPending)
      BY DEF EngineTypeOK, Apart
    <3> USE <3>2
    <3> WITNESS first \in Tasks, 0 \in {0, 1}, 1 \in {0, 1}
    <3> QED BY <3>0, <3>1, <3>3, <3>4, <3>5
  <2> QED BY <2>1, <2>2
<1>5. t \notin Dispatched /\ t \notin Answered \cup Received
  BY <1>4 DEF Apart
<1>6. t \notin ToSet(sq) /\ t \notin kernel /\ t \notin InCq
  BY <1>5, Places
<1>7. /\ sq' \in Seq(Tasks) /\ Len(sq') = Len(sq) + 1 /\ ToSet(sq') = ToSet(sq) \cup {t}
      /\ IsInjective(sq')
  BY <1>4, <1>6, AppendFacts DEF EngineTypeOK, Apart
<1>8. UNCHANGED <<InCq, Answered, Received>>
  BY <1>1 DEF InCq, Answered, Received
<1>9. Dispatched' = Dispatched \cup {t}
  <2>1. Dispatched' = ToSet(sq') \cup kernel' \cup InCq'
    BY DEF Dispatched, InCq
  <2> QED BY <1>1, <1>7, <1>8, <2>1, Places
<1>10. Apart'
  BY <1>1, <1>4, <1>5, <1>6, <1>7, <1>8, <1>9 DEF Apart
<1>11. /\ Cardinality(Dispatched \cap Loads) = loadInFlight
       /\ Cardinality(Dispatched \cap Stores) = storeInFlight
       /\ IsFiniteSet(Dispatched \cap Loads) /\ IsFiniteSet(Dispatched \cap Stores)
  BY Places, TasksFinite DEF Tasks, Counts
<1>12. /\ Cardinality(Dispatched' \cap Loads) = loadInFlight + dl
       /\ Cardinality(Dispatched' \cap Stores) = storeInFlight + ds
  <2>1. CASE dl = 1 /\ ds = 0 /\ t \in Loads
    <3>1. /\ Dispatched' \cap Loads = (Dispatched \cap Loads) \cup {t}
          /\ Dispatched' \cap Stores = Dispatched \cap Stores
          /\ t \notin Dispatched \cap Loads
      BY <1>5, <1>9, <2>1, TasksAssumption
    <3>2. Cardinality(Dispatched' \cap Loads) = Cardinality(Dispatched \cap Loads) + 1
      BY <1>11, <3>1, FS_AddElement
    <3>3. loadInFlight + dl = loadInFlight + 1 /\ storeInFlight + ds = storeInFlight
      BY <1>2, <2>1
    <3> QED BY <1>11, <3>1, <3>2, <3>3
  <2>2. CASE dl = 0 /\ ds = 1 /\ t \in Stores
    <3>1. /\ Dispatched' \cap Stores = (Dispatched \cap Stores) \cup {t}
          /\ Dispatched' \cap Loads = Dispatched \cap Loads
          /\ t \notin Dispatched \cap Stores
      BY <1>5, <1>9, <2>2, TasksAssumption
    <3>2. Cardinality(Dispatched' \cap Stores) = Cardinality(Dispatched \cap Stores) + 1
      BY <1>11, <3>1, FS_AddElement
    <3>3. storeInFlight + ds = storeInFlight + 1 /\ loadInFlight + dl = loadInFlight
      BY <1>2, <2>2
    <3> QED BY <1>11, <3>1, <3>2, <3>3
  <2> QED BY <1>4, <2>1, <2>2
<1>13. dl + ds = 1
  BY <1>4
<1>14. /\ Cardinality(Dispatched) \in Nat
       /\ Cardinality(Dispatched') = Cardinality(Dispatched) + 1
  BY <1>5, <1>9, Places, TasksFinite, FS_AddElement
<1>15. accepted' = Len(loadPending') + Len(storePending') + loadInFlight' + storeInFlight'
  <2>1. accepted = Len(loadPending) + Len(storePending) + loadInFlight + storeInFlight
    BY DEF Counts
  <2>2. /\ accepted' = accepted
        /\ Len(loadPending') = Len(loadPending) - dl /\ Len(storePending') = Len(storePending) - ds
        /\ loadInFlight' = loadInFlight + dl /\ storeInFlight' = storeInFlight + ds
    BY <1>1, <1>4
  <2> QED BY <1>2, <2>1, <2>2
<1>16. loadInFlight' + storeInFlight' = Len(sq') + Cardinality(kernel') + Cardinality(cq')
  <2>1. /\ loadInFlight + storeInFlight = Len(sq) + Cardinality(kernel) + Cardinality(cq)
        /\ Cardinality(kernel) \in Nat /\ Cardinality(cq) \in Nat
    BY Sizes DEF Counts
  <2>2. /\ loadInFlight' = loadInFlight + dl /\ storeInFlight' = storeInFlight + ds
        /\ Len(sq') = Len(sq) + 1 /\ kernel' = kernel /\ cq' = cq
    BY <1>1, <1>4, <1>7
  <2> QED BY <1>2, <1>13, <2>1, <2>2
<1>17. freeContexts' = TotalQD - Cardinality(Dispatched') /\ freeContexts' \in Nat
  <2>1. /\ freeContexts = TotalQD - Cardinality(Dispatched) /\ TotalQD \in Nat
        /\ freeContexts' = freeContexts - 1 /\ freeContexts > 0
    BY OptionsAssumption DEF Counts, Dispatch, CanDispatch
  <2> QED BY <1>2, <1>14, <2>1
<1>18. storeInFlight' <= StoreQD
  <2>1. storeInFlight <= StoreQD /\ StoreQD \in Int
    BY OptionsAssumption DEF Counts, StoreQD, LoadReserve
  <2>2. CASE ds = 0
    BY <1>2, <1>4, <2>1, <2>2
  <2>3. CASE ds = 1
    <3>1. storeInFlight < StoreQD /\ storeInFlight' = storeInFlight + 1
      BY <1>4, <2>3
    <3> QED BY <1>2, <2>1, <3>1
  <2> QED BY <2>2, <2>3
<1>19. Cardinality(given') = accepted' + Cardinality(completions') + Cardinality(delivered')
  BY <1>1 DEF Counts
<1>20. Counts'
  BY <1>4, <1>12, <1>15, <1>16, <1>17, <1>18, <1>19 DEF Counts, StoreQD, LoadReserve
<1>21. loadInFlight' \in Nat /\ storeInFlight' \in Nat
  BY <1>2, <1>4
<1> QED BY <1>4, <1>7, <1>10, <1>17, <1>20, <1>21

(* io_uring_submit moves the first requests of the ring to the kernel.     *)
LEMMA SubmitPreparedKeepsBlocks ==
  ASSUME EngineTypeOK, BlocksInv, SubmitPrepared, prepared = Len(sq)
  PROVE  /\ BlocksInv' /\ sq' \in Seq(Tasks) /\ kernel' \subseteq Tasks
         /\ \E n \in 1 .. prepared :
              /\ prepared' = prepared - n /\ batched' = batched + n /\ Len(sq') = Len(sq) - n
              /\ Cardinality(kernel') = Cardinality(kernel) + n
<1> USE DEF BlocksInv
<1>1. PICK n \in 1 .. prepared :
        /\ kernel' = kernel \cup ToSet(SubSeq(sq, 1, n))
        /\ sq' = SubSeq(sq, prepared - Left(n) + 1, Len(sq))
        /\ prepared' = Left(n) /\ batched' = batched + n
  BY DEF SubmitPrepared
<1> DEFINE front == SubSeq(sq, 1, n)
           rest  == SubSeq(sq, n + 1, Len(sq))
<1>2. UNCHANGED <<loadPending, storePending, loadInFlight, storeInFlight, freeContexts,
                  accepted, completions, cq, given, delivered>>
  BY DEF SubmitPrepared, blocks, queues, inFlight, history
<1>3. prepared \in Nat /\ n \in Nat /\ n \in 0 .. Len(sq) /\ prepared - (prepared - n) = n
  BY DEF EngineTypeOK
<1>4. sq' = rest /\ prepared' = prepared - n
  BY <1>1, <1>3 DEF Left
<1>5. /\ front \in Seq(Tasks) /\ Len(front) = n
      /\ rest \in Seq(Tasks) /\ Len(rest) = Len(sq) - n
      /\ ToSet(sq) = ToSet(front) \cup ToSet(rest)
      /\ IsInjective(front) /\ IsInjective(rest) /\ ToSet(front) \cap ToSet(rest) = {}
  <2>1. sq \in Seq(Tasks) /\ IsInjective(sq)
    BY DEF EngineTypeOK, Apart
  <2> QED BY <1>3, <2>1, SplitFacts
<1>6. kernel' = kernel \cup ToSet(front)
  BY <1>1
<1> HIDE DEF front, rest
<1>7. IsFiniteSet(ToSet(front)) /\ Cardinality(ToSet(front)) = n
  BY <1>5, DistinctCount
<1>8. ToSet(sq) \cap kernel = {} /\ InCq \cap (ToSet(sq) \cup kernel) = {}
  BY DEF Apart
<1>9. IsFiniteSet(kernel) /\ Cardinality(kernel) \in Nat /\ kernel \subseteq Tasks
  BY TasksFinite DEF EngineTypeOK
<1>10. Cardinality(kernel') = Cardinality(kernel) + n
  <2>1. kernel \cap ToSet(front) = {}
    BY <1>5, <1>8
  <2>2. Cardinality(kernel \cup ToSet(front)) = Cardinality(kernel) + Cardinality(ToSet(front))
    BY <1>7, <1>9, <2>1, DisjointUnion
  <2> QED BY <1>6, <1>7, <2>2
<1>11. UNCHANGED <<Pending, InCq, Answered, Received>>
  BY <1>2 DEF Pending, InCq, Answered, Received
<1>12. UNCHANGED Dispatched
  <2>1. Dispatched' = ToSet(sq') \cup kernel' \cup InCq'
    BY DEF Dispatched, InCq
  <2>2. Dispatched = ToSet(sq) \cup kernel \cup InCq
    BY DEF Dispatched, InCq
  <2> QED BY <1>4, <1>5, <1>6, <1>11, <2>1, <2>2
<1>13. /\ ToSet(sq') \cap kernel' = {} /\ InCq' \cap (ToSet(sq') \cup kernel') = {}
       /\ IsInjective(sq')
  BY <1>4, <1>5, <1>6, <1>8, <1>11
<1>14. Apart'
  BY <1>2, <1>11, <1>12, <1>13 DEF Apart
<1>15. loadInFlight' + storeInFlight' = Len(sq') + Cardinality(kernel') + Cardinality(cq')
  <2>1. /\ loadInFlight + storeInFlight = Len(sq) + Cardinality(kernel) + Cardinality(cq)
        /\ Cardinality(cq) \in Nat /\ Len(sq) \in Nat
        /\ loadInFlight \in Nat /\ storeInFlight \in Nat
    BY Sizes DEF Counts
  <2>2. /\ loadInFlight' = loadInFlight /\ storeInFlight' = storeInFlight /\ cq' = cq
        /\ Len(sq') = Len(sq) - n /\ Cardinality(kernel') = Cardinality(kernel) + n
    BY <1>2, <1>4, <1>5, <1>10
  <2>3. n \in Nat /\ Cardinality(kernel) \in Nat
    BY <1>3, <1>9
  <2> QED BY <2>1, <2>2, <2>3
<1>16. Counts'
  BY <1>2, <1>12, <1>15 DEF Counts, StoreQD, LoadReserve
<1>17. ToSet(front) \subseteq Tasks
  BY <1>5, Places
<1> QED BY <1>1, <1>4, <1>5, <1>6, <1>9, <1>10, <1>14, <1>16, <1>17

(* The kernel moves a request to its completions.                          *)
LEMMA KernelKeepsBlocks ==
  ASSUME EngineTypeOK, BlocksInv, NEW t \in Tasks, KernelCompletes(t)
  PROVE  /\ BlocksInv' /\ kernel' \subseteq Tasks /\ cq' \in SUBSET Result
         /\ Cardinality(kernel') = Cardinality(kernel) - 1
         /\ Cardinality(cq') = Cardinality(cq) + 1
<1> USE DEF BlocksInv
<1>1. PICK ok \in BOOLEAN : cq' = cq \cup {[task |-> t, ok |-> ok]}
  BY DEF KernelCompletes
<1> DEFINE c == [task |-> t, ok |-> ok]
<1>2. t \in kernel /\ kernel' = kernel \ {t}
  BY DEF KernelCompletes
<1>3. UNCHANGED <<loadPending, storePending, loadInFlight, storeInFlight, freeContexts,
                  accepted, completions, sq, given, delivered>>
  BY DEF KernelCompletes, blocks, queues, inFlight, history
<1>4. /\ c \in Result /\ c.task = t /\ t \notin InCq /\ t \notin ToSet(sq)
      /\ cq \in SUBSET Result /\ OneEach(cq) /\ kernel \subseteq Tasks
  BY <1>2 DEF Result, Apart, EngineTypeOK
<1>5. /\ cq' \in SUBSET Result /\ OneEach(cq') /\ Cardinality(cq') = Cardinality(cq) + 1
      /\ InCq' = InCq \cup {t}
  BY <1>1, <1>4, OneMoreResult DEF InCq
<1>6. Cardinality(kernel') = Cardinality(kernel) - 1 /\ Cardinality(kernel) \in Nat
  BY <1>2, <1>4, TasksFinite, FS_RemoveElement
<1>7. UNCHANGED <<Pending, Answered, Received>>
  BY <1>3 DEF Pending, Answered, Received
<1>8. UNCHANGED Dispatched
  <2>1. Dispatched' = ToSet(sq') \cup kernel' \cup InCq'
    BY DEF Dispatched, InCq
  <2>2. Dispatched = ToSet(sq) \cup kernel \cup InCq
    BY DEF Dispatched, InCq
  <2> QED BY <1>2, <1>3, <1>5, <2>1, <2>2
<1>9. Apart'
  BY <1>2, <1>3, <1>4, <1>5, <1>7, <1>8 DEF Apart
<1>10. loadInFlight' + storeInFlight' = Len(sq') + Cardinality(kernel') + Cardinality(cq')
  <2>1. /\ loadInFlight + storeInFlight = Len(sq) + Cardinality(kernel) + Cardinality(cq)
        /\ Cardinality(cq) \in Nat /\ Len(sq) \in Nat
        /\ loadInFlight \in Nat /\ storeInFlight \in Nat
    BY Sizes DEF Counts
  <2>2. /\ loadInFlight' = loadInFlight /\ storeInFlight' = storeInFlight /\ sq' = sq
        /\ Cardinality(cq') = Cardinality(cq) + 1 /\ Cardinality(kernel') = Cardinality(kernel) - 1
    BY <1>3, <1>5, <1>6
  <2> QED BY <1>6, <2>1, <2>2
<1>11. Counts'
  BY <1>3, <1>8, <1>10 DEF Counts, StoreQD, LoadReserve
<1> QED BY <1>2, <1>4, <1>5, <1>6, <1>9, <1>11

(* Nothing else moves a block.                                             *)
LEMMA QuietKeepsBlocks ==
  ASSUME BlocksInv, UNCHANGED <<blocks, ring, history>>
  PROVE  BlocksInv'
<1>1. UNCHANGED <<loadPending, storePending, loadInFlight, storeInFlight, freeContexts,
                  accepted, completions, sq, kernel, cq, given, delivered>>
  BY DEF blocks, queues, inFlight, ring, history
<1>2. UNCHANGED <<Pending, Dispatched, InCq, Answered, Received>>
  BY <1>1 DEF Pending, Dispatched, InCq, Answered, Received
<1> QED BY <1>1, <1>2 DEF BlocksInv, Apart, Counts, StoreQD, LoadReserve

--------------------------------------------------------------------------------
(* Every step keeps every part of the invariant                            *)

(* So every step keeps BlocksInv.                                          *)
LEMMA StepKeepsBlocks ==
  ASSUME EngineInv, Next
  PROVE  BlocksInv'
<1> USE DEF EngineInv
<1>1. CASE \E t \in Tasks : Submit(t)
  BY <1>1, SubmitKeepsBlocks
<1>2. CASE PollCompletions
  <2>1. TakeCompletions /\ UNCHANGED <<queues, inFlight, accepted, ring, given>>
    BY <1>2 DEF PollCompletions
  <2> QED BY <2>1, TakeKeepsBlocks
<1>3. CASE DrainTest
  <2>1. UNCHANGED <<queues, inFlight, accepted, ring, given>>
    BY <1>3 DEF DrainTest
  <2>2. CASE DrainDone
    BY <1>3, <2>1, <2>2, TakeKeepsBlocks DEF DrainTest
  <2>3. CASE ~DrainDone
    <3>1. UNCHANGED <<completions, delivered>>
      BY <1>3, <2>3 DEF DrainTest
    <3> QED BY <2>1, <3>1, QuietKeepsBlocks DEF blocks, history
  <2> QED BY <2>2, <2>3
<1>4. CASE Reap
  BY <1>4, FinishKeepsBlocks
<1>5. CASE Dispatch
  BY <1>5, DispatchKeepsBlocks
<1>6. CASE SubmitPrepared
  BY <1>6, SubmitPreparedKeepsBlocks DEF OwnerInv
<1>7. CASE \E t \in Tasks : KernelCompletes(t)
  BY <1>7, KernelKeepsBlocks
<1>8. CASE \/ DrainBegin \/ ResetStats \/ ShutdownBegin \/ WakeCheck \/ WakeWrite \/ Join
           \/ ReapDone \/ BatchReady \/ CountBatches \/ StopCheck \/ PollReturns
           \/ DrainWakeFd \/ CloseWakeFd \/ UnsetWakeFd
  <2>1. UNCHANGED <<blocks, ring, history>>
    BY <1>8 DEF DrainBegin, ResetStats, ShutdownBegin, WakeCheck, WakeWrite, Join, ReapDone,
                BatchReady, CountBatches, StopCheck, PollReturns, DrainWakeFd, CloseWakeFd,
                UnsetWakeFd
  <2> QED BY <2>1, QuietKeepsBlocks
<1> QED BY <1>1, <1>2, <1>3, <1>4, <1>5, <1>6, <1>7, <1>8 DEF Next, CallNext, OwnerNext

(* The types.                                                              *)
LEMMA StepKeepsTypes ==
  ASSUME EngineInv, Next
  PROVE  EngineTypeOK'
<1> USE DEF EngineInv
<1>0. EngineTypeOK
  OBVIOUS
<1>1. ASSUME NEW t \in Tasks, Submit(t) PROVE EngineTypeOK'
  <2>1. /\ loadPending' \in Seq(Loads) /\ storePending' \in Seq(Stores)
        /\ completions' \in SUBSET Result /\ accepted' \in Nat /\ given' \in SUBSET Tasks
    BY <1>1, SubmitKeepsBlocks
  <2>2. callerPc' \in {"wake", "idle"}
    BY <1>1 DEF Submit, AfterSubmit
  <2>3. UNCHANGED <<inFlight, stopping, ring, wake, owner, stats, delivered>>
    BY <1>1 DEF Submit
  <2> QED BY <1>0, <2>1, <2>2, <2>3 DEF EngineTypeOK, inFlight, ring, wake, owner
<1>2. CASE PollCompletions
  <2>1. TakeCompletions /\ UNCHANGED <<queues, inFlight, accepted, ring, given>>
    BY <1>2 DEF PollCompletions
  <2>2. completions' = {} /\ delivered' \in SUBSET Result
    BY <2>1, TakeKeepsBlocks
  <2>3. UNCHANGED <<queues, inFlight, accepted, stopping, ring, wake, owner, stats, callerPc,
                    given>>
    BY <1>2 DEF PollCompletions
  <2> QED BY <1>0, <2>2, <2>3 DEF EngineTypeOK, queues, inFlight, ring, wake, owner
<1>3. CASE DrainTest
  <2>1. UNCHANGED <<queues, inFlight, accepted, stopping, ring, wake, owner, stats, given>>
    BY <1>3 DEF DrainTest
  <2>2. completions' \in SUBSET Result /\ delivered' \in SUBSET Result
    <3>1. CASE DrainDone
      <4>1. TakeCompletions /\ UNCHANGED <<queues, inFlight, accepted, ring, given>>
        BY <1>3, <2>1, <3>1 DEF DrainTest
      <4> QED BY <4>1, TakeKeepsBlocks
    <3>2. CASE ~DrainDone
      BY <1>0, <1>3, <3>2 DEF DrainTest, EngineTypeOK
    <3> QED BY <3>1, <3>2
  <2>3. callerPc' \in {"idle", "waiting"}
    BY <1>3 DEF DrainTest
  <2> QED BY <1>0, <2>1, <2>2, <2>3 DEF EngineTypeOK, queues, inFlight, ring, wake, owner
<1>4. CASE Reap
  <2>1. /\ completions' \in SUBSET Result /\ cq' \in SUBSET Result
        /\ loadInFlight' \in Nat /\ storeInFlight' \in Nat /\ accepted' \in Nat
        /\ freeContexts' \in Nat
    BY <1>4, FinishKeepsBlocks
  <2>2. UNCHANGED <<queues, stopping, sq, kernel, wake, owner, history>>
    BY <1>4 DEF Reap
  <2>3. PICK c \in cq : Finish(c)
    BY <1>4 DEF Reap
  <2>4. callerPc' \in {"drain", callerPc}
    BY <2>3 DEF Finish, Notified
  <2>5. stats' \in [submitted : Nat, load : Nat, store : Nat]
    <3>1. stats \in [submitted : Nat, load : Nat, store : Nat]
      BY <1>0 DEF EngineTypeOK
    <3>2. \/ stats' = [stats EXCEPT !.load = @ + 1] \/ stats' = [stats EXCEPT !.store = @ + 1]
      BY <2>3 DEF Finish
    <3> QED BY <3>1, <3>2
  <2> QED BY <1>0, <2>1, <2>2, <2>4, <2>5 DEF EngineTypeOK, queues, wake, owner, history
<1>5. CASE Dispatch
  <2>1. /\ loadPending' \in Seq(Loads) /\ storePending' \in Seq(Stores) /\ sq' \in Seq(Tasks)
        /\ loadInFlight' \in Nat /\ storeInFlight' \in Nat /\ freeContexts' \in Nat
    BY <1>5, DispatchKeepsBlocks
  <2>2. /\ prepared' = prepared + 1
        /\ UNCHANGED <<accepted, completions, stopping, kernel, cq, wake, ownerPc,
                       batched, stats, callerPc, history>>
    BY <1>5 DEF Dispatch
  <2> QED BY <1>0, <2>1, <2>2 DEF EngineTypeOK, wake, history
<1>6. CASE SubmitPrepared
  <2>1. sq' \in Seq(Tasks) /\ kernel' \subseteq Tasks
    BY <1>6, SubmitPreparedKeepsBlocks DEF OwnerInv
  <2>2. PICK n \in 1 .. prepared : prepared' = prepared - n /\ batched' = batched + n
    BY <1>6 DEF SubmitPrepared, Left
  <2>3. prepared' \in Nat /\ batched' \in Nat
    <3>1. prepared \in Nat /\ batched \in Nat
      BY <1>0 DEF EngineTypeOK
    <3> QED BY <2>2, <3>1
  <2>4. /\ ownerPc' \in {"dispatch", "submit"}
        /\ UNCHANGED <<blocks, stopping, cq, wake, stats, callerPc, history>>
    BY <1>6 DEF SubmitPrepared
  <2> QED BY <1>0, <2>1, <2>3, <2>4 DEF EngineTypeOK, blocks, queues, inFlight, wake, history
<1>7. ASSUME NEW t \in Tasks, KernelCompletes(t) PROVE EngineTypeOK'
  <2>1. kernel' \subseteq Tasks /\ cq' \in SUBSET Result
    BY <1>7, KernelKeepsBlocks
  <2>2. UNCHANGED <<blocks, stopping, sq, wake, owner, stats, callerPc, history>>
    BY <1>7 DEF KernelCompletes
  <2> QED BY <1>0, <2>1, <2>2
          DEF EngineTypeOK, blocks, queues, inFlight, wake, owner, history
<1>8. CASE CountBatches
  <2>1. stats' \in [submitted : Nat, load : Nat, store : Nat]
    <3>1. stats \in [submitted : Nat, load : Nat, store : Nat] /\ batched \in Nat
      BY <1>0 DEF EngineTypeOK
    <3>2. stats' = [stats EXCEPT !.submitted = @ + batched]
      BY <1>8 DEF CountBatches
    <3> QED BY <3>1, <3>2
  <2>2. /\ batched' = 0 /\ ownerPc' = "check"
        /\ UNCHANGED <<blocks, stopping, ring, wake, prepared, callerPc, history>>
    BY <1>8 DEF CountBatches
  <2> QED BY <1>0, <2>1, <2>2 DEF EngineTypeOK, blocks, queues, inFlight, ring, wake, history
<1>9. CASE ResetStats
  <2>1. stats' \in [submitted : Nat, load : Nat, store : Nat]
    BY <1>9 DEF ResetStats
  <2>2. UNCHANGED <<blocks, stopping, ring, wake, owner, callerPc, history>>
    BY <1>9 DEF ResetStats
  <2> QED BY <1>0, <2>1, <2>2 DEF EngineTypeOK, blocks, queues, inFlight, ring, wake, owner, history
<1>10. CASE DrainBegin \/ ShutdownBegin \/ WakeCheck \/ WakeWrite \/ Join
  <2>1. UNCHANGED <<blocks, ring, wakeFd, owner, stats, history>>
    BY <1>10 DEF DrainBegin, ShutdownBegin, WakeCheck, WakeWrite, Join, wake
  <2>2. stopping' \in BOOLEAN /\ wakeCount' \in Nat
    <3>1. stopping \in BOOLEAN /\ wakeCount \in Nat
      BY <1>0 DEF EngineTypeOK
    <3>2. stopping' \in {stopping, TRUE}
      BY <1>10 DEF DrainBegin, ShutdownBegin, WakeCheck, WakeWrite, Join
    <3>3. wakeCount' = wakeCount \/ wakeCount' = wakeCount + 1
      BY <1>10 DEF DrainBegin, ShutdownBegin, WakeCheck, WakeWrite, Join, wake
    <3>4. wakeCount' \in Nat
      BY <3>1, <3>3
    <3> QED BY <3>1, <3>2, <3>4
  <2>3. callerPc' \in {"drain", "stopWake", "idle", "join", "write", "stopWrite", "closed"}
    BY <1>10 DEF DrainBegin, ShutdownBegin, WakeCheck, WakeWrite, Join, WakeReturnPc
  <2> QED BY <1>0, <2>1, <2>2, <2>3
          DEF EngineTypeOK, blocks, queues, inFlight, ring, owner, history
<1>11. CASE \/ ReapDone \/ BatchReady \/ StopCheck \/ PollReturns
            \/ DrainWakeFd \/ CloseWakeFd \/ UnsetWakeFd
  <2>1. UNCHANGED <<blocks, stopping, ring, prepared, batched, stats, callerPc, history>>
    BY <1>11 DEF ReapDone, BatchReady, StopCheck, PollReturns, DrainWakeFd, CloseWakeFd, UnsetWakeFd
  <2>2. wakeCount' \in Nat /\ wakeFd' \in {"open", "closed", "unset"}
    BY <1>0, <1>11 DEF EngineTypeOK, ReapDone, BatchReady, StopCheck, PollReturns, DrainWakeFd,
                       CloseWakeFd, UnsetWakeFd, wake
  <2>3. ownerPc' \in {"reap", "dispatch", "submit", "count", "check", "poll", "drainWake",
                      "destroy", "unset", "exited"}
    BY <1>11 DEF ReapDone, BatchReady, AfterBatch, StopCheck, PollReturns, DrainWakeFd,
                 CloseWakeFd, UnsetWakeFd
  <2> QED BY <1>0, <2>1, <2>2, <2>3
          DEF EngineTypeOK, blocks, queues, inFlight, ring, history
<1> QED BY <1>1, <1>2, <1>3, <1>4, <1>5, <1>6, <1>7, <1>8, <1>9, <1>10, <1>11
        DEF Next, CallNext, OwnerNext

(* What the owner prepared, batched and counted.                           *)
LEMMA StepKeepsOwner ==
  ASSUME EngineInv, Next
  PROVE  OwnerInv'
<1> USE DEF EngineInv
<1> DEFINE inKernel  == Cardinality(kernel)
           inCq      == Cardinality(cq)
           submitted == stats.submitted
           loads     == stats.load
           stores    == stats.store
<1>1. /\ prepared \in Nat /\ batched \in Nat /\ Len(sq) \in Nat
      /\ inKernel \in Nat /\ inCq \in Nat /\ SubmitBatch \in Nat
      /\ submitted \in Nat /\ loads \in Nat /\ stores \in Nat
  <2>1. stats \in [submitted : Nat, load : Nat, store : Nat] /\ prepared \in Nat /\ batched \in Nat
    BY DEF EngineTypeOK
  <2>2. SubmitBatch \in Nat
    BY OptionsAssumption
  <2>3. Len(sq) \in Nat /\ Cardinality(kernel) \in Nat /\ Cardinality(cq) \in Nat
    BY Sizes DEF BlocksInv
  <2> QED BY <2>1, <2>2, <2>3
<1>2. /\ prepared = Len(sq) /\ prepared <= SubmitBatch
      /\ ownerPc \notin {"dispatch", "submit"} => prepared = 0
      /\ ownerPc \notin {"dispatch", "submit", "count"} => batched = 0
      /\ batched <= inKernel + inCq
      /\ submitted + batched = loads + stores + inKernel + inCq
      /\ loads + stores <= submitted
  BY DEF OwnerInv, StatsReconcile
<1>3. ASSUME UNCHANGED <<ring, prepared, batched, stats>>,
             ownerPc' \notin {"dispatch", "submit"} => prepared = 0,
             ownerPc' \notin {"dispatch", "submit", "count"} => batched = 0
      PROVE  OwnerInv'
  BY <1>3 DEF OwnerInv, StatsReconcile, ring
<1> HIDE DEF inKernel, inCq, submitted, loads, stores
<1>4. CASE \/ \E t \in Tasks : Submit(t)
           \/ PollCompletions \/ DrainBegin \/ DrainTest \/ ShutdownBegin
           \/ WakeCheck \/ WakeWrite \/ Join
  <2>1. UNCHANGED <<ring, owner, stats>>
    BY <1>4 DEF Submit, PollCompletions, DrainBegin, DrainTest, ShutdownBegin, WakeCheck,
                WakeWrite, Join
  <2> QED BY <1>2, <1>3, <2>1 DEF owner
<1>5. CASE \/ ReapDone \/ BatchReady \/ StopCheck \/ PollReturns
           \/ DrainWakeFd \/ CloseWakeFd \/ UnsetWakeFd
  <2>1. UNCHANGED <<ring, prepared, batched, stats>>
    BY <1>5 DEF ReapDone, BatchReady, StopCheck, PollReturns, DrainWakeFd, CloseWakeFd, UnsetWakeFd
  <2>2. CASE BatchReady
    <3>1. ownerPc' = AfterBatch
      BY <2>2 DEF BatchReady
    <3> QED BY <1>1, <1>3, <2>1, <3>1 DEF AfterBatch
  <2>3. CASE ~BatchReady
    <3>1. ownerPc \notin {"dispatch", "submit", "count"}
      BY <1>5, <2>3 DEF ReapDone, StopCheck, PollReturns, DrainWakeFd, CloseWakeFd, UnsetWakeFd
    <3> QED BY <1>2, <1>3, <2>1, <3>1
  <2> QED BY <2>2, <2>3
<1>6. CASE ResetStats
  <2>1. /\ accepted = Len(loadPending) + Len(storePending) + loadInFlight + storeInFlight
        /\ Len(loadPending) \in Nat /\ Len(storePending) \in Nat
        /\ loadInFlight \in Nat /\ storeInFlight \in Nat
        /\ loadInFlight + storeInFlight = Len(sq) + inKernel + inCq
    BY Sizes DEF BlocksInv, Counts, inKernel, inCq
  <2>2. accepted = 0
    BY <1>6 DEF ResetStats, AtRest
  <2>3. inKernel = 0 /\ inCq = 0
    BY <1>1, <2>1, <2>2
  <2>4. batched = 0
    BY <1>1, <1>2, <2>3
  <2>5. /\ UNCHANGED <<ring, owner>>
        /\ stats'.submitted = 0 /\ stats'.load = 0 /\ stats'.store = 0
    BY <1>6 DEF ResetStats
  <2>6. /\ sq' = sq /\ kernel' = kernel /\ cq' = cq
        /\ ownerPc' = ownerPc /\ prepared' = prepared /\ batched' = batched
    BY <2>5 DEF ring, owner
  <2>7. StatsReconcile'
    BY <2>3, <2>4, <2>5, <2>6 DEF StatsReconcile, inKernel, inCq
  <2>8. batched' <= Cardinality(kernel') + Cardinality(cq')
    BY <1>2, <2>6 DEF inKernel, inCq
  <2> QED BY <1>2, <2>6, <2>7, <2>8 DEF OwnerInv
<1>7. CASE Reap
  <2>1. Cardinality(cq') = inCq - 1
    BY <1>7, FinishKeepsBlocks DEF inCq
  <2>2. ownerPc = "reap" /\ UNCHANGED <<sq, kernel, owner>>
    BY <1>7 DEF Reap
  <2>3. /\ sq' = sq /\ Cardinality(kernel') = inKernel /\ ownerPc' = ownerPc
        /\ prepared' = prepared /\ batched' = 0 /\ batched = 0
    BY <1>2, <2>2 DEF owner, inKernel
  <2>4. PICK dl \in {0, 1}, ds \in {0, 1} :
          /\ dl + ds = 1 /\ stats'.submitted = submitted
          /\ stats'.load = loads + dl /\ stats'.store = stores + ds
    <3>1. PICK c \in cq : Finish(c)
      BY <1>7 DEF Reap
    <3>2. stats \in [submitted : Nat, load : Nat, store : Nat]
      BY DEF EngineTypeOK
    <3>3. CASE c.task \in Loads
      <4>1. stats' = [stats EXCEPT !.load = @ + 1]
        BY <3>1, <3>3 DEF Finish
      <4>2. /\ stats'.submitted = submitted /\ stats'.load = loads + 1
            /\ stats'.store = stores
        BY <3>2, <4>1 DEF submitted, loads, stores
      <4>3. stats'.store = stores + 0
        BY <1>1, <4>2
      <4> WITNESS 1 \in {0, 1}, 0 \in {0, 1}
      <4> QED BY <4>2, <4>3
    <3>4. CASE c.task \notin Loads
      <4>1. stats' = [stats EXCEPT !.store = @ + 1]
        BY <3>1, <3>4 DEF Finish
      <4>2. /\ stats'.submitted = submitted /\ stats'.store = stores + 1
            /\ stats'.load = loads
        BY <3>2, <4>1 DEF submitted, loads, stores
      <4>3. stats'.load = loads + 0
        BY <1>1, <4>2
      <4> WITNESS 0 \in {0, 1}, 1 \in {0, 1}
      <4> QED BY <4>2, <4>3
    <3> QED BY <3>3, <3>4
  <2>5. inCq >= 1
    <3>1. IsFiniteSet(cq) /\ cq # {}
      BY <1>7, ResultsFinite DEF Reap, BlocksInv, Apart, EngineTypeOK
    <3>2. inCq # 0
      BY <3>1, FS_EmptySet DEF inCq
    <3> QED BY <1>1, <3>2
  <2>6. StatsReconcile'
    <3>1. submitted + 0 = loads + stores + inKernel + inCq
      BY <1>2, <2>3
    <3>2. submitted = (loads + dl) + (stores + ds) + inKernel + (inCq - 1)
      BY <1>1, <2>4, <3>1
    <3>3. (loads + dl) + (stores + ds) <= submitted
      BY <1>1, <2>5, <3>2
    <3> QED BY <1>1, <2>1, <2>3, <2>4, <3>2, <3>3 DEF StatsReconcile
  <2>7. batched' <= Cardinality(kernel') + Cardinality(cq')
    BY <1>1, <2>1, <2>3, <2>5
  <2> QED BY <1>2, <2>2, <2>3, <2>6, <2>7 DEF OwnerInv
<1>8. CASE Dispatch
  <2>1. Len(sq') = Len(sq) + 1
    BY <1>8, DispatchKeepsBlocks
  <2>2. /\ ownerPc = "dispatch" /\ prepared < SubmitBatch /\ prepared' = prepared + 1
        /\ ownerPc' = ownerPc /\ batched' = batched /\ kernel' = kernel /\ cq' = cq
        /\ stats' = stats
    BY <1>8 DEF Dispatch
  <2>3. prepared' = Len(sq') /\ prepared' <= SubmitBatch
    BY <1>1, <1>2, <2>1, <2>2
  <2>4. StatsReconcile' /\ batched' <= Cardinality(kernel') + Cardinality(cq')
    BY <2>2 DEF OwnerInv, StatsReconcile
  <2> QED BY <2>2, <2>3, <2>4 DEF OwnerInv
<1>9. CASE SubmitPrepared
  <2>1. PICK n \in 1 .. prepared :
          /\ prepared' = prepared - n /\ batched' = batched + n /\ Len(sq') = Len(sq) - n
          /\ Cardinality(kernel') = inKernel + n
    BY <1>2, <1>9, SubmitPreparedKeepsBlocks DEF inKernel
  <2>2. /\ ownerPc' = (IF prepared' = 0 THEN "dispatch" ELSE "submit")
        /\ stats'.submitted = submitted /\ stats'.load = loads /\ stats'.store = stores
        /\ Cardinality(cq') = inCq
    BY <1>9 DEF SubmitPrepared, submitted, loads, stores, inCq
  <2>3. n \in Nat /\ prepared - n <= prepared
    BY <1>1
  <2>4. prepared' = Len(sq') /\ prepared' <= SubmitBatch
    BY <1>1, <1>2, <2>1, <2>3
  <2>5. batched' <= Cardinality(kernel') + Cardinality(cq')
    BY <1>1, <1>2, <2>1, <2>2, <2>3
  <2>6. StatsReconcile'
    <3>1. submitted + (batched + n) = loads + stores + (inKernel + n) + inCq
      BY <1>1, <1>2, <2>3
    <3> QED BY <1>2, <2>1, <2>2, <3>1 DEF StatsReconcile
  <2> QED BY <2>2, <2>4, <2>5, <2>6 DEF OwnerInv
<1>10. CASE CountBatches
  <2>1. stats \in [submitted : Nat, load : Nat, store : Nat]
    BY DEF EngineTypeOK
  <2>2. /\ ownerPc = "count" /\ ownerPc' = "check" /\ batched' = 0
        /\ stats' = [stats EXCEPT !.submitted = @ + batched]
        /\ UNCHANGED <<ring, prepared>>
    BY <1>10 DEF CountBatches
  <2>3. /\ stats'.submitted = submitted + batched /\ stats'.load = loads
        /\ stats'.store = stores
    BY <2>1, <2>2 DEF submitted, loads, stores
  <2>4. sq' = sq /\ Cardinality(kernel') = inKernel /\ Cardinality(cq') = inCq
    BY <2>2 DEF ring, inKernel, inCq
  <2>5. StatsReconcile'
    <3>1. (submitted + batched) + 0 = loads + stores + inKernel + inCq
      BY <1>1, <1>2
    <3>2. loads + stores <= submitted + batched
      BY <1>1, <1>2
    <3> QED BY <2>2, <2>3, <2>4, <3>1, <3>2 DEF StatsReconcile
  <2>6. batched' <= Cardinality(kernel') + Cardinality(cq')
    BY <1>1, <2>2, <2>4
  <2> QED BY <1>2, <2>2, <2>4, <2>5, <2>6 DEF OwnerInv
<1>11. CASE \E t \in Tasks : KernelCompletes(t)
  <2>1. PICK t \in Tasks : KernelCompletes(t)
    BY <1>11
  <2>2. Cardinality(kernel') = inKernel - 1 /\ Cardinality(cq') = inCq + 1
    BY <2>1, KernelKeepsBlocks DEF inKernel, inCq
  <2>3. UNCHANGED <<sq, owner, stats>>
    BY <2>1 DEF KernelCompletes
  <2>4. /\ sq' = sq /\ ownerPc' = ownerPc /\ prepared' = prepared /\ batched' = batched
        /\ stats'.submitted = submitted /\ stats'.load = loads /\ stats'.store = stores
    BY <2>3 DEF owner, submitted, loads, stores
  <2>5. batched' <= Cardinality(kernel') + Cardinality(cq')
    BY <1>1, <1>2, <2>2, <2>4
  <2>6. StatsReconcile'
    <3>1. submitted + batched = loads + stores + (inKernel - 1) + (inCq + 1)
      BY <1>1, <1>2
    <3> QED BY <1>2, <2>2, <2>4, <3>1 DEF StatsReconcile
  <2> QED BY <1>2, <2>4, <2>5, <2>6 DEF OwnerInv
<1> QED BY <1>4, <1>5, <1>6, <1>7, <1>8, <1>9, <1>10, <1>11 DEF Next, CallNext, OwnerNext

(* The wake-ups: who adds work or stops the engine is then about to wake it.*)
LEMMA StepKeepsWake ==
  ASSUME EngineInv, Next
  PROVE  WakeInv'
<1> USE DEF EngineInv
<1>1. /\ wakeFd # "open" => ownerPc \in {"unset", "exited"}
      /\ wakeCount \in Nat /\ SubmitBatch >= 1 /\ SubmitBatch \in Nat
  BY OptionsAssumption DEF StopInv, EngineTypeOK
<1>2. ASSUME UNCHANGED <<queues, inFlight>>
      PROVE  CanDispatch' <=> CanDispatch
  BY <1>2 DEF CanDispatch, queues, inFlight, StoreQD, LoadReserve
<1>3. CASE \E t \in Tasks : Submit(t)
  <2>1. PICK t \in Tasks : Submit(t)
    BY <1>3
  <2>2. UNCHANGED <<ownerPc, wakeCount, stopping, inFlight>> /\ ~stopping /\ callerPc = "idle"
    BY <2>1 DEF Submit, owner, wake
  <2>3. QueueFull => UNCHANGED <<queues, callerPc>>
    BY <2>1 DEF Submit
  <2>4. ~QueueFull => callerPc' = "wake"
    BY <2>1 DEF Submit, AfterSubmit
  <2> QED BY <1>2, <2>2, <2>3, <2>4 DEF WakeInv
<1>4. CASE WakeWrite
  <2>1. /\ UNCHANGED <<queues, inFlight, stopping, accepted, ownerPc>>
        /\ callerPc \in {"write", "stopWrite"}
    BY <1>4 DEF WakeWrite, blocks, owner
  <2>2. CASE wakeFd = "open"
    <3>1. wakeCount' = wakeCount + 1
      BY <1>4, <2>2 DEF WakeWrite
    <3>2. wakeCount' # 0
      BY <1>1, <3>1
    <3> QED BY <3>2 DEF WakeInv
  <2>3. CASE wakeFd # "open"
    BY <1>1, <2>1, <2>3 DEF WakeInv
  <2> QED BY <2>2, <2>3
<1>5. CASE WakeCheck
  <2>1. /\ UNCHANGED <<queues, inFlight, stopping, accepted, ownerPc, wakeCount>>
        /\ callerPc \in {"wake", "stopWake"}
    BY <1>5 DEF WakeCheck, blocks, owner, wake
  <2>2. CASE wakeFd = "unset"
    BY <1>1, <2>1, <2>2 DEF WakeInv
  <2>3. CASE wakeFd # "unset"
    <3>1. callerPc' = IF callerPc = "wake" THEN "write" ELSE "stopWrite"
      BY <1>5, <2>3 DEF WakeCheck
    <3> QED BY <1>2, <2>1, <3>1 DEF WakeInv
  <2> QED BY <2>2, <2>3
<1>6. CASE PollCompletions \/ DrainBegin \/ DrainTest \/ ResetStats \/ ShutdownBegin \/ Join
  <2>1. UNCHANGED <<queues, inFlight, accepted, ownerPc, wakeCount>>
    BY <1>6 DEF PollCompletions, DrainBegin, DrainTest, ResetStats, ShutdownBegin, Join, blocks,
                owner, wake
  <2>2. /\ callerPc' \notin {"stopWake", "stopWrite"} => UNCHANGED stopping
        /\ callerPc \in {"wake", "write", "stopWake", "stopWrite"} => UNCHANGED callerPc
    BY <1>6 DEF PollCompletions, DrainBegin, DrainTest, ResetStats, ShutdownBegin, Join
  <2> QED BY <1>2, <2>1, <2>2 DEF WakeInv
<1>7. CASE \/ Reap \/ Dispatch \/ SubmitPrepared \/ ReapDone
           \/ DrainWakeFd \/ CloseWakeFd \/ UnsetWakeFd
  <2>1. ownerPc' \notin {"count", "check", "poll"}
    BY <1>7 DEF Reap, Dispatch, SubmitPrepared, ReapDone, DrainWakeFd, CloseWakeFd, UnsetWakeFd,
      owner
  <2> QED BY <2>1 DEF WakeInv
<1>8. CASE BatchReady
  <2>1. UNCHANGED <<queues, inFlight, accepted>> /\ ownerPc' = AfterBatch
        /\ ~(prepared < SubmitBatch /\ CanDispatch)
    BY <1>8 DEF BatchReady, blocks
  <2>2. CASE prepared > 0
    BY <2>1, <2>2 DEF AfterBatch, WakeInv
  <2>3. CASE ~(prepared > 0)
    <3>1. prepared < SubmitBatch
      BY <1>1, <2>3 DEF EngineTypeOK
    <3>2. ~CanDispatch /\ ownerPc' # "poll"
      BY <2>1, <3>1 DEF AfterBatch
    <3> QED BY <1>2, <2>1, <3>2 DEF WakeInv
  <2> QED BY <2>2, <2>3
<1>9. CASE CountBatches \/ StopCheck \/ PollReturns
  <2>1. /\ UNCHANGED <<queues, inFlight, accepted, stopping, wakeCount, callerPc>>
        /\ ownerPc \in {"count", "check", "poll"}
        /\ ownerPc' = "poll" => ~(stopping /\ accepted = 0)
    BY <1>9 DEF CountBatches, StopCheck, PollReturns, MustStop, blocks, wake
  <2> QED BY <1>2, <2>1 DEF WakeInv
<1>10. CASE \E t \in Tasks : KernelCompletes(t)
  <2>1. UNCHANGED <<queues, inFlight, accepted, stopping, wakeCount, callerPc, ownerPc>>
    BY <1>10 DEF KernelCompletes, blocks, wake, owner
  <2> QED BY <1>2, <2>1 DEF WakeInv
<1> QED BY <1>3, <1>4, <1>5, <1>6, <1>7, <1>8, <1>9, <1>10 DEF Next, CallNext, OwnerNext

(* The descriptor and the end of the owner.                                *)
LEMMA StepKeepsStop ==
  ASSUME EngineInv, Next
  PROVE  StopInv'
<1> USE DEF EngineInv
<1>1. CASE \E t \in Tasks : Submit(t)
  <2>1. PICK t \in Tasks : Submit(t)
    BY <1>1
  <2>2. UNCHANGED <<ownerPc, wakeFd, stopping>> /\ ~stopping /\ callerPc' \in {"idle", "wake"}
    BY <2>1 DEF Submit, owner, wake, AfterSubmit
  <2> QED BY <2>2 DEF StopInv
<1>2. CASE \/ PollCompletions \/ DrainBegin \/ DrainTest \/ ResetStats \/ ShutdownBegin
           \/ WakeCheck \/ WakeWrite \/ Join
  <2>1. UNCHANGED <<ownerPc, wakeFd, accepted>>
    BY <1>2 DEF PollCompletions, DrainBegin, DrainTest, ResetStats, ShutdownBegin, WakeCheck,
                WakeWrite, Join, blocks, owner, wake
  <2>2. /\ stopping => stopping'
        /\ callerPc' = "closed" => callerPc = "closed" \/ ownerPc = "exited"
    BY <1>2 DEF PollCompletions, DrainBegin, DrainTest, ResetStats, ShutdownBegin, WakeCheck,
                WakeWrite, WakeReturnPc, Join
  <2> QED BY <2>1, <2>2 DEF StopInv
<1>3. CASE Reap
  <2>1. ownerPc = "reap" /\ UNCHANGED <<ownerPc, wakeFd, stopping>>
    BY <1>3 DEF Reap, owner, wake
  <2>2. callerPc' \in {"drain", callerPc}
    BY <1>3 DEF Reap, Finish, Notified
  <2> QED BY <2>1, <2>2 DEF StopInv
<1>4. CASE \/ Dispatch \/ SubmitPrepared \/ CountBatches \/ ReapDone
           \/ BatchReady \/ PollReturns \/ DrainWakeFd
  <2>1. /\ UNCHANGED <<wakeFd, callerPc>>
        /\ ownerPc \notin {"destroy", "unset", "exited"}
        /\ ownerPc' \notin {"destroy", "unset", "exited"}
    BY <1>4 DEF Dispatch, SubmitPrepared, CountBatches, ReapDone, BatchReady, AfterBatch,
                PollReturns, DrainWakeFd, wake
  <2> QED BY <2>1 DEF StopInv
<1>5. CASE StopCheck
  <2>1. /\ ownerPc = "check" /\ ownerPc' = IF stopping /\ accepted = 0 THEN "destroy" ELSE "poll"
        /\ UNCHANGED <<wakeFd, callerPc, stopping, accepted>>
    BY <1>5 DEF StopCheck, MustStop, blocks, wake
  <2> QED BY <2>1 DEF StopInv
<1>6. CASE CloseWakeFd
  <2>1. /\ ownerPc = "destroy" /\ ownerPc' = "unset" /\ wakeFd' = "closed"
        /\ UNCHANGED <<callerPc, stopping, accepted>>
    BY <1>6 DEF CloseWakeFd, blocks
  <2> QED BY <2>1 DEF StopInv
<1>7. CASE UnsetWakeFd
  <2>1. /\ ownerPc = "unset" /\ ownerPc' = "exited" /\ wakeFd' = "unset"
        /\ UNCHANGED <<callerPc, stopping, accepted>>
    BY <1>7 DEF UnsetWakeFd, blocks
  <2> QED BY <2>1 DEF StopInv
<1>8. CASE \E t \in Tasks : KernelCompletes(t)
  <2>1. UNCHANGED <<ownerPc, wakeFd, stopping, accepted, callerPc>>
    BY <1>8 DEF KernelCompletes, blocks, wake, owner
  <2> QED BY <2>1 DEF StopInv
<1> QED BY <1>1, <1>2, <1>3, <1>4, <1>5, <1>6, <1>7, <1>8 DEF Next, CallNext, OwnerNext

(* The invariant holds at first.                                           *)
LEMMA EngineInvInit ==
  ASSUME Init
  PROVE  EngineInv
<1>1. /\ ToSet(<<>>) = {} /\ IsInjective(<<>>)
      /\ <<>> \in Seq(Loads) /\ <<>> \in Seq(Stores) /\ <<>> \in Seq(Tasks) /\ Len(<<>>) = 0
  BY DEF ToSet, IsInjective
<1>2. Cardinality({}) = 0
  BY FS_EmptySet
<1>3. TotalQD \in Nat /\ TotalQD >= 4 /\ SubmitBatch \in Nat /\ SubmitBatch >= 1
  BY OptionsAssumption
<1>4. EngineTypeOK
  BY <1>1, <1>3 DEF Init, EngineTypeOK
<1>5. Pending = {} /\ Dispatched = {} /\ Answered = {} /\ Received = {} /\ InCq = {}
  BY <1>1 DEF Init, Pending, Dispatched, Answered, Received, InCq
<1>6. Apart
  BY <1>1, <1>5 DEF Init, Apart, OneEach
<1>7. StoreQD >= 0 /\ StoreQD \in Int
  BY <1>3 DEF StoreQD, LoadReserve
<1>8. Counts
  BY <1>1, <1>2, <1>3, <1>5, <1>7 DEF Init, Counts
<1>9. OwnerInv
  BY <1>1, <1>2, <1>3 DEF Init, OwnerInv, StatsReconcile
<1>10. WakeInv /\ StopInv
  BY DEF Init, WakeInv, StopInv
<1> QED BY <1>4, <1>6, <1>8, <1>9, <1>10 DEF EngineInv, BlocksInv

(* Every step keeps it.                                                    *)
LEMMA EngineInvStep ==
  ASSUME EngineInv, [Next]_vars
  PROVE  EngineInv'
<1>1. CASE Next
  BY <1>1, StepKeepsBlocks, StepKeepsTypes, StepKeepsOwner, StepKeepsWake, StepKeepsStop
    DEF EngineInv
<1>2. CASE UNCHANGED vars
  <2>1. UNCHANGED <<blocks, ring, history>>
    BY <1>2 DEF vars
  <2>2. BlocksInv'
    BY <2>1, QuietKeepsBlocks DEF EngineInv
  <2>3. /\ UNCHANGED <<queues, inFlight, accepted, completions, ring, wake, owner, stopping,
                       stats, callerPc, history>>
    BY <1>2 DEF vars, blocks
  <2>4. EngineTypeOK'
    BY <2>3 DEF EngineInv, EngineTypeOK, queues, inFlight, ring, wake, owner, history
  <2>5. OwnerInv'
    BY <2>3 DEF EngineInv, OwnerInv, StatsReconcile, ring, owner
  <2>6. CanDispatch' <=> CanDispatch
    BY <2>3 DEF CanDispatch, queues, inFlight, StoreQD, LoadReserve
  <2>7. WakeInv' /\ StopInv'
    BY <2>3, <2>6 DEF EngineInv, WakeInv, StopInv, wake, owner
  <2> QED BY <2>2, <2>4, <2>5, <2>7 DEF EngineInv
<1> QED BY <1>1, <1>2

(* The invariant of the engine holds in every state.                       *)
THEOREM EngineInvariance == Spec => []EngineInv
<1>1. Init => EngineInv
  BY EngineInvInit
<1>2. EngineInv /\ [Next]_vars => EngineInv'
  BY EngineInvStep
<1> QED BY <1>1, <1>2, PTL DEF Spec

--------------------------------------------------------------------------------
(* What it gives                                                           *)

(* With nothing accepted no block is pending or dispatched.                *)
LEMMA NothingAccepted ==
  ASSUME EngineInv, accepted = 0
  PROVE  Pending = {} /\ Dispatched = {}
<1> USE DEF EngineInv
<1>1. /\ accepted = Len(loadPending) + Len(storePending) + loadInFlight + storeInFlight
      /\ Len(loadPending) \in Nat /\ Len(storePending) \in Nat
      /\ loadInFlight \in Nat /\ storeInFlight \in Nat
  BY Sizes DEF BlocksInv, Counts
<1>2. Len(loadPending) = 0 /\ Len(storePending) = 0 /\ loadInFlight = 0 /\ storeInFlight = 0
  BY <1>1
<1>3. loadPending = <<>> /\ storePending = <<>>
  BY <1>2, EmptySeq DEF EngineTypeOK
<1>4. Cardinality(Dispatched) = 0
  BY <1>2, InFlightCount
<1>5. Dispatched = {}
  <2>1. IsFiniteSet(Dispatched)
    BY Places, TasksFinite
  <2> QED BY <1>4, <2>1, FS_EmptySet
<1> QED BY <1>3, <1>5 DEF Pending, ToSet

(* A block passed to Submit is in one place until the caller has its       *)
(* completion, and the counters and statistics agree with the blocks.      *)
THEOREM BlocksAreAccounted == Spec => []BlocksAccounted
<1>1. EngineInv => BlocksAccounted
  BY DEF EngineInv, BlocksInv, Apart, Counts, OwnerInv, BlocksAccounted
<1> QED BY <1>1, EngineInvariance, PTL

(* The ring has an entry for every request, for every queue depth.         *)
THEOREM RingNeverOverflows == Spec => []RingLimits
<1>1. EngineInv => RingLimits
  <2> SUFFICES ASSUME EngineInv PROVE RingLimits
    OBVIOUS
  <2> USE DEF EngineInv
  <2>1. TotalQD \in Nat /\ SubmitBatch \in Nat /\ SubmitBatch <= TotalQD /\ 2 * TotalQD \in Nat
    BY OptionsAssumption
  <2>2. /\ RingEntries(TotalQD) \in Nat /\ RingEntries(TotalQD) >= TotalQD
        /\ RingEntries(2 * TotalQD) \in Nat /\ RingEntries(2 * TotalQD) >= 2 * TotalQD
    BY <2>1, RingHasRoom
  <2>3. Cardinality(Dispatched) <= TotalQD /\ Cardinality(Dispatched) \in Nat
    <3>1. freeContexts = TotalQD - Cardinality(Dispatched) /\ freeContexts \in Nat
      BY DEF BlocksInv, Counts, EngineTypeOK
    <3>2. Cardinality(Dispatched) \in Nat
      BY Places, TasksFinite
    <3> QED BY <2>1, <3>1, <3>2
  <2>4. prepared = Len(sq) /\ prepared \in Nat
    BY DEF OwnerInv, EngineTypeOK
  <2>5. prepared < SubmitBatch => Len(sq) < RingEntries(TotalQD)
    BY <2>1, <2>2, <2>4
  <2>6. Cardinality(cq) + Cardinality(kernel) + Len(sq) = Cardinality(Dispatched)
    <3>1. /\ loadInFlight + storeInFlight = Len(sq) + Cardinality(kernel) + Cardinality(cq)
          /\ Len(sq) \in Nat /\ Cardinality(kernel) \in Nat /\ Cardinality(cq) \in Nat
      BY Sizes DEF BlocksInv, Counts
    <3>2. Cardinality(Dispatched) = loadInFlight + storeInFlight
      BY InFlightCount
    <3> QED BY <3>1, <3>2
  <2>7. Cardinality(cq) + Cardinality(kernel) + Len(sq) <= RingEntries(2 * TotalQD)
    <3>1. Cardinality(Dispatched) <= RingEntries(2 * TotalQD)
      BY <2>1, <2>2, <2>3
    <3> QED BY <2>6, <3>1
  <2>8. storeInFlight <= StoreQD
    BY DEF BlocksInv, Counts
  <2> QED BY <2>3, <2>4, <2>5, <2>7, <2>8 DEF RingLimits
<1> QED BY <1>1, EngineInvariance, PTL

(* The owner never sleeps over work, and a load that waits does not wait   *)
(* behind stores alone.                                                    *)
THEOREM NoWakeupIsLost == Spec => []NoLostWakeup
<1>1. EngineInv => NoLostWakeup
  <2> SUFFICES ASSUME EngineInv, Asleep,
                      callerPc \notin {"wake", "write", "stopWake", "stopWrite"}
               PROVE  /\ ~CanDispatch
                      /\ ~(stopping /\ accepted = 0)
                      /\ accepted > 0 => kernel # {}
                      /\ loadPending # <<>> => loadInFlight >= LoadReserve
    BY DEF NoLostWakeup
  <2> USE DEF EngineInv
  <2>1. ~CanDispatch /\ ~(stopping /\ accepted = 0)
    BY DEF WakeInv, Asleep
  <2>2. /\ TotalQD \in Nat /\ TotalQD >= 4 /\ LoadReserve \in Nat /\ StoreQD \in Nat
        /\ LoadReserve < TotalQD /\ StoreQD = TotalQD - LoadReserve
    BY OptionsAssumption DEF LoadReserve, StoreQD
  <2>3. /\ loadInFlight \in Nat /\ storeInFlight \in Nat
        /\ freeContexts = TotalQD - (loadInFlight + storeInFlight)
        /\ storeInFlight <= StoreQD
    BY InFlightCount DEF EngineTypeOK, BlocksInv, Counts
  <2>4. accepted > 0 => kernel # {}
    <3> SUFFICES ASSUME kernel = {} PROVE accepted = 0
      BY DEF EngineTypeOK
    <3>1. Len(sq) = 0 /\ cq = {}
      BY DEF OwnerInv, Asleep
    <3>2. loadInFlight + storeInFlight = 0
      BY <3>1, FS_EmptySet DEF BlocksInv, Counts
    <3>3. loadInFlight = 0 /\ storeInFlight = 0
      BY <2>3, <3>2
    <3>4. storeInFlight < StoreQD /\ loadInFlight + storeInFlight < TotalQD /\ freeContexts > 0
      BY <2>2, <2>3, <3>3
    <3>5. loadPending = <<>> /\ storePending = <<>>
      BY <2>1, <3>4 DEF CanDispatch
    <3> QED BY <3>3, <3>5 DEF BlocksInv, Counts
  <2>5. loadPending # <<>> => loadInFlight >= LoadReserve
    <3> SUFFICES ASSUME loadPending # <<>> PROVE loadInFlight >= LoadReserve
      OBVIOUS
    <3>1. ~(loadInFlight + storeInFlight < TotalQD /\ freeContexts > 0)
      BY <2>1 DEF CanDispatch
    <3> QED BY <2>2, <2>3, <3>1
  <2> QED BY <2>1, <2>4, <2>5
<1> QED BY <1>1, EngineInvariance, PTL

(* After the ring is torn down no request can touch primary memory.        *)
THEOREM ShutdownIsSafe == Spec => []ShutdownReleasesMemory
<1>1. EngineInv => ShutdownReleasesMemory
  BY NothingAccepted DEF EngineInv, StopInv, ShutdownReleasesMemory
<1> QED BY <1>1, EngineInvariance, PTL

(* A drain that returns has handed every block passed to Submit over.      *)
THEOREM DrainsAreComplete == Spec => DrainIsComplete
<1>1. ASSUME EngineInv, Next, callerPc = "drain", callerPc' = "idle"
      PROVE  Received' = given
  <2>1. DrainTest
    BY <1>1 DEF Next, CallNext, OwnerNext, Submit, PollCompletions, DrainBegin, ResetStats,
      ShutdownBegin, WakeCheck, WakeWrite, Join, Reap, Finish, Notified, ReapDone, Dispatch,
      BatchReady, SubmitPrepared, CountBatches, StopCheck, PollReturns, DrainWakeFd, CloseWakeFd,
      UnsetWakeFd, KernelCompletes
  <2>2. DrainDone /\ TakeCompletions /\ UNCHANGED <<queues, inFlight, accepted, ring, given>>
    BY <1>1, <2>1 DEF DrainTest
  <2>3. Received' = Answered \cup Received
    BY <1>1, <2>2, TakeKeepsBlocks DEF EngineInv
  <2>4. Pending = {} /\ Dispatched = {}
    BY <1>1, <2>2, NothingAccepted DEF DrainDone
  <2>5. given = UNION {Pending, Dispatched, Answered, Received}
    BY <1>1 DEF EngineInv, BlocksInv, Apart
  <2> QED BY <2>3, <2>4, <2>5
<1>2. EngineInv /\ [Next]_vars
        => [callerPc = "drain" /\ callerPc' = "idle" => Received' = given]_vars
  BY <1>1
<1> QED BY <1>2, EngineInvariance, PTL DEF Spec, DrainIsComplete

--------------------------------------------------------------------------------
(* The engine keeps the block I/O contract                                 *)

Succeeded(t) == [task |-> t, ok |-> TRUE] \in completions \cup delivered

(* Contract steps, by their effect on each block.                          *)
LEMMA ContractStutters ==
  ASSUME UNCHANGED <<given, completions, delivered, stopping>>
  PROVE  UNCHANGED Contract!vars
<1>1. \A t \in Tasks : StatusOf(t)' = StatusOf(t)
  BY DEF StatusOf, Answered, Received
<1>2. \A t \in Tasks : Succeeded(t)' = Succeeded(t)
  BY DEF Succeeded
<1> QED BY <1>1, <1>2 DEF Contract!vars, Succeeded

(* Submit, with a refusal or without, is the Submit of the contract.       *)
LEMMA SubmitIsContractSubmit ==
  ASSUME EngineInv, NEW t \in Tasks, Submit(t)
  PROVE  Contract!Next
<1> DEFINE refused == IF QueueFull THEN {t} ELSE {}
<1>1. ~stopping /\ stopping' = stopping /\ t \notin given /\ given' = given \cup {t}
      /\ delivered' = delivered
  BY DEF Submit
<1>2. given = UNION {Pending, Dispatched, Answered, Received}
  BY DEF EngineInv, BlocksInv, Apart
<1>3. completions' = IF QueueFull THEN completions \cup {[task |-> t, ok |-> FALSE]}
                                  ELSE completions
  BY DEF Submit
<1>4. Answered' = Answered \cup refused /\ Received' = Received
  <2>1. Received' = Received
    BY <1>1 DEF Received
  <2>2. CASE QueueFull
    <3> DEFINE c == [task |-> t, ok |-> FALSE]
    <3>1. completions' = completions \cup {c} /\ c.task = t
      BY <1>3, <2>2
    <3> HIDE DEF c
    <3>2. Answered' = Answered \cup {t}
      BY <3>1 DEF Answered
    <3> QED BY <2>1, <2>2, <3>2
  <2>3. CASE ~QueueFull
    BY <1>3, <2>1, <2>3 DEF Answered
  <2> QED BY <2>2, <2>3
<1>5. \A u \in Tasks : StatusOf(u)' = IF u \in refused THEN "ready"
                                   ELSE IF u \in {t} THEN "owed" ELSE StatusOf(u)
  BY <1>1, <1>2, <1>4 DEF StatusOf
<1>6. \A u \in Tasks : Succeeded(u)' = Succeeded(u)
  BY <1>1, <1>3 DEF Succeeded
<1>7. StatusOf(t) = "new"
  BY <1>1 DEF StatusOf
<1>8. Contract!Submit({t}, refused)
  BY <1>1, <1>5, <1>6, <1>7 DEF Contract!Submit, Contract!In, Succeeded
<1> QED BY <1>8 DEF Contract!Next

(* A completion reaped is the Complete of the contract.                    *)
LEMMA ReapIsContractComplete ==
  ASSUME EngineInv, Reap
  PROVE  Contract!Next
<1>1. PICK c \in cq : completions' = completions \cup {c}
  BY DEF Reap, Finish
<1>2. given' = given /\ delivered' = delivered /\ stopping' = stopping
  BY DEF Reap, history
<1>3. c.task \in Tasks /\ c.ok \in BOOLEAN /\ c = [task |-> c.task, ok |-> c.ok]
  BY DEF EngineInv, EngineTypeOK, Result
<1>4. c.task \in given /\ c.task \notin Answered /\ c.task \notin Received
  BY DEF EngineInv, BlocksInv, Apart, Dispatched
<1>5. Answered' = Answered \cup {c.task} /\ Received' = Received
  BY <1>1, <1>2 DEF Answered, Received
<1>6. \A u \in Tasks : StatusOf(u)' = IF u = c.task THEN "ready" ELSE StatusOf(u)
  BY <1>2, <1>4, <1>5 DEF StatusOf
<1>7. StatusOf(c.task) = "owed"
  BY <1>4 DEF StatusOf
<1>8. \A u \in Tasks : Succeeded(u)' = IF u = c.task THEN c.ok ELSE Succeeded(u)
  <2>1. ~Succeeded(c.task)
    BY <1>4 DEF Succeeded, Answered, Received
  <2>2. ASSUME NEW u \in Tasks, u # c.task
        PROVE  Succeeded(u)' = Succeeded(u)
    <3>1. [task |-> u, ok |-> TRUE] # c
      BY <2>2
    <3> QED BY <1>1, <1>2, <3>1 DEF Succeeded
  <2>3. Succeeded(c.task)' = c.ok
    <3>1. CASE c.ok = TRUE
      <4>1. c = [task |-> c.task, ok |-> TRUE]
        BY <1>3, <3>1
      <4>2. Succeeded(c.task)' = TRUE
        BY <1>1, <4>1 DEF Succeeded
      <4> QED BY <3>1, <4>2
    <3>2. CASE c.ok = FALSE
      <4>1. [task |-> c.task, ok |-> TRUE] # c
        BY <3>2
      <4>2. Succeeded(c.task)' = FALSE
        BY <1>1, <1>2, <2>1, <4>1 DEF Succeeded
      <4> QED BY <3>2, <4>2
    <3> QED BY <1>3, <3>1, <3>2
  <2> QED BY <2>2, <2>3
<1>9. Contract!Complete(c.task, c.ok)
  BY <1>2, <1>3, <1>6, <1>7, <1>8 DEF Contract!Complete, Succeeded
<1> QED BY <1>3, <1>9 DEF Contract!Next

(* Completions taken are the Poll of the contract, and none are a stutter. *)
LEMMA TakeIsContractPoll ==
  ASSUME EngineInv, TakeCompletions, UNCHANGED <<given, stopping>>
  PROVE  Contract!Next \/ UNCHANGED Contract!vars
<1>1. delivered' = delivered \cup completions /\ completions' = {}
  BY DEF TakeCompletions
<1>2. CASE completions = {}
  <2>1. UNCHANGED <<given, completions, delivered, stopping>>
    BY <1>1, <1>2
  <2> QED BY <2>1, ContractStutters
<1>3. CASE completions # {}
  <2>1. Answered \subseteq given /\ Answered \subseteq Tasks /\ Answered \cap Received = {}
    BY Places DEF EngineInv, BlocksInv, Apart
  <2>2. Answered' = {} /\ Received' = Received \cup Answered
    BY <1>1 DEF Answered, Received
  <2>3. \A u \in Tasks : StatusOf(u)' = IF StatusOf(u) = "ready" THEN "delivered" ELSE StatusOf(u)
    BY <2>1, <2>2 DEF StatusOf
  <2>4. \A u \in Tasks : Succeeded(u)' = Succeeded(u)
    BY <1>1 DEF Succeeded
  <2>5. PICK c \in completions : TRUE
    BY <1>3
  <2>6. c.task \in Tasks /\ StatusOf(c.task) = "ready"
    BY <2>1, <2>5 DEF Answered, StatusOf
  <2>7. Contract!Poll
    BY <2>3, <2>4, <2>6 DEF Contract!Poll, Contract!In, Contract!Handed, Succeeded
  <2> QED BY <2>7 DEF Contract!Next
<1> QED BY <1>2, <1>3

(* The engine implements the safety part of the contract: a block is owed  *)
(* from Submit until the kernel answered it, ready until it is polled, and *)
(* handed over once.                                                       *)
THEOREM EngineKeepsContract == Spec => Contract!Spec
<1>1. Init => Contract!Init
  <2> SUFFICES ASSUME Init PROVE Contract!Init
    OBVIOUS
  <2>1. \A t \in Tasks : StatusOf(t) = "new"
    BY DEF Init, StatusOf
  <2>2. \A t \in Tasks : Succeeded(t) = FALSE
    BY DEF Init, Succeeded
  <2> QED BY <2>1, <2>2 DEF Init, Contract!Init, Succeeded
<1>2. ASSUME EngineInv, [Next]_vars PROVE [Contract!Next]_(Contract!vars)
  <2>1. CASE \E t \in Tasks : Submit(t)
    BY <1>2, <2>1, SubmitIsContractSubmit
  <2>2. CASE Reap
    BY <1>2, <2>2, ReapIsContractComplete
  <2>3. CASE PollCompletions \/ (DrainTest /\ DrainDone)
    <3>1. TakeCompletions /\ UNCHANGED <<given, stopping>>
      BY <2>3 DEF PollCompletions, DrainTest
    <3> QED BY <1>2, <3>1, TakeIsContractPoll
  <2>4. CASE ShutdownBegin
    <3>1. UNCHANGED <<given, completions, delivered>> /\ stopping' = TRUE
      BY <2>4 DEF ShutdownBegin, blocks, history
    <3>2. \A t \in Tasks : StatusOf(t)' = StatusOf(t)
      BY <3>1 DEF StatusOf, Answered, Received
    <3>3. \A t \in Tasks : Succeeded(t)' = Succeeded(t)
      BY <3>1 DEF Succeeded
    <3>4. Contract!Close
      BY <3>1, <3>2, <3>3 DEF Contract!Close, Succeeded
    <3> QED BY <3>4 DEF Contract!Next
  <2>5. CASE \/ DrainTest /\ ~DrainDone
             \/ DrainBegin \/ ResetStats \/ WakeCheck \/ WakeWrite \/ Join
             \/ ReapDone \/ Dispatch \/ BatchReady \/ SubmitPrepared \/ CountBatches \/ StopCheck
             \/ PollReturns \/ DrainWakeFd \/ CloseWakeFd \/ UnsetWakeFd
             \/ (\E t \in Tasks : KernelCompletes(t)) \/ UNCHANGED vars
    <3>1. UNCHANGED <<given, completions, delivered, stopping>>
      BY <2>5 DEF DrainTest, DrainBegin, ResetStats, WakeCheck, WakeWrite, Join, ReapDone, Dispatch,
        BatchReady, SubmitPrepared, CountBatches, StopCheck, PollReturns, DrainWakeFd, CloseWakeFd,
        UnsetWakeFd, KernelCompletes, vars, blocks, history
    <3> QED BY <3>1, ContractStutters
  <2> QED BY <1>2, <2>1, <2>2, <2>3, <2>4, <2>5 DEF Next, CallNext, OwnerNext
<1> QED BY <1>1, <1>2, EngineInvariance, PTL DEF Spec, Contract!Spec

================================================================================
