---------------------------- MODULE Benchmark_proofs ----------------------------
(***************************************************************************)
(* Proofs about the benchmarks.  For any number of jobs, blocks, slot      *)
(* groups and any timetable: the transfers a driver has under way keep off *)
(* each other's memory and slots (Benchmark).  For any number of arms: the *)
(* order in which the ablation runs them is balanced (ArmOrder).           *)
(***************************************************************************)
EXTENDS Benchmark, ArmOrder, FiniteSetTheorems, WellFoundedInduction, TLAPS

--------------------------------------------------------------------------------
(* Quotients and remainders                                                *)

(* Division by a positive number.                                          *)
LEMMA Division ==
  ASSUME NEW a \in Nat, NEW b \in Nat, b # 0
  PROVE  /\ a \div b \in Nat /\ a % b \in 0 .. (b - 1)
         /\ a = b * (a \div b) + (a % b)
  BY SMT

(* Quotient and remainder are the only way to write a number so.           *)
LEMMA RemainderUnique ==
  ASSUME NEW b \in Nat, b # 0, NEW q \in Nat, NEW r \in 0 .. (b - 1)
  PROVE  (b * q + r) % b = r
<1> DEFINE a == b * q + r
           p == a \div b
           s == a % b
<1>1. a \in Nat
  BY SMT
<1>2. p \in Nat /\ s \in 0 .. (b - 1) /\ a = b * p + s
  BY <1>1, Division
<1> HIDE DEF p, s
<1>3. p < q => b * p + b <= b * q
  BY <1>2, SMT
<1>4. q < p => b * q + b <= b * p
  BY <1>2, SMT
<1>5. b * p \in Nat /\ b * q \in Nat
  BY <1>2, SMT
<1>6. p = q
  BY <1>2, <1>3, <1>4, <1>5
<1>7. s = r
  BY <1>2, <1>5, <1>6
<1> QED BY <1>7 DEF s

(* Among any b consecutive numbers every remainder occurs.                 *)
LEMMA RemainderOccurs ==
  ASSUME NEW b \in Nat, b # 0, NEW first \in Nat, NEW r \in 0 .. (b - 1)
  PROVE  \E n \in first .. (first + b - 1) : n % b = r
<1> DEFINE q == first \div b
           o == first % b
<1>1. q \in Nat /\ o \in 0 .. (b - 1) /\ first = b * q + o
  BY Division
<1> HIDE DEF q, o
<1>2. CASE r >= o
  <2>1. b * q + r \in first .. (first + b - 1)
    BY <1>1, <1>2, SMT
  <2> QED BY <1>1, <2>1, RemainderUnique
<1>3. CASE r < o
  <2>1. b * (q + 1) + r \in first .. (first + b - 1)
    <3>1. b * (q + 1) = b * q + b /\ b * q \in Nat
      BY <1>1, SMT
    <3> QED BY <1>1, <1>3, <3>1
  <2>2. (b * (q + 1) + r) % b = r
    BY <1>1, RemainderUnique
  <2> QED BY <2>1, <2>2
<1> QED BY <1>1, <1>2, <1>3

(* It occurs once.                                                         *)
LEMMA RemainderOnce ==
  ASSUME NEW b \in Nat, b # 0, NEW first \in Nat,
         NEW m \in first .. (first + b - 1), NEW n \in first .. (first + b - 1),
         m % b = n % b
  PROVE  m = n
<1> DEFINE p == m \div b
           q == n \div b
           r == n % b
<1>1. /\ p \in Nat /\ m = b * p + r
      /\ q \in Nat /\ n = b * q + r /\ r \in 0 .. (b - 1)
  <2>1. m \in Nat /\ n \in Nat
    OBVIOUS
  <2>2. p \in Nat /\ m = b * p + (m % b)
    BY <2>1, Division
  <2>3. q \in Nat /\ n = b * q + r /\ r \in 0 .. (b - 1)
    BY <2>1, Division
  <2> QED BY <2>2, <2>3
<1> HIDE DEF p, q, r
<1>2. p < q => b * p + b <= b * q
  BY <1>1, SMT
<1>3. q < p => b * q + b <= b * p
  BY <1>1, SMT
<1>4. b * p \in Nat /\ b * q \in Nat /\ m < n + b /\ n < m + b
  BY <1>1, SMT
<1>5. p = q
  BY <1>1, <1>2, <1>3, <1>4
<1> QED BY <1>1, <1>5

(* A repetition runs every arm: the arm of an index is at one position and *)
(* at no other (run_microbenchmark_ablation.py:33-36).                     *)
THEOREM EveryArmOnce ==
  ASSUME NEW arms \in Nat, arms # 0, NEW repetition \in Nat, NEW arm \in ArmIndices(arms)
  PROVE  \E position \in ArmIndices(arms) :
           /\ ArmAt(arms, repetition, position) = arm
           /\ \A other \in ArmIndices(arms) :
                ArmAt(arms, repetition, other) = arm => other = position
<1> DEFINE offset == Offset(arms, repetition)
           place  == IF arm >= offset THEN arm - offset ELSE arm + (arms - offset)
<1>1. offset \in 0 .. (arms - 1)
  BY Division DEF Offset
<1> HIDE DEF offset
<1>2. place \in ArmIndices(arms)
  BY <1>1 DEF ArmIndices
<1>3. \A other \in ArmIndices(arms) :
        (IF other < arms - offset THEN other + offset ELSE other - (arms - offset)) = arm
          <=> other = place
  BY <1>1, <1>2 DEF ArmIndices
<1>4. \A other \in ArmIndices(arms) : ArmAt(arms, repetition, other) = arm <=> other = place
  BY <1>3 DEF ArmAt, offset
<1> QED BY <1>2, <1>4

(* In as many consecutive repetitions as there are arms, each arm is run   *)
(* at each position once: what the script says of its five repetitions.    *)
THEOREM PositionsBalanced ==
  ASSUME NEW arms \in Nat, arms # 0, NEW first \in Nat,
         NEW position \in ArmIndices(arms), NEW arm \in ArmIndices(arms)
  PROVE  \E repetition \in first .. (first + arms - 1) :
           /\ ArmAt(arms, repetition, position) = arm
           /\ \A other \in first .. (first + arms - 1) :
                ArmAt(arms, other, position) = arm => other = repetition
<1> DEFINE wanted == IF arm >= position THEN arm - position ELSE arm - position + arms
<1>1. wanted \in 0 .. (arms - 1)
  BY DEF ArmIndices
<1>2. \A n \in Nat : ArmAt(arms, n, position) = arm <=> n % arms = wanted
  <2> SUFFICES ASSUME NEW n \in Nat
               PROVE  ArmAt(arms, n, position) = arm <=> n % arms = wanted
    OBVIOUS
  <2> DEFINE offset == n % arms
  <2>1. offset \in 0 .. (arms - 1)
    BY Division
  <2>2. ArmAt(arms, n, position) =
          IF position < arms - offset THEN position + offset ELSE position - (arms - offset)
    BY DEF ArmAt, Offset
  <2> HIDE DEF offset
  <2>3. ArmAt(arms, n, position) = arm <=> offset = wanted
    BY <2>1, <2>2 DEF ArmIndices
  <2> QED BY <2>3 DEF offset
<1>3. PICK repetition \in first .. (first + arms - 1) : repetition % arms = wanted
  <2> HIDE DEF wanted
  <2> QED BY <1>1, RemainderOccurs
<1>4. ASSUME NEW other \in first .. (first + arms - 1), ArmAt(arms, other, position) = arm
      PROVE  other = repetition
  <2>1. other \in Nat /\ other % arms = wanted
    BY <1>2, <1>4
  <2> QED BY <1>3, <2>1, RemainderOnce
<1>5. ArmAt(arms, repetition, position) = arm
  BY <1>2, <1>3
<1> HIDE DEF wanted
<1> QED BY <1>4, <1>5

--------------------------------------------------------------------------------
(* The invariant of a benchmark run                                        *)

Phases == {"seed", "test", "submit", "poll", "end", "raised", "reported", "failed"}

BenchTypeOK ==
  /\ program \in {"m4", "m0", "m1"}
  /\ directions \in {{"load"}, {"store"}, {"load", "store"}}
  /\ phase \in Phases
  /\ started \subseteq RunJobs
  /\ freeGroups \subseteq SlotGroups
  /\ jobGroup \in [RunJobs -> SlotGroups]
  /\ remaining \in [RunJobs -> 0 .. BlocksPerJob]
  /\ status \in [Block -> {"new", "owed", "ready", "delivered"}]

(* The blocks of the seed are under way only before the first job, and no  *)
(* block of a job is before the job was taken from the schedule.           *)
SeedInv ==
  /\ phase = "seed" => started = {}
  /\ \A b \in Block :
       /\ status[b] = "owed" /\ b.job.direction = "seed" => phase = "seed"
       /\ status[b] # "new" /\ b.job.direction # "seed" => b.job \in started

(* The schedule is taken in its order.                                     *)
ScheduleInv ==
  /\ \A job \in started, next \in Waiting : Before(job, next)
  /\ phase = "submit" => CurrentJob \in started

Undelivered(job) == {b \in BlocksOf(job) : status[b] # "delivered"}

(* A job has no block remaining only when each was delivered; the driver   *)
(* of the engine counts the blocks, the one of the pool answers.           *)
RemainingInv ==
  \A job \in RunJobs :
    /\ program = "m4" => remaining[job] = Cardinality(Undelivered(job))
    /\ remaining[job] = 0 => Undelivered(job) = {}

Running == {job \in started : remaining[job] # 0}

(* A job that runs has a slot group, for itself.                           *)
GroupsInv ==
  /\ \A job \in Running : jobGroup[job] \notin freeGroups
  /\ \A job, other \in Running : jobGroup[job] = jobGroup[other] => job = other

BenchInv == BenchTypeOK /\ SeedInv /\ ScheduleInv /\ RemainingInv /\ GroupsInv

--------------------------------------------------------------------------------
(* The schedule                                                            *)

(* What the options make of a run.                                         *)
LEMMA Options ==
  /\ Jobs \in Nat /\ Jobs # 0 /\ BlocksPerJob \in Nat /\ BlocksPerJob # 0
  /\ MaxInflightJobs \in Nat /\ MaxInflightJobs # 0
  /\ Interval \in Nat /\ WriteStartOffset \in Nat
  /\ ReadInterval \in Nat /\ WriteInterval \in Nat
  BY BenchmarkAssumption

(* A set of naturals has a least element.                                  *)
LEMMA LeastNatural ==
  ASSUME NEW T, T \subseteq Nat, T # {}
  PROVE  \E n \in T : \A m \in T : n <= m
<1>1. PICK n \in T : \A m \in T : <<m, n>> \notin OpToRel(<, Nat)
  BY NatLessThanWellFounded, WFMin
<1>2. ASSUME NEW m \in T PROVE n <= m
  <2>1. m \in Nat /\ n \in Nat
    OBVIOUS
  <2>2. ~(m < n)
    BY <1>1, <2>1 DEF OpToRel
  <2> QED BY <2>1, <2>2
<1> QED BY <1>2

(* Jobs are due at a natural time, in the order of their indices.          *)
LEMMA DueInOrder ==
  ASSUME directions \in {{"load"}, {"store"}, {"load", "store"}},
         NEW a \in RunJobs, NEW b \in RunJobs
  PROVE  /\ Due(a) \in Nat /\ Due(b) \in Nat
         /\ (a.direction = b.direction /\ a.index <= b.index) => Due(a) <= Due(b)
<1>1. /\ a.index \in Nat /\ b.index \in Nat
      /\ a.direction \in {"load", "store"} /\ b.direction \in {"load", "store"}
  BY Options DEF RunJobs, Indices
<1>2. ASSUME NEW k \in Nat
      PROVE  /\ a.index * k \in Nat /\ b.index * k \in Nat
             /\ a.index <= b.index => a.index * k <= b.index * k
  BY <1>1, SMT
<1>3. CASE ~Mixed
  <2>1. Due(a) = a.index * Interval /\ Due(b) = b.index * Interval
    BY <1>3 DEF Due
  <2> QED BY <1>2, <2>1, Options
<1>4. CASE Mixed
  <2>1. ASSUME NEW c \in RunJobs, c.direction = "load"
        PROVE  Due(c) = c.index * ReadInterval
    BY <1>4, <2>1 DEF Due
  <2>2. ASSUME NEW c \in RunJobs, c.direction = "store"
        PROVE  Due(c) = WriteStartOffset + c.index * WriteInterval
    BY <1>4, <2>2 DEF Due
  <2>3. /\ a.index * ReadInterval \in Nat /\ b.index * ReadInterval \in Nat
        /\ a.index <= b.index => a.index * ReadInterval <= b.index * ReadInterval
    BY <1>2, Options
  <2>4. /\ a.index * WriteInterval \in Nat /\ b.index * WriteInterval \in Nat
        /\ a.index <= b.index => a.index * WriteInterval <= b.index * WriteInterval
    BY <1>2, Options
  <2>5. Due(a) \in Nat
    BY <1>1, <2>1, <2>2, <2>3, <2>4, Options
  <2>6. Due(b) \in Nat
    BY <1>1, <2>1, <2>2, <2>3, <2>4, Options
  <2>7. ASSUME a.direction = b.direction, a.index <= b.index
        PROVE  Due(a) <= Due(b)
    <3>1. CASE a.direction = "load"
      BY <2>1, <2>3, <2>7, <3>1
    <3>2. CASE a.direction = "store"
      <4>1. /\ Due(a) = WriteStartOffset + a.index * WriteInterval
            /\ Due(b) = WriteStartOffset + b.index * WriteInterval
        BY <2>2, <2>7, <3>2
      <4> QED BY <2>4, <2>7, <4>1, Options
    <3> QED BY <1>1, <3>1, <3>2
  <2> QED BY <2>5, <2>6, <2>7
<1> QED BY <1>3, <1>4

(* The first of some jobs.                                                 *)
Leads(first, jobs) ==
  \A other \in jobs : Due(first) <= Due(other) /\ (other # first => Before(first, other))

(* Of the jobs of one direction, one comes before every other.             *)
LEMMA FirstOfDirection ==
  ASSUME directions \in {{"load"}, {"store"}, {"load", "store"}},
         NEW S, S \subseteq RunJobs, S # {}, NEW d, \A job \in S : job.direction = d
  PROVE  \E first \in S : Leads(first, S)
<1> DEFINE T == {job.index : job \in S}
<1>1. T \subseteq Nat /\ T # {}
  BY Options DEF RunJobs, Indices
<1>2. PICK n \in T : \A m \in T : n <= m
  <2> HIDE DEF T
  <2> QED BY <1>1, LeastNatural
<1>3. PICK first \in S : first.index = n
  OBVIOUS
<1>4. \A other \in S : first.index <= other.index
  BY <1>2, <1>3
<1>5. ASSUME NEW other \in S
      PROVE  /\ Due(first) <= Due(other)
             /\ other # first => Before(first, other)
  <2>1. /\ first.direction = other.direction /\ first.index <= other.index
        /\ first.index \in Nat /\ other.index \in Nat
        /\ first = [direction |-> first.direction, index |-> first.index]
        /\ other = [direction |-> other.direction, index |-> other.index]
    BY <1>4, Options DEF RunJobs, Indices
  <2>2. Due(first) \in Nat /\ Due(other) \in Nat /\ Due(first) <= Due(other)
    BY <2>1, DueInOrder
  <2>3. ASSUME other # first PROVE Before(first, other)
    <3>1. first.index # other.index
      BY <2>1, <2>3
    <3>2. first.index < other.index
      BY <2>1, <3>1
    <3> QED BY <2>1, <2>2, <3>2 DEF Before
  <2> QED BY <2>2, <2>3
<1> QED BY <1>5 DEF Leads

(* The schedule has a next job as long as a job waits.                     *)
LEMMA NextJobIsFirst ==
  ASSUME directions \in {{"load"}, {"store"}, {"load", "store"}}, Waiting # {}
  PROVE  NextJob \in Waiting /\ \A other \in Waiting \ {NextJob} : Before(NextJob, other)
<1> DEFINE Of(d) == {job \in Waiting : job.direction = d}
<1>1. Waiting \subseteq RunJobs /\ \A job \in Waiting : job.direction \in {"load", "store"}
  BY DEF Waiting, RunJobs
<1>2. \E job \in Waiting : \A other \in Waiting \ {job} : Before(job, other)
  <2>0. ASSUME NEW d, Of(d) # {}
        PROVE  \E first \in Of(d) : Leads(first, Of(d))
    <3>1. (\A job \in Of(d) : job.direction = d) /\ Of(d) \subseteq RunJobs
      BY <1>1
    <3> HIDE DEF Of
    <3> QED BY <2>0, <3>1, FirstOfDirection
  <2>1. CASE Of("load") = {}
    <3>1. Of("store") = Waiting
      BY <1>1, <2>1
    <3>2. PICK first \in Waiting : Leads(first, Waiting)
      BY <2>0, <3>1
    <3> QED BY <3>2 DEF Leads
  <2>2. CASE Of("store") = {}
    <3>1. Of("load") = Waiting
      BY <1>1, <2>2
    <3>2. PICK first \in Waiting : Leads(first, Waiting)
      BY <2>0, <3>1
    <3> QED BY <3>2 DEF Leads
  <2>3. CASE Of("load") # {} /\ Of("store") # {}
    <3>1. PICK l \in Of("load") : Leads(l, Of("load"))
      BY <2>0, <2>3
    <3>2. PICK s \in Of("store") : Leads(s, Of("store"))
      BY <2>0, <2>3
    <3>3. \A job \in Waiting : Due(job) \in Nat
      BY <1>1, DueInOrder
    <3>4. Due(l) \in Nat /\ Due(s) \in Nat
      BY <3>3
    <3>5. CASE Due(l) <= Due(s)
      <4>1. ASSUME NEW other \in Waiting \ {l} PROVE Before(l, other)
        <5>1. CASE other.direction = "load"
          BY <3>1, <4>1, <5>1 DEF Leads
        <5>2. CASE other.direction = "store"
          <6>1. Due(s) <= Due(other) /\ Due(other) \in Nat
            BY <3>2, <3>3, <5>2 DEF Leads
          <6>2. Due(l) < Due(other) \/ Due(l) = Due(other)
            BY <3>4, <3>5, <6>1
          <6> QED BY <5>2, <6>2 DEF Before
        <5> QED BY <1>1, <5>1, <5>2
      <4> QED BY <4>1
    <3>6. CASE Due(s) < Due(l)
      <4>1. ASSUME NEW other \in Waiting \ {s} PROVE Before(s, other)
        <5>1. CASE other.direction = "store"
          BY <3>2, <4>1, <5>1 DEF Leads
        <5>2. CASE other.direction = "load"
          <6>1. Due(l) <= Due(other) /\ Due(other) \in Nat
            BY <3>1, <3>3, <5>2 DEF Leads
          <6>2. Due(s) < Due(other)
            BY <3>4, <3>6, <6>1
          <6> QED BY <6>2 DEF Before
        <5> QED BY <1>1, <5>1, <5>2
      <4> QED BY <4>1
    <3> QED BY <3>4, <3>5, <3>6
  <2> QED BY <2>1, <2>2, <2>3
<1> QED BY <1>2 DEF NextJob

--------------------------------------------------------------------------------
(* Steps                                                                   *)

Statuses == {"new", "owed", "ready", "delivered"}

(* The jobs of a run, and the jobs of blocks, stay what they are.          *)
LEMMA RunJobsAreJobs ==
  ASSUME directions \in {{"load"}, {"store"}, {"load", "store"}}
  PROVE  /\ RunJobs \subseteq Job
         /\ \A job \in RunJobs : job.direction \in directions /\ job.direction # "seed"
  BY DEF RunJobs, Job

LEMMA SameRun ==
  ASSUME UNCHANGED directions
  PROVE  /\ RunJobs' = RunJobs /\ SlotGroups' = SlotGroups
         /\ \A a, b : Before(a, b)' = Before(a, b)
<1>1. Mixed' = Mixed /\ RunJobs' = RunJobs
  BY DEF Mixed, RunJobs
<1>2. \A job : Due(job)' = Due(job)
  BY <1>1 DEF Due
<1> QED BY <1>1, <1>2 DEF SlotGroups, Before

(* There are as many blocks of a job as the options say.                   *)
LEMMA BlocksCounted ==
  ASSUME NEW job \in Job
  PROVE  IsFiniteSet(BlocksOf(job)) /\ Cardinality(BlocksOf(job)) = BlocksPerJob
<1> DEFINE numbers == 0 .. (BlocksPerJob - 1)
           f == [n \in numbers |-> [job |-> job, number |-> n]]
<1>1. IsFiniteSet(numbers) /\ Cardinality(numbers) = BlocksPerJob
  <2>1. 0 \in Int /\ BlocksPerJob - 1 \in Int /\ ~(0 > BlocksPerJob - 1)
    BY Options
  <2>2. /\ IsFiniteSet(numbers)
        /\ Cardinality(numbers) = (BlocksPerJob - 1) - 0 + 1
    BY <2>1, FS_Interval
  <2> QED BY <2>2, Options
<1>2. f \in [numbers -> BlocksOf(job)]
  BY DEF BlocksOf, Block
<1>3. \A m, n \in numbers : f[m] = f[n] => m = n
  OBVIOUS
<1>4. \A b \in BlocksOf(job) : \E n \in numbers : f[n] = b
  BY DEF BlocksOf, Block
<1>5. f \in Bijection(numbers, BlocksOf(job))
  BY <1>2, <1>3, <1>4 DEF Bijection, Injection, Surjection, IsInjective
<1>6. ExistsBijection(numbers, BlocksOf(job))
  BY <1>5 DEF ExistsBijection
<1> QED BY <1>1, <1>6, FS_Bijection

LEMMA UndeliveredFinite ==
  ASSUME NEW job \in Job
  PROVE  IsFiniteSet(Undelivered(job)) /\ Undelivered(job) \subseteq BlocksOf(job)
  BY BlocksCounted, FS_Subset DEF Undelivered

(* Slot groups are counted from 0, and there is one.                       *)
LEMMA GroupsAreCounted ==
  ASSUME directions \in {{"load"}, {"store"}, {"load", "store"}}
  PROVE  SlotGroups \subseteq Nat /\ 0 \in SlotGroups
<1> DEFINE pairs == directions \X Indices
           f == [p \in pairs |-> [direction |-> p[1], index |-> p[2]]]
<1>1. IsFiniteSet(RunJobs)
  <2>1. IsFiniteSet(directions)
    <3>1. {"load", "store"} = {"load"} \cup {"store"}
      OBVIOUS
    <3>2. IsFiniteSet({"load"}) /\ IsFiniteSet({"store"})
      BY FS_Singleton
    <3>3. IsFiniteSet({"load"} \cup {"store"})
      BY <3>2, FS_Union
    <3>4. IsFiniteSet({"load", "store"})
      BY <3>1, <3>3
    <3> QED BY <3>2, <3>4
  <2>2. IsFiniteSet(Indices)
    BY Options, FS_Interval DEF Indices
  <2>3. IsFiniteSet(pairs)
    BY <2>1, <2>2, FS_Product
  <2>4. f \in [pairs -> RunJobs]
    BY DEF RunJobs
  <2>5. ASSUME NEW job \in RunJobs PROVE \E p \in pairs : f[p] = job
    <3>1. <<job.direction, job.index>> \in pairs
      BY DEF RunJobs
    <3>2. f[<<job.direction, job.index>>] = job
      BY <3>1 DEF RunJobs
    <3> QED BY <3>1, <3>2
  <2>6. f \in Surjection(pairs, RunJobs)
    BY <2>4, <2>5 DEF Surjection
  <2> QED BY <2>3, <2>6, FS_Surjection
<1>2. Cardinality(RunJobs) \in Nat /\ Cardinality(RunJobs) # 0
  <2>1. PICK d \in directions : TRUE
    OBVIOUS
  <2>2. [direction |-> d, index |-> 0] \in RunJobs
    BY Options DEF RunJobs, Indices
  <2> QED BY <1>1, <2>2, FS_CardinalityType, FS_EmptySet
<1> QED BY <1>2, Options DEF SlotGroups

(* The start.                                                              *)
LEMMA InitEstablishes ==
  ASSUME Init
  PROVE  BenchInv
<1>1. directions \in {{"load"}, {"store"}, {"load", "store"}}
  BY DEF Init
<1>2. /\ status = [b \in Block |-> "new"] /\ started = {} /\ freeGroups = SlotGroups
      /\ jobGroup = [job \in RunJobs |-> 0] /\ remaining = [job \in RunJobs |-> BlocksPerJob]
      /\ phase \in {"seed", "test"} /\ program \in Programs
  BY DEF Init, Engine!Init
<1>3. BenchTypeOK
  BY <1>1, <1>2, GroupsAreCounted, Options, BenchmarkAssumption DEF BenchTypeOK, Phases
<1>4. SeedInv
  BY <1>2 DEF SeedInv
<1>5. ScheduleInv
  BY <1>2 DEF ScheduleInv
<1>6. RemainingInv
  <2>1. ASSUME NEW job \in RunJobs
        PROVE  remaining[job] = Cardinality(Undelivered(job)) /\ remaining[job] # 0
    <3>1. Undelivered(job) = BlocksOf(job)
      BY <1>2 DEF Undelivered, BlocksOf
    <3> QED BY <1>1, <1>2, <3>1, RunJobsAreJobs, BlocksCounted, Options
  <2> QED BY <2>1 DEF RemainingInv
<1>7. GroupsInv
  BY <1>2 DEF GroupsInv, Running
<1> QED BY <1>3, <1>4, <1>5, <1>6, <1>7 DEF BenchInv

(* A step that starts no job and delivers no block of one.                 *)
LEMMA StatusStep ==
  ASSUME BenchInv, UNCHANGED <<program, directions, started, freeGroups, jobGroup, remaining>>,
         status' \in [Block -> Statuses], phase' \in Phases,
         phase' = "submit" => phase = "submit",
         \A t \in Block : t.job \in RunJobs =>
           (status'[t] = "delivered" <=> status[t] = "delivered"),
         SeedInv'
  PROVE  BenchInv'
<1>0. UNCHANGED directions
  OBVIOUS
<1>1. RunJobs' = RunJobs /\ SlotGroups' = SlotGroups /\ Waiting' = Waiting
  BY <1>0, SameRun DEF Waiting
<1>2. BenchTypeOK'
  BY <1>1 DEF BenchInv, BenchTypeOK, Statuses
<1>3. ScheduleInv'
  <2>1. \A a, b : Before(a, b)' = Before(a, b)
    BY <1>0, SameRun
  <2>2. CurrentJob' = CurrentJob
    BY <2>1 DEF CurrentJob
  <2> QED BY <1>1, <2>1, <2>2 DEF BenchInv, ScheduleInv
<1>4. RemainingInv'
  <2>1. \A job \in RunJobs : Undelivered(job)' = Undelivered(job)
    BY DEF Undelivered, BlocksOf
  <2> QED BY <1>1, <2>1 DEF BenchInv, RemainingInv
<1>5. GroupsInv'
  BY DEF BenchInv, GroupsInv, Running
<1> QED BY <1>2, <1>3, <1>4, <1>5 DEF BenchInv

(* A step that takes the next job from the schedule.                       *)
LEMMA StartStep ==
  ASSUME BenchInv, CanSubmit, TakeGroup, UNCHANGED <<program, directions, remaining>>,
         phase # "seed", phase' \in {"test", "submit"},
         status' \in [Block -> Statuses],
         \A t \in Block :
           /\ status'[t] = "delivered" <=> status[t] = "delivered"
           /\ status'[t] # status[t] => t.job = NextJob
  PROVE  BenchInv'
<1>0. UNCHANGED directions /\ directions \in {{"load"}, {"store"}, {"load", "store"}}
  BY DEF BenchInv, BenchTypeOK
<1>1. RunJobs' = RunJobs /\ SlotGroups' = SlotGroups
  BY <1>0, SameRun
<1>2. /\ NextJob \in Waiting
      /\ \A other \in Waiting \ {NextJob} : Before(NextJob, other)
  BY <1>0, NextJobIsFirst DEF CanSubmit
<1>3. NextJob \in RunJobs /\ NextJob \notin started
  BY <1>2 DEF Waiting
<1>4. NextJob.direction # "seed"
  BY <1>0, <1>3, RunJobsAreJobs
<1>5. PICK group \in freeGroups : /\ freeGroups' = freeGroups \ {group}
                                  /\ jobGroup' = [jobGroup EXCEPT ![NextJob] = group]
  BY DEF TakeGroup
<1>6. started' = started \cup {NextJob}
  BY DEF TakeGroup
<1>7. BenchTypeOK'
  <2>1. started' \subseteq RunJobs /\ freeGroups' \subseteq SlotGroups
    BY <1>3, <1>5, <1>6 DEF BenchInv, BenchTypeOK
  <2>2. jobGroup' \in [RunJobs -> SlotGroups]
    BY <1>5 DEF BenchInv, BenchTypeOK
  <2> QED BY <1>1, <2>1, <2>2 DEF BenchInv, BenchTypeOK, Statuses, Phases
<1>8. SeedInv'
  <2>1. phase' # "seed"
    OBVIOUS
  <2>2. ASSUME NEW b \in Block
        PROVE  /\ ~(status'[b] = "owed" /\ b.job.direction = "seed")
               /\ status'[b] # "new" /\ b.job.direction # "seed" => b.job \in started'
    BY <1>4, <1>6 DEF BenchInv, SeedInv
  <2> QED BY <2>1, <2>2 DEF SeedInv
<1>9. ScheduleInv'
  <2>1. \A a, b : Before(a, b)' = Before(a, b)
    BY <1>0, SameRun
  <2>2. Waiting' = Waiting \ {NextJob}
    BY <1>1, <1>6 DEF Waiting
  <2>3. \A job \in started', next \in Waiting' : Before(job, next)'
    BY <1>2, <1>6, <2>1, <2>2 DEF BenchInv, ScheduleInv
  <2>4. PICK last \in started' : last = NextJob
    BY <1>6
  <2>5. \A other \in started' \ {last} : Before(other, last)'
    BY <1>2, <1>6, <2>1, <2>4 DEF BenchInv, ScheduleInv
  <2>6. CurrentJob' \in started'
    BY <2>5 DEF CurrentJob
  <2> QED BY <2>3, <2>6 DEF ScheduleInv
<1>10. RemainingInv'
  <2>1. \A job \in RunJobs : Undelivered(job)' = Undelivered(job)
    BY DEF Undelivered, BlocksOf
  <2> QED BY <1>1, <2>1 DEF BenchInv, RemainingInv
<1>11. GroupsInv'
  <2>1. Running' \subseteq Running \cup {NextJob} /\ Running \subseteq RunJobs
    BY <1>6 DEF Running, BenchInv, BenchTypeOK
  <2>2. \A job \in Running : jobGroup'[job] = jobGroup[job] /\ job # NextJob
    BY <1>3, <1>5, <2>1 DEF Running, BenchInv, BenchTypeOK
  <2>3. jobGroup'[NextJob] = group
    BY <1>3, <1>5 DEF BenchInv, BenchTypeOK
  <2>4. \A job \in Running : jobGroup[job] \notin freeGroups /\ jobGroup[job] # group
    BY DEF BenchInv, GroupsInv
  <2>5. \A job \in Running' : jobGroup'[job] \notin freeGroups'
    BY <1>5, <2>1, <2>2, <2>3, <2>4
  <2>6. \A job, other \in Running' : jobGroup'[job] = jobGroup'[other] => job = other
    <3>1. \A job, other \in Running : jobGroup[job] = jobGroup[other] => job = other
      BY DEF BenchInv, GroupsInv
    <3> QED BY <2>1, <2>2, <2>3, <2>4, <3>1
  <2> QED BY <2>5, <2>6 DEF GroupsInv
<1> QED BY <1>7, <1>8, <1>9, <1>10, <1>11 DEF BenchInv

--------------------------------------------------------------------------------
(* The seed, the engine and the clock                                      *)

(* A block that was submitted is owed, or refused and ready.               *)
LEMMA SubmitEffect ==
  ASSUME BenchInv, NEW b, SubmitBlock(b)
  PROVE  /\ b \in Block /\ status[b] = "new"
         /\ status' \in [Block -> Statuses] /\ status'[b] \in {"owed", "ready"}
         /\ \A t \in Block : t # b => status'[t] = status[t]
<1>1. PICK refused \in SUBSET {b} : Engine!Submit({b}, refused)
  BY DEF SubmitBlock
<1>2. b \in Block /\ status[b] = "new"
  BY <1>1 DEF Engine!Submit, Engine!In
<1>3. status' = [t \in Block |-> IF t \in refused THEN "ready"
                                 ELSE IF t \in {b} THEN "owed" ELSE status[t]]
  BY <1>1 DEF Engine!Submit
<1> QED BY <1>2, <1>3 DEF BenchInv, BenchTypeOK, Statuses

(* A job that was enqueued has every block owed.                           *)
LEMMA EnqueueEffect ==
  ASSUME BenchInv, NEW job, Enqueue(job)
  PROVE  /\ status' \in [Block -> Statuses]
         /\ \A t \in Block : t.job = job => status[t] = "new" /\ status'[t] = "owed"
         /\ \A t \in Block : t.job # job => status'[t] = status[t]
<1>1. BlocksOf(job) \subseteq Engine!In("new")
  BY DEF Enqueue, Engine!Submit
<1>2. status' = [t \in Block |-> IF t \in {} THEN "ready"
                                 ELSE IF t \in BlocksOf(job) THEN "owed" ELSE status[t]]
  BY DEF Enqueue, Engine!Submit
<1> QED BY <1>1, <1>2 DEF BenchInv, BenchTypeOK, Statuses, BlocksOf, Engine!In

(* Seed jobs are none of the jobs of the run.                              *)
LEMMA SeedsApart ==
  ASSUME BenchInv
  PROVE  \A t \in Block : t.job.direction = "seed" => t.job \notin RunJobs
  BY RunJobsAreJobs DEF BenchInv, BenchTypeOK

LEMMA SeedSubmitStep ==
  ASSUME BenchInv, SeedSubmit
  PROVE  BenchInv'
<1> DEFINE block == [job |-> SeedJob(sent \div BlocksPerJob), number |-> sent % BlocksPerJob]
<1>1. /\ phase = "seed" /\ SubmitBlock(block)
      /\ UNCHANGED <<program, directions, phase, started, freeGroups, jobGroup, remaining>>
  BY DEF SeedSubmit
<1>2. block.job.direction = "seed"
  BY DEF SeedJob
<1> HIDE DEF block
<1>3. /\ block \in Block /\ status' \in [Block -> Statuses]
      /\ \A t \in Block : t # block => status'[t] = status[t]
  BY <1>1, SubmitEffect
<1>4. SeedInv'
  BY <1>1, <1>2, <1>3 DEF BenchInv, SeedInv
<1>5. \A t \in Block : t.job \in RunJobs => status'[t] = status[t]
  BY <1>2, <1>3, SeedsApart
<1>6. phase \in Phases
  BY DEF BenchInv, BenchTypeOK
<1> QED BY <1>1, <1>3, <1>4, <1>5, <1>6, StatusStep

LEMMA SeedEnqueueStep ==
  ASSUME BenchInv, SeedEnqueue
  PROVE  BenchInv'
<1> DEFINE job == SeedJob(sent \div BlocksPerJob)
<1>1. /\ phase = "seed" /\ Enqueue(job)
      /\ UNCHANGED <<program, directions, phase, started, freeGroups, jobGroup, remaining>>
  BY DEF SeedEnqueue
<1>2. job.direction = "seed"
  BY DEF SeedJob
<1> HIDE DEF job
<1>3. /\ status' \in [Block -> Statuses]
      /\ \A t \in Block : t.job # job => status'[t] = status[t]
  BY <1>1, EnqueueEffect
<1>4. SeedInv'
  BY <1>1, <1>2, <1>3 DEF BenchInv, SeedInv
<1>5. \A t \in Block : t.job \in RunJobs => status'[t] = status[t]
  BY <1>2, <1>3, SeedsApart
<1>6. phase \in Phases
  BY DEF BenchInv, BenchTypeOK
<1> QED BY <1>1, <1>3, <1>4, <1>5, <1>6, StatusStep

(* The seed ends when nothing of it is owed; blocks of jobs are still new. *)
LEMMA SeedEnds ==
  ASSUME BenchInv, phase = "seed", Owed = {},
         UNCHANGED <<program, directions, started, freeGroups, jobGroup, remaining>>,
         phase' \in {"test", "raised"}, status' \in [Block -> Statuses],
         \A t \in Block : status'[t] # status[t] => status[t] = "ready" /\ status'[t] = "delivered"
  PROVE  BenchInv'
<1>1. \A t \in Block : t.job.direction # "seed" => status[t] = "new"
  BY DEF BenchInv, SeedInv
<1>2. \A t \in Block : status[t] # "owed"
  BY DEF Owed, Engine!In
<1>3. SeedInv'
  BY <1>1, <1>2 DEF BenchInv, SeedInv
<1>4. \A t \in Block : t.job \in RunJobs => status'[t] = status[t]
  BY <1>1, SeedsApart
<1> QED BY <1>3, <1>4, StatusStep DEF Phases

LEMMA SeedDrainStep ==
  ASSUME BenchInv, SeedDrain
  PROVE  BenchInv'
<1>1. status' = [t \in Block |-> IF status[t] = "ready" THEN "delivered" ELSE status[t]]
  BY DEF SeedDrain, Engine!Poll, Engine!Handed
<1>2. status' \in [Block -> Statuses]
  BY <1>1 DEF BenchInv, BenchTypeOK, Statuses
<1>3. phase' \in {"test", "raised"}
  BY DEF SeedDrain, SeedVerdict
<1> QED BY <1>1, <1>2, <1>3, SeedEnds DEF SeedDrain

LEMMA SeedWaitStep ==
  ASSUME BenchInv, SeedWait
  PROVE  BenchInv'
<1>1. status' = [t \in Block |-> IF t.job \in Finished THEN "delivered" ELSE status[t]]
  BY DEF SeedWait, Hand
<1>2. \A t \in Block : t.job \in Finished => status[t] = "ready"
  BY DEF Finished, BlocksOf, Ready, Engine!In
<1>3. status' \in [Block -> Statuses]
  BY <1>1 DEF BenchInv, BenchTypeOK, Statuses
<1>4. phase' \in {"test", "raised"}
  BY DEF SeedWait, SeedCheck
<1> QED BY <1>1, <1>2, <1>3, <1>4, SeedEnds DEF SeedWait

(* A transfer ends, and the driver does not move.                          *)
LEMMA CompleteStep ==
  ASSUME BenchInv, NEW b \in Owed, NEW ok \in BOOLEAN, Engine!Complete(b, ok),
         UNCHANGED <<program, directions, driver>>
  PROVE  BenchInv'
<1>1. b \in Block /\ status[b] = "owed" /\ status' = [status EXCEPT ![b] = "ready"]
  BY DEF Owed, Engine!In, Engine!Complete
<1>2. status' \in [Block -> Statuses]
  BY <1>1 DEF BenchInv, BenchTypeOK, Statuses
<1>3. \A t \in Block : /\ status'[t] = "delivered" <=> status[t] = "delivered"
                       /\ status'[t] = "owed" => status[t] = "owed"
                       /\ status'[t] # "new" => status[t] # "new"
  BY <1>1 DEF BenchInv, BenchTypeOK
<1>4. UNCHANGED <<phase, started, freeGroups, jobGroup, remaining>> /\ phase \in Phases
  BY DEF driver, BenchInv, BenchTypeOK
<1>5. SeedInv'
  BY <1>3, <1>4 DEF BenchInv, SeedInv
<1> QED BY <1>2, <1>3, <1>4, <1>5, StatusStep

(* Nothing moves but the driver's place in its loop, or the clock.         *)
LEMMA PlaceStep ==
  ASSUME BenchInv,
         UNCHANGED <<program, directions, started, freeGroups, jobGroup, remaining, status>>,
         phase' \in Phases, phase' = "submit" => phase = "submit",
         phase' = "seed" <=> phase = "seed"
  PROVE  BenchInv'
<1>1. SeedInv'
  BY DEF BenchInv, SeedInv
<1>2. status' \in [Block -> Statuses]
  BY DEF BenchInv, BenchTypeOK, Statuses
<1> QED BY <1>1, <1>2, StatusStep

--------------------------------------------------------------------------------
(* The jobs                                                                *)

LEMMA StartJobStep ==
  ASSUME BenchInv, StartJob
  PROVE  BenchInv'
<1>1. /\ CanSubmit /\ TakeGroup /\ phase = "test" /\ phase' = "submit"
      /\ UNCHANGED <<program, directions, remaining, status>>
  BY DEF StartJob, engine
<1>2. status' \in [Block -> Statuses]
  BY <1>1 DEF BenchInv, BenchTypeOK, Statuses
<1> QED BY <1>1, <1>2, StartStep

LEMMA EnqueueNextStep ==
  ASSUME BenchInv, EnqueueNext
  PROVE  BenchInv'
<1>1. /\ CanSubmit /\ TakeGroup /\ phase = "test" /\ phase' = "test" /\ Enqueue(NextJob)
      /\ UNCHANGED <<program, directions, remaining>>
  BY DEF EnqueueNext
<1>2. status' \in [Block -> Statuses]
  BY <1>1, EnqueueEffect
<1>3. \A t \in Block : /\ status'[t] = "delivered" <=> status[t] = "delivered"
                       /\ status'[t] # status[t] => t.job = NextJob
  BY <1>1, EnqueueEffect
<1> QED BY <1>1, <1>2, <1>3, StartStep

LEMMA SubmitNextStep ==
  ASSUME BenchInv, SubmitNext
  PROVE  BenchInv'
<1> DEFINE block == [job |-> CurrentJob, number |-> sent]
<1>1. /\ phase = "submit" /\ SubmitBlock(block) /\ phase' \in {"test", "submit"}
      /\ UNCHANGED <<program, directions, started, freeGroups, jobGroup, remaining>>
  BY DEF SubmitNext
<1>2. block.job \in started
  BY <1>1 DEF BenchInv, ScheduleInv
<1>3. block.job.direction # "seed"
  BY <1>2, RunJobsAreJobs DEF BenchInv, BenchTypeOK
<1> HIDE DEF block
<1>4. /\ block \in Block /\ status[block] = "new"
      /\ status' \in [Block -> Statuses] /\ status'[block] \in {"owed", "ready"}
      /\ \A t \in Block : t # block => status'[t] = status[t]
  BY <1>1, SubmitEffect
<1>5. SeedInv'
  BY <1>1, <1>2, <1>3, <1>4 DEF BenchInv, SeedInv
<1>6. \A t \in Block : status'[t] = "delivered" <=> status[t] = "delivered"
  BY <1>4
<1> QED BY <1>1, <1>4, <1>5, <1>6, StatusStep DEF Phases

(* A round of polling gives back the groups of jobs that have no block     *)
(* left, which ran until now: the groups of the others stay taken.         *)
LEMMA PollRound ==
  ASSUME BenchInv, phase = "poll", phase' \in {"raised", "end", "test"},
         UNCHANGED <<program, directions, started, jobGroup>>,
         remaining' \in [RunJobs -> 0 .. BlocksPerJob],
         NEW ended, ended \subseteq Running,
         freeGroups' = freeGroups \cup {jobGroup[job] : job \in ended},
         \A job \in RunJobs : remaining'[job] # 0 => remaining[job] # 0 /\ job \notin ended,
         status' \in [Block -> Statuses],
         \A t \in Block : status'[t] # status[t] => status[t] = "ready" /\ status'[t] = "delivered",
         RemainingInv'
  PROVE  BenchInv'
<1>0. UNCHANGED directions
  OBVIOUS
<1>1. RunJobs' = RunJobs /\ SlotGroups' = SlotGroups /\ Waiting' = Waiting
  BY <1>0, SameRun DEF Waiting
<1>2. Running' \subseteq Running /\ Running \subseteq RunJobs /\ Running' \cap ended = {}
  BY DEF Running, BenchInv, BenchTypeOK
<1>3. BenchTypeOK'
  <2>1. freeGroups' \subseteq SlotGroups
    BY <1>2 DEF BenchInv, BenchTypeOK
  <2> QED BY <1>1, <2>1 DEF BenchInv, BenchTypeOK, Statuses, Phases
<1>4. SeedInv'
  BY DEF BenchInv, SeedInv
<1>5. ScheduleInv'
  <2>1. \A a, b : Before(a, b)' = Before(a, b)
    BY <1>0, SameRun
  <2> QED BY <1>1, <2>1 DEF BenchInv, ScheduleInv
<1>6. GroupsInv'
  <2>1. \A job, other \in Running : jobGroup[job] = jobGroup[other] => job = other
    BY DEF BenchInv, GroupsInv
  <2>2. \A job \in Running : jobGroup[job] \notin freeGroups
    BY DEF BenchInv, GroupsInv
  <2>3. \A job \in Running' : jobGroup[job] \notin freeGroups'
    BY <1>2, <2>1, <2>2
  <2> QED BY <1>2, <2>1, <2>3 DEF GroupsInv
<1> QED BY <1>3, <1>4, <1>5, <1>6 DEF BenchInv

(* A job with a block that waits to be collected runs.                     *)
LEMMA ReadyJobsRun ==
  ASSUME BenchInv, NEW b \in Ready, b.job \in RunJobs
  PROVE  b.job \in Running
<1>1. b \in Block /\ status[b] = "ready"
  BY DEF Ready, Engine!In
<1>2. b.job.direction # "seed"
  BY RunJobsAreJobs DEF BenchInv, BenchTypeOK
<1>3. b.job \in started
  BY <1>1, <1>2 DEF BenchInv, SeedInv
<1>4. b \in Undelivered(b.job)
  BY <1>1 DEF Undelivered, BlocksOf
<1>5. remaining[b.job] # 0
  BY <1>4 DEF BenchInv, RemainingInv
<1> QED BY <1>3, <1>5 DEF Running

LEMMA PollStep ==
  ASSUME BenchInv, Poll
  PROVE  BenchInv'
<1>1. status' = [t \in Block |-> IF status[t] = "ready" THEN "delivered" ELSE status[t]]
  <2>1. CASE Engine!Poll
    BY <2>1 DEF Engine!Poll, Engine!Handed
  <2>2. CASE Ready = {} /\ UNCHANGED engine
    BY <2>2 DEF Ready, Engine!In, engine, BenchInv, BenchTypeOK
  <2> QED BY <2>1, <2>2 DEF Poll
<1>2. /\ program = "m4" /\ phase = "poll" /\ phase' \in {"raised", "end", "test"}
      /\ UNCHANGED <<program, directions, started, jobGroup>>
      /\ remaining' = [job \in RunJobs |-> remaining[job] - CompletionsOf(job)]
      /\ freeGroups' = freeGroups \cup {jobGroup[job] : job \in Ending}
  BY DEF Poll
<1>3. RunJobs' = RunJobs /\ RunJobs \subseteq Job
  BY <1>2, SameRun, RunJobsAreJobs DEF BenchInv, BenchTypeOK
<1> DEFINE arrived(job) == {b \in Ready : b.job = job}
<1>4. ASSUME NEW job \in RunJobs
      PROVE  /\ remaining'[job] = Cardinality(Undelivered(job)')
             /\ remaining'[job] \in 0 .. BlocksPerJob
             /\ remaining'[job] = 0 => Undelivered(job)' = {}
             /\ remaining'[job] # 0 => remaining[job] # 0
             /\ CompletionsOf(job) > 0 => job \in Running
  <2>1. /\ IsFiniteSet(Undelivered(job)) /\ Undelivered(job) \subseteq BlocksOf(job)
        /\ IsFiniteSet(BlocksOf(job)) /\ Cardinality(BlocksOf(job)) = BlocksPerJob
    BY <1>3, UndeliveredFinite, BlocksCounted
  <2>2. arrived(job) = Undelivered(job) \cap arrived(job)
    BY DEF Undelivered, BlocksOf, Ready, Engine!In
  <2>3. Undelivered(job)' = Undelivered(job) \ arrived(job)
    BY <1>1 DEF Undelivered, BlocksOf, Ready, Engine!In
  <2>4. CompletionsOf(job) = Cardinality(arrived(job))
    BY DEF CompletionsOf
  <2>5. CompletionsOf(job) > 0 => arrived(job) # {}
    BY <2>4, FS_EmptySet
  <2>6. CompletionsOf(job) > 0 => job \in Running
    BY <2>5, ReadyJobsRun
  <2> DEFINE left == Undelivered(job) \ arrived(job)
             came == arrived(job)
             owing == Undelivered(job)
  <2>7. /\ IsFiniteSet(left) /\ Cardinality(left) = Cardinality(owing) - Cardinality(came)
    BY <2>1, <2>2, FS_Difference
  <2>8. IsFiniteSet(came)
    BY <2>1, <2>2, FS_Intersection
  <2>9. Cardinality(left) \in Nat /\ Cardinality(came) \in Nat /\ Cardinality(owing) \in Nat
    BY <2>1, <2>7, <2>8, FS_CardinalityType
  <2>10. Cardinality(owing) <= BlocksPerJob
    BY <2>1, FS_Subset
  <2>11. Cardinality(left) = 0 => left = {}
    BY <2>7, FS_EmptySet
  <2>12. remaining[job] = Cardinality(owing)
    BY <1>2 DEF BenchInv, RemainingInv
  <2>13. remaining'[job] = Cardinality(owing) - Cardinality(came)
    BY <1>2, <2>4, <2>12
  <2> HIDE DEF left, came, owing, arrived
  <2>14. /\ remaining'[job] = Cardinality(left) /\ remaining'[job] \in 0 .. BlocksPerJob
         /\ remaining'[job] # 0 => remaining[job] # 0
    BY <2>7, <2>9, <2>10, <2>12, <2>13, Options
  <2>15. Undelivered(job)' = left
    BY <2>3 DEF left
  <2> QED BY <2>6, <2>11, <2>14, <2>15
<1>5. RemainingInv'
  BY <1>3, <1>4 DEF RemainingInv
<1>6. remaining' \in [RunJobs -> 0 .. BlocksPerJob]
  BY <1>2, <1>4
<1>7. Ending \subseteq Running /\ \A job \in Ending : remaining'[job] = 0
  BY <1>4 DEF Ending
<1>8. \A job \in RunJobs : remaining'[job] # 0 => remaining[job] # 0 /\ job \notin Ending
  BY <1>4, <1>7
<1>9. /\ status' \in [Block -> Statuses]
      /\ \A t \in Block : status'[t] # status[t] => status[t] = "ready" /\ status'[t] = "delivered"
  BY <1>1 DEF BenchInv, BenchTypeOK, Statuses
<1> QED BY <1>2, <1>5, <1>6, <1>7, <1>8, <1>9, PollRound

LEMMA PollJobsStep ==
  ASSUME BenchInv, PollJobs
  PROVE  BenchInv'
<1>1. status' = [t \in Block |-> IF t.job \in Finished THEN "delivered" ELSE status[t]]
  BY DEF PollJobs, Hand
<1>2. /\ program # "m4" /\ phase = "poll" /\ phase' \in {"raised", "end", "test"}
      /\ UNCHANGED <<program, directions, started, jobGroup>>
      /\ remaining' = [job \in RunJobs |-> IF job \in Finished THEN 0 ELSE remaining[job]]
      /\ freeGroups' = freeGroups \cup {jobGroup[job] : job \in Finished \cap started}
  BY DEF PollJobs
<1>3. RunJobs' = RunJobs /\ started \subseteq RunJobs
  BY <1>2, SameRun DEF BenchInv, BenchTypeOK
<1>4. \A t \in Block : t.job \in Finished => status[t] = "ready"
  BY DEF Finished, BlocksOf, Ready, Engine!In
<1>5. Finished \cap started \subseteq Running
  <2> SUFFICES ASSUME NEW job \in Finished \cap started PROVE job \in Running
    OBVIOUS
  <2>1. [job |-> job, number |-> 0] \in BlocksOf(job)
    BY Options DEF Finished, BlocksOf, Block
  <2>2. [job |-> job, number |-> 0] \in Ready
    BY <2>1 DEF Finished
  <2> QED BY <1>3, <2>2, ReadyJobsRun
<1>6. RemainingInv'
  <2> SUFFICES ASSUME NEW job \in RunJobs, remaining'[job] = 0
               PROVE  Undelivered(job)' = {}
    BY <1>2, <1>3 DEF RemainingInv
  <2>1. CASE job \in Finished
    BY <1>1, <2>1 DEF Undelivered, BlocksOf
  <2>2. CASE job \notin Finished
    <3>1. Undelivered(job) = {}
      BY <1>2, <2>2 DEF BenchInv, RemainingInv
    <3> QED BY <1>1, <3>1 DEF Undelivered, BlocksOf
  <2> QED BY <2>1, <2>2
<1>7. remaining' \in [RunJobs -> 0 .. BlocksPerJob]
  BY <1>2, Options DEF BenchInv, BenchTypeOK
<1>8. \A job \in RunJobs :
        remaining'[job] # 0 => remaining[job] # 0 /\ job \notin Finished \cap started
  BY <1>2
<1>9. /\ status' \in [Block -> Statuses]
      /\ \A t \in Block : status'[t] # status[t] => status[t] = "ready" /\ status'[t] = "delivered"
  BY <1>1, <1>4 DEF BenchInv, BenchTypeOK, Statuses
<1> QED BY <1>2, <1>5, <1>6, <1>7, <1>8, <1>9, PollRound

--------------------------------------------------------------------------------
(* What holds of every run                                                 *)

(* Every step of a driver, of what transfers its blocks and of the clock   *)
(* keeps the invariant.                                                    *)
LEMMA StepKeeps ==
  ASSUME BenchInv, [Next]_vars
  PROVE  BenchInv'
<1>0. phase \in Phases
  BY DEF BenchInv, BenchTypeOK
<1>1. CASE SeedSubmit
  BY <1>1, SeedSubmitStep
<1>2. CASE SeedEnqueue
  BY <1>2, SeedEnqueueStep
<1>3. CASE SeedDrain
  BY <1>3, SeedDrainStep
<1>4. CASE SeedWait
  BY <1>4, SeedWaitStep
<1>5. CASE StartJob
  BY <1>5, StartJobStep
<1>6. CASE SubmitNext
  BY <1>6, SubmitNextStep
<1>7. CASE EnqueueNext
  BY <1>7, EnqueueNextStep
<1>8. CASE StopSubmitting
  BY <1>0, <1>8, PlaceStep DEF StopSubmitting, engine, Phases
<1>9. CASE Poll
  BY <1>9, PollStep
<1>10. CASE PollJobs
  BY <1>10, PollJobsStep
<1>11. CASE Finish
  <2>1. phase' \in {"failed", "reported"} /\ phase \in {"raised", "end"}
    BY <1>11 DEF Finish, RunVerdict
  <2>2. UNCHANGED <<program, directions, started, freeGroups, jobGroup, remaining, status>>
    BY <1>11 DEF Finish, Engine!Close
  <2> QED BY <2>1, <2>2, PlaceStep DEF Phases
<1>12. CASE \E b \in Owed, ok \in BOOLEAN : EngineCompletes(b, ok)
  BY <1>12, CompleteStep DEF EngineCompletes
<1>13. CASE \E b \in Owed, ok \in BOOLEAN : WorkerEnds(b, ok)
  BY <1>13, CompleteStep DEF WorkerEnds
<1>14. CASE Tick
  BY <1>0, <1>14, PlaceStep DEF Tick, driver, engine
<1>15. CASE UNCHANGED vars
  BY <1>0, <1>15, PlaceStep DEF vars, driver, engine
<1> QED
  BY <1>1, <1>2, <1>3, <1>4, <1>5, <1>6, <1>7, <1>8, <1>9, <1>10, <1>11, <1>12, <1>13,
     <1>14, <1>15 DEF Next, Driver, Environment, Ended

(* The schedule is taken in order, blocks are counted, and a job that runs *)
(* has a group of primary slots for itself, in either driver.              *)
THEOREM BenchInvariance == Spec => []BenchInv
<1>1. Init => BenchInv
  BY InitEstablishes
<1>2. BenchInv /\ [Next]_vars => BenchInv'
  BY StepKeeps
<1> QED BY <1>1, <1>2, PTL DEF Spec

(* Places counted by quotient and remainder are the same only when both    *)
(* are.                                                                    *)
LEMMA PlacesDiffer ==
  ASSUME NEW m \in Nat, NEW n \in Nat,
         NEW i \in 0 .. (BlocksPerJob - 1), NEW j \in 0 .. (BlocksPerJob - 1),
         m * BlocksPerJob + i = n * BlocksPerJob + j
  PROVE  m = n /\ i = j
<1>1. /\ BlocksPerJob * m + i = BlocksPerJob * n + j
      /\ BlocksPerJob \in Nat /\ BlocksPerJob # 0
  BY Options
<1>2. (BlocksPerJob * m + i) % BlocksPerJob = i /\ (BlocksPerJob * n + j) % BlocksPerJob = j
  BY <1>1, RemainderUnique
<1>3. i = j
  BY <1>1, <1>2
<1>4. m < n => BlocksPerJob * m + BlocksPerJob <= BlocksPerJob * n
  BY <1>1, SMT
<1>5. n < m => BlocksPerJob * n + BlocksPerJob <= BlocksPerJob * m
  BY <1>1, SMT
<1>6. BlocksPerJob * m \in Nat /\ BlocksPerJob * n \in Nat
  BY <1>1, SMT
<1>7. m = n
  BY <1>1, <1>3, <1>4, <1>5, <1>6
<1> QED BY <1>3, <1>7

(* Stores of a mixed run write above every block that its loads read.      *)
LEMMA LoadsBelowStores ==
  ASSUME NEW i \in Indices, NEW k \in Indices,
         NEW m \in 0 .. (BlocksPerJob - 1), NEW n \in 0 .. (BlocksPerJob - 1)
  PROVE  0 + i * BlocksPerJob + m # Jobs * BlocksPerJob + k * BlocksPerJob + n
<1>1. i \in Nat /\ k \in Nat /\ i + 1 <= Jobs /\ BlocksPerJob \in Nat /\ Jobs \in Nat
  BY Options DEF Indices
<1>2. (i + 1) * BlocksPerJob <= Jobs * BlocksPerJob
  BY <1>1, SMT
<1>3. /\ (i + 1) * BlocksPerJob = i * BlocksPerJob + BlocksPerJob
      /\ i * BlocksPerJob \in Nat /\ Jobs * BlocksPerJob \in Nat /\ k * BlocksPerJob \in Nat
  BY <1>1, SMT
<1> QED BY <1>1, <1>2, <1>3

(* Two blocks under way never have one place in the slab, or one file.     *)
LEMMA PlacesOfBlocksDiffer ==
  ASSUME BenchInv, NEW a \in Owed, NEW b \in Owed, a # b
  PROVE  SecondaryPlace(a) # SecondaryPlace(b)
<1>1. /\ a \in Block /\ status[a] = "owed" /\ b \in Block /\ status[b] = "owed"
      /\ directions \in {{"load"}, {"store"}, {"load", "store"}}
  BY DEF Owed, Engine!In, BenchInv, BenchTypeOK
<1>2. /\ a.job.index \in Indices /\ b.job.index \in Indices
      /\ a.number \in 0 .. (BlocksPerJob - 1) /\ b.number \in 0 .. (BlocksPerJob - 1)
      /\ a.job.index \in Nat /\ b.job.index \in Nat
      /\ a = [job |-> [direction |-> a.job.direction, index |-> a.job.index], number |-> a.number]
      /\ b = [job |-> [direction |-> b.job.direction, index |-> b.job.index], number |-> b.number]
  BY <1>1, Options DEF Block, Job, Indices
<1>3. \/ a.job.direction = "seed" /\ b.job.direction = "seed"
      \/ a.job.direction \in directions /\ b.job.direction \in directions
  BY <1>1, RunJobsAreJobs DEF BenchInv, BenchTypeOK, SeedInv
<1>4. CASE program = "m0"
  <2>1. SecondaryPlace(a) = <<SeedFor(a.job), a.job.index, a.number>>
        /\ SecondaryPlace(b) = <<SeedFor(b.job), b.job.index, b.number>>
    BY <1>4 DEF SecondaryPlace
  <2>2. SeedFor(a.job) = SeedFor(b.job) => a.job.direction = b.job.direction
    BY <1>1, <1>3 DEF SeedFor
  <2> QED BY <1>2, <2>1, <2>2
<1>5. CASE program # "m0"
  <2>1. /\ SecondaryPlace(a) =
             DirectionBase(a.job.direction) + a.job.index * BlocksPerJob + a.number
        /\ SecondaryPlace(b) =
             DirectionBase(b.job.direction) + b.job.index * BlocksPerJob + b.number
    BY <1>5 DEF SecondaryPlace, SecondarySlot
  <2>2. CASE a.job.direction = b.job.direction
    <3> DEFINE base == DirectionBase(a.job.direction)
    <3>1. base \in Nat
      BY Options, SMT DEF DirectionBase
    <3>2. a.job.index # b.job.index \/ a.number # b.number
      BY <1>2, <2>2
    <3>3. a.job.index * BlocksPerJob + a.number # b.job.index * BlocksPerJob + b.number
      BY <1>2, <3>2, PlacesDiffer
    <3>4. a.job.index * BlocksPerJob \in Nat /\ b.job.index * BlocksPerJob \in Nat
      BY <1>2, Options, SMT
    <3> HIDE DEF base
    <3>5. base + a.job.index * BlocksPerJob + a.number
            # base + b.job.index * BlocksPerJob + b.number
      BY <1>2, <3>1, <3>3, <3>4
    <3> QED BY <2>1, <2>2, <3>5 DEF base
  <2>3. CASE a.job.direction # b.job.direction
    <3>1. directions = {"load", "store"}
      BY <1>1, <1>3, <2>3
    <3>2. Mixed
      <4>1. Cardinality({"load"} \cup {"store"}) = 2
        <5>1. IsFiniteSet({"load"}) /\ Cardinality({"load"}) = 1
          BY FS_Singleton
        <5>2. "store" \notin {"load"}
          OBVIOUS
        <5>3. Cardinality({"load"} \cup {"store"}) = Cardinality({"load"}) + 1
          BY <5>1, <5>2, FS_AddElement
        <5> QED BY <5>1, <5>3
      <4>2. directions = {"load"} \cup {"store"}
        BY <3>1
      <4> QED BY <4>1, <4>2 DEF Mixed
    <3>3. DirectionBase("load") = 0 /\ DirectionBase("store") = Jobs * BlocksPerJob
      BY <3>2 DEF DirectionBase
    <3>4. \/ a.job.direction = "load" /\ b.job.direction = "store"
          \/ a.job.direction = "store" /\ b.job.direction = "load"
      BY <1>3, <2>3, <3>1
    <3> QED BY <1>2, <2>1, <3>3, <3>4, LoadsBelowStores
  <2> QED BY <2>2, <2>3
<1> QED BY <1>4, <1>5

(* Blocks of two jobs that run are in groups of primary slots of their     *)
(* own.                                                                    *)
LEMMA PrimarySlotsDiffer ==
  ASSUME BenchInv, NEW a \in Owed, NEW b \in Owed, a # b,
         a.job.direction # "seed", b.job.direction # "seed"
  PROVE  PrimarySlot(a) # PrimarySlot(b)
<1>1. a \in Block /\ status[a] = "owed" /\ b \in Block /\ status[b] = "owed"
  BY DEF Owed, Engine!In
<1>2. /\ a.number \in 0 .. (BlocksPerJob - 1) /\ b.number \in 0 .. (BlocksPerJob - 1)
      /\ a = [job |-> a.job, number |-> a.number] /\ b = [job |-> b.job, number |-> b.number]
  BY <1>1 DEF Block
<1>3. a.job \in started /\ b.job \in started /\ started \subseteq RunJobs
  BY <1>1 DEF BenchInv, SeedInv, BenchTypeOK
<1>4. a \in Undelivered(a.job) /\ b \in Undelivered(b.job)
  BY <1>1 DEF Undelivered, BlocksOf
<1>5. a.job \in Running /\ b.job \in Running
  BY <1>3, <1>4 DEF Running, BenchInv, RemainingInv
<1>6. jobGroup[a.job] \in Nat /\ jobGroup[b.job] \in Nat
  BY <1>3, GroupsAreCounted DEF BenchInv, BenchTypeOK
<1>7. SUFFICES ASSUME PrimarySlot(a) = PrimarySlot(b) PROVE FALSE
  OBVIOUS
<1>8. jobGroup[a.job] * BlocksPerJob + a.number = jobGroup[b.job] * BlocksPerJob + b.number
  BY <1>7 DEF PrimarySlot
<1>9. jobGroup[a.job] = jobGroup[b.job] /\ a.number = b.number
  BY <1>2, <1>6, <1>8, PlacesDiffer
<1>10. a.job = b.job
  BY <1>5, <1>9 DEF BenchInv, GroupsInv
<1> QED BY <1>2, <1>9, <1>10

(* TransfersDisjoint, for any number of jobs, blocks and groups and any    *)
(* timetable: transfers under way keep off each other's memory and slots   *)
(* (benchmark_uring_m4.py and benchmark_fs_m0.py, _run and _seed_loads).   *)
THEOREM TransfersKeepApart == Spec => []TransfersDisjoint
<1>1. BenchInv => TransfersDisjoint
  <2> SUFFICES ASSUME BenchInv, NEW a \in Owed, NEW b \in Owed, a # b
               PROVE  /\ PrimarySlot(a) = PrimarySlot(b) => Writes(a) /\ Writes(b)
                      /\ SecondaryPlace(a) # SecondaryPlace(b)
    BY DEF TransfersDisjoint
  <2>1. SecondaryPlace(a) # SecondaryPlace(b)
    BY PlacesOfBlocksDiffer
  <2>2. (a.job.direction = "seed" /\ b.job.direction = "seed") => Writes(a) /\ Writes(b)
    BY DEF Writes
  <2>3. \/ a.job.direction = "seed" /\ b.job.direction = "seed"
        \/ a.job.direction # "seed" /\ b.job.direction # "seed"
    <3>1. a \in Block /\ status[a] = "owed" /\ b \in Block /\ status[b] = "owed"
      BY DEF Owed, Engine!In
    <3> QED BY <3>1 DEF BenchInv, SeedInv
  <2> QED BY <2>1, <2>2, <2>3, PrimarySlotsDiffer
<1> QED BY <1>1, BenchInvariance, PTL

================================================================================
