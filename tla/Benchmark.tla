------------------------------ MODULE Benchmark ------------------------------
(***************************************************************************)
(* The two open-loop benchmark drivers, scripts/benchmark_uring_m4.py and  *)
(* scripts/benchmark_fs_m0.py: each seeds the blocks that loads will read, *)
(* submits jobs by a timetable as long as a group of primary slots is      *)
(* free, polls, and reports only a run without a failed transfer.          *)
(*                                                                         *)
(* The first drives an engine that keeps BlockIoContract, block by block.  *)
(* The second hands whole jobs to vLLM's DualQueueThreadPool, which never  *)
(* refuses one and answers for a job once its last block has ended; it     *)
(* stores blocks in a file each (m0) or in one slab file (m1).             *)
(*                                                                         *)
(* A driver is one thread; the engine or pool and the clock move between   *)
(* any two of its steps.  Latencies and statistics are left out.           *)
(***************************************************************************)
EXTENDS Integers, FiniteSets

CONSTANTS
  Programs,                             \* "m4", "m0", "m1": which drivers run
  Jobs, BlocksPerJob, MaxInflightJobs,  \* --jobs, --blocks-per-job, ...
  TotalQD, PendingCapacity,             \* the engine's limits
  Interval, ReadInterval, WriteInterval, WriteStartOffset, \* the timetable
  MaxFaults                             \* bound: transfers that fail

ASSUME BenchmarkAssumption ==   \* _validate_args
  /\ Programs \subseteq {"m4", "m0", "m1"}
  /\ {Jobs, BlocksPerJob, MaxInflightJobs} \subseteq Nat \ {0}
  /\ TotalQD \in Nat /\ TotalQD >= 4
  /\ PendingCapacity \in Nat /\ PendingCapacity >= TotalQD
  /\ {Interval, WriteStartOffset, MaxFaults} \subseteq Nat
  /\ {ReadInterval, WriteInterval} \subseteq Nat \ {0}

VARIABLES
  program,     \* "m4", "m0" or "m1"
  directions,  \* {"load"}, {"store"} or both, which is "mixed"
  phase,       \* where _run is
  sent,        \* blocks of the current job submitted so far, or of the seed
  started,     \* jobs before next_event in the schedule, and the current one
  now,         \* the clock
  freeGroups,  \* free_groups
  jobGroup,    \* the slot group each job was given
  remaining,   \* blocks of a job with no completion yet
  status, outcome, closed   \* the engine, see BlockIoContract

driver == <<phase, sent, started, freeGroups, jobGroup, remaining>>
engine == <<status, outcome, closed>>
vars   == <<program, directions, now, driver, engine>>

Indices == 0 .. Jobs - 1
Job     == [direction : {"load", "store", "seed"}, index : Indices]
Block   == [job : Job, number : 0 .. BlocksPerJob - 1]

Engine == INSTANCE BlockIoContract WITH Tasks <- Block
Owed   == Engine!In("owed")
Ready  == Engine!In("ready")
Faults == Cardinality({b \in Block : status[b] \in {"ready", "delivered"} /\ ~outcome[b]})

-----------------------------------------------------------------------------
(* The schedule *)

Mixed   == Cardinality(directions) = 2
RunJobs == [direction : directions, index : Indices]

Due(job) ==
  CASE ~Mixed                            -> job.index * Interval
    [] Mixed /\ job.direction = "load"   -> job.index * ReadInterval
    [] Mixed /\ job.direction = "store"  -> WriteStartOffset + job.index * WriteInterval

(* The order of the sorted schedule; at one time loads go before stores.   *)
Before(a, b) ==
  \/ Due(a) < Due(b)
  \/ Due(a) = Due(b) /\ a.direction = "load" /\ b.direction = "store"
  \/ Due(a) = Due(b) /\ a.direction = b.direction /\ a.index < b.index

Waiting == RunJobs \ started
NextJob == CHOOSE job \in Waiting : \A other \in Waiting \ {job} : Before(job, other)

SlotGroups == 0 .. (IF Cardinality(RunJobs) < MaxInflightJobs
                    THEN Cardinality(RunJobs) ELSE MaxInflightJobs) - 1

(* Stores of a mixed run write behind the blocks that its loads read.      *)
DirectionBase(direction) ==
  IF Mixed /\ direction = "store" THEN Jobs * BlocksPerJob ELSE 0

SecondarySlot(b) ==
  DirectionBase(b.job.direction) + b.job.index * BlocksPerJob + b.number

(* A seed job stores what the load of its index will read.                 *)
SeedFor(job) == IF job.direction = "seed" THEN "load" ELSE job.direction

(* The file of a block, or its place in the slab.                          *)
SecondaryPlace(b) ==
  IF program = "m0" THEN <<SeedFor(b.job), b.job.index, b.number>>
  ELSE SecondarySlot(b)

(* Every seed job reads from group 0. *)
PrimarySlot(b) ==
  (IF b.job.direction = "seed" THEN 0 ELSE jobGroup[b.job]) * BlocksPerJob + b.number

-----------------------------------------------------------------------------
Init ==
  /\ program \in Programs
  /\ directions \in {{"load"}, {"store"}, {"load", "store"}}
  /\ phase = IF "load" \in directions THEN "seed" ELSE "test"
  /\ sent = 0 /\ started = {} /\ now = 0
  /\ freeGroups = SlotGroups
  /\ jobGroup = [job \in RunJobs |-> 0]
  /\ remaining = [job \in RunJobs |-> BlocksPerJob]
  /\ Engine!Init

(* One submit call.  The engine refuses a block when its queues are full,  *)
(* which depends on how much of what it owes it has already dispatched.    *)
SubmitBlock(b) ==
  \E refused \in SUBSET {b} :
    /\ refused # {} => Cardinality(Owed) >= PendingCapacity
    /\ refused = {} => Cardinality(Owed) < PendingCapacity + TotalQD
    /\ Engine!Submit({b}, refused)

BlocksOf(job) == {b \in Block : b.job = job}

(* One call of enqueue_load or enqueue_store: a job with all its blocks.   *)
Enqueue(job) == Engine!Submit(BlocksOf(job), {})

SeedJob(index) == [direction |-> "seed", index |-> index]

(* _seed_loads submits every block before it takes a completion. *)
SeedSubmit ==
  /\ program = "m4"
  /\ phase = "seed" /\ sent < Jobs * BlocksPerJob
  /\ SubmitBlock([job    |-> SeedJob(sent \div BlocksPerJob),
                  number |-> sent % BlocksPerJob])
  /\ sent' = sent + 1
  /\ UNCHANGED <<program, directions, now, phase, started, freeGroups, jobGroup, remaining>>

(* _seed_load_files enqueues every seed job before it waits. *)
SeedEnqueue ==
  /\ program # "m4"
  /\ phase = "seed" /\ sent < Jobs * BlocksPerJob
  /\ Enqueue(SeedJob(sent \div BlocksPerJob))
  /\ sent' = sent + BlocksPerJob
  /\ UNCHANGED <<program, directions, now, phase, started, freeGroups, jobGroup, remaining>>

Failed(blocks) == {b \in blocks : ~outcome[b]}

(* drain waits until nothing is owed; a failed seed or a missing one raises *)
SeedVerdict ==
  IF Cardinality(Ready) = Jobs * BlocksPerJob /\ Failed(Ready) = {}
  THEN "test" ELSE "raised"

SeedDrain ==
  /\ program = "m4"
  /\ phase = "seed" /\ sent = Jobs * BlocksPerJob
  /\ Owed = {}
  /\ Engine!Poll
  /\ phase' = SeedVerdict
  /\ sent' = 0
  /\ UNCHANGED <<program, directions, now, started, freeGroups, jobGroup, remaining>>

(* Jobs whose every block has ended, of which get_finished answers once.   *)
Finished == {job \in Job : BlocksOf(job) \subseteq Ready}

Hand(jobs) ==
  /\ status' = [b \in Block |-> IF b.job \in jobs THEN "delivered" ELSE status[b]]
  /\ UNCHANGED <<outcome, closed>>

(* wait_idle, then as many answers as seed jobs and none of them a failure *)
SeedCheck ==
  IF /\ Cardinality(Finished) = Jobs
     /\ \A job \in Finished : Failed(BlocksOf(job)) = {}
  THEN "test" ELSE "raised"

SeedWait ==
  /\ program # "m4"
  /\ phase = "seed" /\ sent = Jobs * BlocksPerJob
  /\ Owed = {}
  /\ Hand(Finished)
  /\ phase' = SeedCheck
  /\ sent' = 0
  /\ UNCHANGED <<program, directions, now, started, freeGroups, jobGroup, remaining>>

(* The condition of the inner loop. *)
CanSubmit == Waiting # {} /\ freeGroups # {} /\ now >= Due(NextJob)

(* schedule[next_event] takes a group off free_groups. *)
TakeGroup ==
  /\ \E group \in freeGroups :
       /\ freeGroups' = freeGroups \ {group}
       /\ jobGroup' = [jobGroup EXCEPT ![NextJob] = group]
  /\ started' = started \cup {NextJob}

StartJob ==
  /\ program = "m4"
  /\ phase = "test" /\ CanSubmit
  /\ TakeGroup
  /\ phase' = "submit" /\ sent' = 0
  /\ UNCHANGED <<program, directions, now, remaining, engine>>

(* The job that StartJob took from the schedule. *)
CurrentJob == CHOOSE job \in started : \A other \in started \ {job} : Before(other, job)

SubmitNext ==
  /\ phase = "submit"
  /\ SubmitBlock([job |-> CurrentJob, number |-> sent])
  /\ sent' = sent + 1
  /\ phase' = IF sent' = BlocksPerJob THEN "test" ELSE "submit"
  /\ UNCHANGED <<program, directions, now, started, freeGroups, jobGroup, remaining>>

EnqueueNext ==
  /\ program # "m4"
  /\ phase = "test" /\ CanSubmit
  /\ TakeGroup
  /\ Enqueue(NextJob)
  /\ UNCHANGED <<program, directions, now, phase, sent, remaining>>

StopSubmitting ==
  /\ phase = "test" /\ ~CanSubmit
  /\ phase' = "poll"
  /\ UNCHANGED <<program, directions, now, sent, started, freeGroups, jobGroup, remaining, engine>>

CompletionsOf(job) == Cardinality({b \in Ready : b.job = job})

(* A completion of an unknown job, or one too many, raises. *)
Unexpected ==
  \E b \in Ready : b.job \notin RunJobs \/ CompletionsOf(b.job) > remaining[b.job]

(* Jobs whose group is given back in a round of polling. *)
EndingBug == {job \in RunJobs : CompletionsOf(job) > 0}   \* on the first block
Ending    == {job \in RunJobs : CompletionsOf(job) > 0 /\ remaining'[job] = 0}

AllDone == \A job \in RunJobs : remaining'[job] = 0

Poll ==
  /\ program = "m4"
  /\ phase = "poll"
  /\ Engine!Poll \/ (Ready = {} /\ UNCHANGED engine)
  /\ remaining' = [job \in RunJobs |-> remaining[job] - CompletionsOf(job)]
  /\ freeGroups' = freeGroups \cup {jobGroup[job] : job \in Ending}
  /\ phase' = IF Unexpected THEN "raised" ELSE IF AllDone THEN "end" ELSE "test"
  /\ UNCHANGED <<program, directions, now, sent, started, jobGroup>>

(* An answer for a job that holds no group raises.                         *)
Unknown == \E job \in Finished : job \notin started \/ remaining[job] = 0

(* The answer for a job speaks for all its blocks and gives its group back. *)
PollJobs ==
  /\ program # "m4"
  /\ phase = "poll"
  /\ Hand(Finished)
  /\ remaining' = [job \in RunJobs |-> IF job \in Finished THEN 0 ELSE remaining[job]]
  /\ freeGroups' = freeGroups \cup {jobGroup[job] : job \in Finished \cap started}
  /\ phase' = IF Unknown THEN "raised" ELSE IF AllDone THEN "end" ELSE "test"
  /\ UNCHANGED <<program, directions, now, sent, started, jobGroup>>

(* failed_blocks is looked at once the loop has ended. *)
RunVerdictBug == "reported"
RunVerdict ==
  IF phase = "raised" \/ Failed({b \in Block : status[b] = "delivered"}) # {}
  THEN "failed" ELSE "reported"

(* The finally clause: shutdown completes what was accepted, then the      *)
(* primary buffer is released.                                             *)
Finish ==
  /\ phase \in {"raised", "end"}
  /\ Owed = {}
  /\ Engine!Close
  /\ phase' = RunVerdict
  /\ UNCHANGED <<program, directions, now, sent, started, freeGroups, jobGroup, remaining>>

Driver == \/ SeedSubmit \/ SeedDrain \/ StartJob \/ SubmitNext \/ Poll
          \/ SeedEnqueue \/ SeedWait \/ EnqueueNext \/ PollJobs
          \/ StopSubmitting \/ Finish

EngineCompletes(b, ok) ==
  /\ program = "m4"
  /\ Engine!Complete(b, ok)
  /\ ok \/ Faults < MaxFaults
  /\ UNCHANGED <<program, directions, now, driver>>

(* A worker of the pool: a short read or write of _SlabIo, and an error of *)
(* the file system, fail the block.                                        *)
WorkerEnds(b, ok) ==
  /\ program # "m4"
  /\ Engine!Complete(b, ok)
  /\ ok \/ Faults < MaxFaults
  /\ UNCHANGED <<program, directions, now, driver>>

(* The clock is of interest until the last job is due. *)
Tick ==
  /\ \E job \in RunJobs : now < Due(job)
  /\ now' = now + 1
  /\ UNCHANGED <<program, directions, driver, engine>>

Ended == phase \in {"reported", "failed"} /\ UNCHANGED vars

(* The engine or the pool, and the clock. *)
Environment ==
  \/ \E b \in Owed, ok \in BOOLEAN : EngineCompletes(b, ok)
  \/ \E b \in Owed, ok \in BOOLEAN : WorkerEnds(b, ok)
  \/ Tick

Next == Driver \/ Environment \/ Ended

(* Completions and ticks are finitely many, so that it is enough that some *)
(* step of the environment is taken while one is possible.                 *)
Fairness == WF_vars(Driver) /\ WF_vars(Environment)

Spec     == Init /\ [][Next]_vars
FairSpec == Spec /\ Fairness

-----------------------------------------------------------------------------
Writes(b) == b.job.direction # "load"   \* writes the slab, reads the buffer

(* Blocks under way at one time share a primary slot only if both read it, *)
(* and share a slot of the slab only if both read that: a slot group goes  *)
(* to the next job when the last block of its job has completed, stores of *)
(* a mixed run keep off the blocks of loads, and seed jobs may share group *)
(* 0 because a store only reads the buffer.                                *)
TransfersDisjoint ==
  \A a, b \in Owed : a # b =>
    /\ PrimarySlot(a) = PrimarySlot(b) => Writes(a) /\ Writes(b)
    /\ SecondaryPlace(a) = SecondaryPlace(b) => ~Writes(a) /\ ~Writes(b)

Asked == {b \in Block : \/ b.job \in RunJobs
                        \/ b.job.direction = "seed" /\ "load" \in directions}

(* Every run ends, and its verdict is the truth: a report means that every *)
(* block was seeded, transferred and counted once with success and every   *)
(* slot group came back; a failure means that a block really failed.  The  *)
(* driver never gives up over a completion it did not expect, and never    *)
(* waits for one that is not due.                                          *)
RunEndsWithVerdict ==
  <>[](\/ /\ phase = "reported"
          /\ \A b \in Asked : status[b] = "delivered" /\ outcome[b]
          /\ freeGroups = SlotGroups
       \/ /\ phase = "failed"
          /\ \E b \in Asked : status[b] = "delivered" /\ ~outcome[b])
=============================================================================
