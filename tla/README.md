# uring-slab tier: a TLA+ model

The repository is a secondary tier for vLLM's KV-cache offloading: blocks of
primary (CPU) memory are stored to, and loaded from, one preallocated slab file
with io_uring and O_DIRECT. This directory models the tier's control plane, its
vLLM adapter, its two data engines, the benchmark drivers, the load clients and
the scripts that measure a server with them; checks them with TLC on small
instances; and proves with TLAPS, for every instance, each safety invariant that
the runs check: of the ledger, the adapter, the delayed misses, both engines and
their startup, the benchmark drivers, the load clients and the scripts; and that
the engines keep their contract and their offset arithmetic is sound.

Run `tlc -config X.cfg M` for a row of the table under *Runs*, `tlapm M.tla` for
the modules listed under *Proofs*.

## 1. The system

| component | source | state | operations |
|---|---|---|---|
| control plane ledger | `uring_slab_tier/manager.py` | resident keys and slots, in-flight stores, allocation cursor, jobs with blocks owed, failure counters | lookup, submit_store, submit_load, complete_block, get_finished_jobs, clear_residency |
| vLLM adapter | `uring_slab_tier/vllm_tier.py` | the ledger, an engine, results harvested by a drain, delayed misses, closed flag | the same, plus drain_jobs, has_pending_work, on_request_finished, on_schedule_end, shutdown |
| io_uring engine | `csrc/data_engine.cpp`, `.h` | two pending queues, counters, statistics, free contexts, ring, eventfd, completions, slab | Submit, Poll, Drain, ResetStats, Shutdown; owner loop: reap, dispatch, submit, count, stop check, poll |
| blocking engine (M2) | `csrc/blocking_data_engine.cpp`, `.h` | the same queues, worker threads, two condition variables | a constructor that may fail at any thread; the same calls; worker loop |
| binding | `csrc/pybind_module.cpp` | the primary buffer, one engine | conversion; drain and shutdown release the GIL |
| registration | `uring_slab_tier/vllm_spec.py` | none | registers the tier type at import |
| benchmark drivers | `scripts/benchmark_uring_m4.py`, `benchmark_fs_m0.py` | schedule, free slot groups, blocks owed per job | seed, submit, poll, free |
| load clients | `scripts/run_closed_loop_client.py`, `run_open_loop_client.py`, `run_mixed_open_loop_client.py` | prompts not yet sent, requests under way, records, a temporary and a named output | send, judge the answer, count, write, rename, exit code |
| sweep and arms | `scripts/run_none_experiment.sh`, `run_tier_qps_arm.sh`, `run_tier_mixed_qps_arm.sh` and variants | a server process, a monitoring window, files, the exit trap | start, wait until ready, warm up, reset, open and close the window, measure, stop, qualify |
| prompts and qualification | `scripts/generate_none_prompts.py`, `qualify_none_results.py` | the prompt file; none | write, verify, name; the verdict over a sweep |
| ablation and suites | `scripts/run_microbenchmark_ablation.py`, `run_*_suite.py` | position in the order of runs, a manifest | run one benchmark after another, stop at the first failure |
| analysis | `scripts/analyze_*.py` | none between calls | statistics over finished files |

**Interaction.** One vLLM scheduler thread calls the adapter. A submit call asks
the ledger for slots and passes one block at a time to the engine; the engine
answers each block once, later and in any order, through a completion list that
`get_finished_jobs` and `drain_jobs` feed back to the ledger. The engine's own
threads share its queues, counters and completions with the scheduler thread
under one mutex, and are woken by an eventfd (io_uring) or a condition variable
(blocking). Two processes meet only at the slab file, through `flock`. The
scripts meet a server only through its process id, its port and the files it
writes: nothing ties the process that answers on the port to the one that was
started.

**What is hard.** Completions that arrive out of order and while a call is under
way; loads that fail after their key was stored again; slots that come back to
life after `clear_residency`; a queue that is full; wake-ups sent between a look
at the queues and a sleep; partial submission to the ring; startup that fails in
the middle, also while worker threads already run; statistics read between two
sections that count; shutdown with I/O in flight; a process that dies holding the slab;
a script that is killed, or a server that does not stop, before the next script
uses the same port.
`PROJECT.json` lists these hazards at their lines with the properties that would
catch each.

**Correct means.** *Ledger*: a key has at most one slot and a slot one key; a
block under way has its slot to itself; every admitted job gets one truthful
result; a `None` settles; nothing is evicted but by a failed load. *Adapter*:
what lookup calls a hit can be read and a load reads its own key; no result is
lost or handed out twice; `has_pending_work` is never falsely false. *Engines*:
every accepted block is answered once, drains and shutdowns return, nobody sleeps
over work, stores leave room for loads, no request outlives the memory it uses.
*Startup*: a running engine's slab is whole and its own; failure leaves nothing.
*Measurement*: a file under its name is complete, an exit code of 0 and the
verdict of a qualification are true, a point was measured on the server started for it,
and a script that is answered ends and leaves no server.

## 2. Modules

| module | models | how it corresponds |
|---|---|---|
| `ControlPlane` | the ledger | one action per method and outcome: `StoreDuplicate`, `StoreRejected`, `StoreAccepted` are the three returns of `submit_store`, and so on. `outstanding` is the set of blocks the engine owes, the module's environment. A call that raises changes nothing and is a disabled step; `Raises` collects the checks of `complete_block`, and `NoCompletionRaises` says they never fire. |
| `KeyLifecycle` | abstract: what lookup shows of a key | miss, in flight or resident, and the only ways between them. `ControlPlane` implements it. |
| `BlockIoContract` | abstract: what a data engine promises | a block is new, owed, ready, delivered; `TierManager` is built on its actions and both engines implement it. |
| `TierManager` | the adapter | composes `ControlPlane`, `BlockIoContract` and the contents of every slab slot. Calls that feed several completions or wait take several steps (`pc`), the engine moves in between. |
| `MissDelay` | `delay_miss_one_step` of the adapter | lookup, `on_request_finished`, `on_schedule_end` over `KeyLifecycle`; `MissAnswer` is what a lookup that misses answers. |
| `DataEngine` | the io_uring engine and the kernel | a step is a section under `mutex_`, or one call to the ring, the eventfd or a condition variable. `callerPc` is where the Python thread is, `ownerPc` where the owner is. |
| `SlabLifecycle` | startup, unwinding, teardown of that engine, in several processes | the stages of `InitializeSlabAndRing` with what each acquires (`Acquired`) and what the path of each closes when it fails (`ClosedBy`), then `DestroySlabAndRing`, which goes by the `members` and not by what is really `held`; `flock` and the file, the constructor's wait, crashes and restarts. |
| `BlockingDataEngine` | the worker pool | as `DataEngine`; workers that sleep are notified one by one or all. |
| `EngineGeometry` | the offset arithmetic of both engines | operators over words of any width: what the constructor, `ValidateGeometry` and `ValidateTask` accept, and the address and offset that dispatch computes again. No behaviour, so no run; the theorems are in `SlabLifecycle_proofs`. |
| `Benchmark` | the open-loop drivers `benchmark_uring_m4.py` and `benchmark_fs_m0.py` | `program` says which: `m4` one action per step of `_run` (a block of the seed, its drain, a job taken from the timetable, a block of it, a poll with all its bookkeeping, the `finally` clause with the verdict) over `BlockIoContract`, its refusals tied to `pending_capacity`; `m0` and `m1` the same loop over a thread pool that takes whole jobs, never refuses one, and answers once per job, with a file per block or one slab file. |
| `LoadClient` | the three load clients | one machine of senders: `Width` workers of the closed loop, or one task per prompt of the open loops when it is due; `Judge` is `send_one`, `Open`, `WriteLines`, `Replace` the output, `Leave` the exit code. |
| `Experiment` | the sweep, two kinds of arm, the prompt generator and the qualification | composes `LoadClient` with the `Steps` of each script, the exit trap (`mode`), the servers a script started and those earlier scripts left, which may fall silent, and the monitor's records and window summaries on their way to the files that `QualifyPoint` reads. |
| `ArmOrder` | `_arm_order` of the ablation | the rotation of the arms as operators; the theorems are in `Benchmark_proofs`. |
| `MC*` | | the symmetry sets of the runs |
| `ControlPlane_proofs`, `TierManager_proofs`, `MissDelay_proofs`, `DataEngine_proofs`, `SlabLifecycle_proofs`, `BlockingDataEngine_proofs`, `Benchmark_proofs`, `Experiment_proofs` | | theorems about the module of that name; `EngineGeometry` is in the one of `SlabLifecycle`, `ArmOrder` in the one of `Benchmark`, `LoadClient` in the one of `Experiment` |

The primary slots of a job are left out: the ledger copies them to its
assignments and never looks at them. Keys, requests and blocks are model values.
Times are left out; of the io_uring engine's statistics its block counts are kept. A definition whose name ends in
`Bug` is a slip in the definition after it, kept to show that a property would
notice; no specification uses one.

Every block is submitted at most once in the models of the engines (`given`);
blocks are told apart by job and key in the code, and a job has a key once.
Failure of `io_uring_submit`, `poll` or `io_uring_get_sqe` ends the process in
the code (`std::terminate`); the model has no such step for the first two, and
`RingLimits` shows that the third cannot happen. Spurious wake-ups of condition
variables are left out: they only let a thread test again what it tests anyway.
One thread calls an engine at a time, as the scheduler does.

## 3. Runs

| run | question | bounds |
|---|---|---|
| `control_plane_safety` | do all ledger invariants hold, and does the ledger implement `KeyLifecycle`? | 3 keys, 4 slots, 4 jobs of any size, symmetric keys |
| `control_plane_stale_pop` | is the pop of a failed load idempotent, as its comment says? (no) | 1 key, 2 slots, 5 jobs |
| `tier_manager_safety` | does data follow the ledger, and do results reach the scheduler once? | 2 keys, 2 slots, 3 jobs |
| `tier_manager_live` | does the composition keep what `ControlPlane` assumes of its environment, fairness included; is every job handed out and does `None` settle, unless there is a shutdown? | 2 keys, 2 slots, 2 jobs |
| `miss_delay` | are delayed misses kept exactly as long as they should be? | 2 keys, 2 requests, 2 stores, any number of steps |
| `data_engine_safety` | blocks, counters, statistics, ring limits, wake-ups, shutdown, drain | depth 4, 2 loads, 4 stores, pending capacity 4 |
| `data_engine_live` | does the engine implement its contract with liveness, do calls return? | 1 load, 2 stores, batch size 1 |
| `data_engine_wake_race` | is the wake-up always written to the open eventfd? (no) | 1 load |
| `slab_lifecycle` | is a running engine's slab its own, does the failure of each stage release each thing once, does the constructor return? | 2 processes, 2 restarts each |
| `blocking_engine` | the same questions for the worker pool, and does a constructor that fails leave nothing? | 4 workers, 1 load, 4 stores, pending capacity 4 |
| `benchmark` | do transfers keep off each other's memory and slots, does every run end with the right verdict? | programs m4, m0, m1; load, store and mixed runs, 3 jobs of 2 blocks per direction, 2 slot groups, 1 fault |
| `experiment` | are files whole and exit codes true, was each point measured on its own clean server, does the qualification pass a point if and only if it should, does every script end and take its server with it? | 2 scripts in a row of 3 kinds, 2 points, 2 prompts, 1 fault |

**Why the bounds are enough.** Three keys and four jobs let one job hold several
new keys, a second overlap it in flight, a third load one of them while a fourth
stores it again; four slots are both filled and reused after a clear. The ledger's
theorems hold for every bound. Queue depth 4 is the smallest the constructor
admits; it gives a load reserve of 1, a store depth of 3 and a ring of 4, so four
stores reach the store limit, the reserve and a full submission queue, two loads
reach the whole depth, and the pending capacity is reached by what is left. The
pool is likewise at its least size of four workers. The driver's seed of six
blocks exceeds a pending capacity of four, its six jobs in a mixed run compete
for two slot groups, and its timetable has ties, an offset and bursts. Failed
transfers take the path of whole ones in the engine and change no counter;
`data_engine_live` has them, `data_engine_safety` does not need them.
`experiment`: two scripts are one that leaves something behind and one that meets
it, two points make the sweep start a second server on the port of the first,
two prompts let a client fail between two requests. Killed scripts, servers
that stop, hang or fall silent are not counted as faults and may happen any number of
times; the one fault is a crash, a burst of pressure, or a failed request, write or
call. Partial submission takes every possible prefix. Two processes are all that can
meet at one lock. Where a
run is limited by `MaxJobs`, `MaxStores` or the set of blocks, the environment
stops there and the system runs to rest: deadlock checking is on wherever the
system always has a call left, and off only for `slab_lifecycle`, where processes
may all be gone for good.

**What the violations show.**

* `control_plane_stale_pop` (`manager.py:269`): two loads of a resident key are
  issued; the first fails and drops the key; the key is stored again, to a new
  slot; the second load, issued against the old slot, fails and drops the *new*
  mapping. The comment calls that pop idempotent. No data is served wrongly
  (`ResidentDataPresent` and `LoadsReadTheirKey` hold); a healthy block is lost
  from the cache.
* `data_engine_wake_race` (`data_engine.cpp:363-370`): `Shutdown` sets `stopping_`
  under the mutex and wakes the owner outside it. An owner that was awake anyway
  may stop and close the eventfd between `WakeOwner`'s check and its write.

Also met while modelling, with no run of its own:

* The conventions at `manager.py:24-25` say slots are never reused and the cursor
  never goes back; `clear_residency` (`manager.py:300`) sets it to 0.
  `WritesExclusive` and `ResidentDataPresent` show that the reuse is safe.
* The docstring at `vllm_spec.py:25-27` says there is no file lock and that engines
  on one path truncate each other; `data_engine.cpp:139-146` takes `flock` first,
  and the second start fails.
* `run_tier_qps_arm.sh:96` asks whether *something* answers `/health`. A server left
  over from an earlier arm answers while the own one still loads, is measured, and
  the arm may end with 0. `MeasuredOnOwnServer` is therefore stated for the sweep,
  which asks its own process first, and not for arms. Warm-up and reset of a sweep
  can reach a leftover server that dies while the own one loads; the measurement
  cannot.
* The wait for the server in an arm's trap (`run_tier_qps_arm.sh:53`) has no limit:
  a server that does not end keeps the arm for ever. `ScriptEnds` excepts it.
* No call of `curl` in the scripts has a time limit (`run_none_experiment.sh:139-142`,
  `213-216`, `227-230`, `247-250`; `run_tier_qps_arm.sh:96-130`). A server that accepts a
  connection and does not answer keeps a script for ever, also in
  `wait_until_server_ready`, whose deadline is tested between probes only. In the
  model a listening server may go silent at any time (`GoesSilent`), and
  `ScriptEnds` excepts a script that waits for such a call (`Unanswered`).
* `RingEntries` may throw (`data_engine.cpp:186-187`) after `ring_` was set to a new
  object (`180`) that no ring was set up in. That exception has no path of its own,
  and `DestroySlabAndRing` then calls `io_uring_queue_exit` on the object
  (`219-221`). `NothingReleasedTwice` names this case and excludes no other. Queue
  depths up to 2^30 do not get there.
* `shutdown` of the adapter (`vllm_tier.py:264-272`) completes what was accepted but
  harvests nothing and only warns of the jobs left, and vLLM does not poll a tier it
  has shut down. `EveryJobHanded` and `RetryConverges` therefore end there.
* `check_none_qualification || status=$?` (`run_none_experiment.sh:388`) runs with
  errexit off; with a reused results directory an older `qualification.json` may
  decide when the tool fails. Each sweep of the model has a directory of its own.
* The clients' temporary name is fixed (`run_closed_loop_client.py:205`); a client
  that outlives its killed script could write into the next one's file. In the
  model a script takes its client with it.

**Fairness.** `data_engine_live`: the owner is one thread in a loop (weak fairness
of its next step as a whole), a call that was begun continues, and the kernel
answers each request; nobody is obliged to submit, drain or shut down.
`tier_manager_live`: the engine completes blocks of each job (that is
`BlockIoContract!Fairness`, which `data_engine_live` establishes for `DataEngine`),
a call that was begun runs, and the scheduler polls. The poll has strong fairness:
vLLM calls `get_finished_jobs` in every step, but a drain or another call may be
under way at any given moment, so it is enabled again and again and not always.
Nothing is polled after a shutdown: the fairness is of `~closed /\ PollBegin`.
`miss_delay`: scheduling steps end, each waiting request is looked up in each,
and stores in flight settle. `slab_lifecycle`: both threads of a process run;
no system call of the startup blocks for ever.
`experiment`: scripts go on unless they wait for a call that is not answered, clients go
on, and servers load, answer, break off or end; a request of a client, which has a time
limit, is answered, broken off or times out. Nothing obliges a stuck
server to end, and none has to: the sweep gives up after thirty seconds.
`benchmark`: the driver loops, time passes, and the engine completes something as long
as it owes something, which is weaker than the contract's fairness.
`tier_manager_live` checks `LedgerEnvironment`, that the composition implements
`ControlPlane`, and *with* its fairness unless it is shut down, so the assumption of the
smaller module is discharged by the larger.

## 4. Proofs

Every invariant of a passing run, every action property and every refinement
without its fairness is a theorem. Each rests on an inductive invariant whose
parts TLC checked first, on an instance like that of the run. A module has one
lemma per action, under it one step per part the action can disturb, and the
facts about cardinalities, sequences and division as lemmas. Assumptions on
constants are the named ones of the modules, which TLC evaluates in the runs.

**Ledger** (`ControlPlane_proofs`): for every finite set of keys, every slab size
and every number of jobs.

* `TypeCorrect`: `TypeOK`, and with it that the cursor stays inside the slab.
* `Invariance`: `IInv`, the inductive invariant: `TypeOK`, `SlotsDistinct`,
  `SlotsBelowCursor`, `RemainingIsOwed`, `InFlightIsBacked`, `WritesExclusive`
  and finiteness of `outstanding`. None of the parts is inductive alone. That
  slots stay distinct needs the cursor to be above every slot in use; that
  `clear_residency` may put it back to 0 needs `outstanding` to be empty, which
  follows from no job being live only by `RemainingIsOwed`; that a completion
  publishes the slot it wrote needs `InFlightIsBacked`; and that needs
  `WritesExclusive` to tell two store blocks apart.
* `SlotSafety`, `RetryBacked`, `OwedExactly`, `CompletionsAccepted`: the
  invariants the runs check, from `IInv`.
* `ResidencyStable`: the action property `NoEviction`, from `IInv`.
* `ResultsAreTruthful` and `CountersAreReconciled`, from `JobInv`, which says that
  a job is a success exactly as long as no cause of failure was recorded, and
  that ids not yet used are clean. A step changes one job, so each counter, the
  cardinality of a set of jobs, moves by at most one.
* `LifecycleImplemented`: `ControlPlane` implements `KeyLifecycle` under the mapping
  that lookup defines. It needs `SlotsDistinct` (a completion settles a key that is
  not resident) and the injective assignment of slots (all new keys of a job are
  reserved at once).

**Adapter** (`TierManager_proofs`): for the same constants.

* `LedgerIsUsedAsAssumed`: every step of the composition is a step of `ControlPlane`
  or leaves the ledger alone. All theorems about the ledger therefore hold of it
  inside the adapter, and the proofs below use them. It is `LedgerEnvironment`
  without fairness.
* `TierInvariance`: `TierInv`, which is `AdapterTypeOK`, `BlocksKept` (where each
  outstanding block is: with the engine, or delivered to a call that is still
  feeding the ledger), `DataKept` (what each slot of the slab holds, for resident
  keys, writes under way and loads) and `ResultsKept` (a result is with the ledger,
  harvested by a drain or handed out, and what is handed out is what the ledger said). `BlocksKept` needs that a fresh
  id has no block left at the engine and that a refused block counts as a failed
  one. `DataKept` needs `WritesExclusive`, `InFlightIsBacked` and `SlotsDistinct`
  of the ledger: a write that ends changes no slot a resident key has.
  `ResultsKept` needs `JobInv`.
* `NoBlockIsForgotten`, `ResidentDataIsPresent`, `LoadsReadTheirOwnKey`,
  `ResultsAreHandedOnce`, `PumpNeverRaises`: the invariants of the run.

`MissDelay_proofs` proves, for all keys and requests and any number of stores,
`OnlyRunning` (nothing is kept for a request that has finished) and
`MissesVisibleNextStep`: a lookup of a pair whose key misses would answer retry
exactly when the pair first missed in this very step. It is stated of every state, on the
answer such a lookup would get, because a retry that is given again changes nothing and is
no step an action property could see. Both come from
`DelayInv`, which says of each pair of a running request that it is in
`missesSeen` when its miss was first seen in this step and in `missesReady` when
it was seen earlier; the sets alone do not tell.

**io_uring engine** (`DataEngine_proofs`): for every finite set of blocks, every
queue depth and pending capacity that the constructor accepts, and any submit
batch, from `TasksAssumption` and `OptionsAssumption`.

* `EngineInvariance`: `EngineInv` has five parts. `BlocksInv` says that a block is
  in one place (pending, dispatched, answered or received) and that the counters
  are the cardinalities of those places. `OwnerInv` says what the owner has
  prepared and not yet counted at each place of its loop; `WakeInv` that unless a
  caller is about to wake the owner, or the eventfd already counts a wake-up, an owner
  past its dispatch has nothing to dispatch and no stop to obey; `StopInv` that
  the descriptor is open while the owner runs and that an owner past its loop leaves
  nothing accepted.
* `BlocksAreAccounted`, and `RingNeverOverflows`: the free contexts are the depth
  less what is dispatched, and a ring has at least as many entries as were asked
  for, so `io_uring_get_sqe` cannot fail.
* `NoWakeupIsLost`, from `WakeInv`: a caller changes the queues in its
  section and writes to the eventfd later, and the owner may go to sleep in between
  only because that write is still to come.
* `ShutdownIsSafe` and `DrainsAreComplete`, from `StopInv`: the owner leaves
  its loop only when nothing is accepted, and accepts nothing afterwards.
* `EngineKeepsContract`: the safety half of `ImplementsContract`. Submit, the reap
  of a completion and the taking of completions map to steps of `BlockIoContract`, all
  others stutter.

**Startup and geometry** (`SlabLifecycle_proofs`): for any set of processes that
share a slab path and any number of failures, crashes and restarts.

* `SlabOwnership` and `NoLeak`: the invariants `SlabIsOwn` and `ReleasedOnce`, and
  `OneEngine`: two engines never run on one slab. They come from `SlabInv`, which
  says of each process what it has at each stage and what its members say of it,
  what is left of both behind the path of a failed stage and behind each line of
  `DestroySlabAndRing`, that it has the lock exactly
  from `flock` until its slab is closed, and what the holder of the lock has done
  to the file. Processes meet only in the lock and the slab, so each step is shown
  to keep the invariant of its own process, and to be `Local`: it leaves the others
  what they have and the slab alone while another one has the lock.

For the operators of `EngineGeometry`, for all widths and geometries, from `Platform` (a
slot id is at least as wide as `size_t`, `off_t` has a sign, an existing buffer
lies inside the address space) and what the constructor accepted:

* `AcceptedStaysInside`, `DifferentSlotsApart`, `TransfersAligned`: an accepted
  block is transferred inside buffer and slab, shares no byte with a block of
  another slot, and is aligned. They rest on `OffsetsAsChecked`: what dispatch
  computes again is what `ValidateTask` checked. Without `CheckedMultiply` the
  bounds would still hold in words of one width, and two slots could share bytes.
* `LedgerSlotsAccepted`: every slot below the ledger's capacity is accepted, so the
  loop of `_submit` over the blocks of a job does not raise in the middle. With
  `TypeCorrect`, which keeps slots below the capacity, this is why `TierManager`
  needs no such step.

**Blocking engine** (`BlockingDataEngine_proofs`): for every finite set of blocks,
number of workers and capacity the constructor accepts, from `TasksAssumption` and
`PoolAssumption`.

* `PoolInvariance`: `PoolInv` has, besides types, `HandsInv` (a worker that
  transfers has one block, and no two the same), `Apart` and `Counts` (a block is in one
  place; the counters are the workers that hold loads or stores, stores at most
  `StoreLimit`), `CallInv` (what the place of the Python thread says about the stop
  flag, the slab and the workers) and `WakeInv`: either no worker sleeps, or
  somebody is about to notify, or what can be dispatched is no more than the
  workers about to test, plus one block of a submit that has not notified yet.
* `WorkIsConserved` from `WakeInv`: one notification per block is enough because
  each notified worker accounts for one block, and a worker that ends a transfer
  tests again. `NoCallIsStuck` and `SlabOutlivesWorkers` from `CallInv` and `Counts`.
* `PoolKeepsContract`: the pool implements `BlockIoContract` without its fairness.

**Benchmark drivers** (`Benchmark_proofs`): for any number of jobs, blocks and slot
groups, any timetable and any number of failed transfers, from `BenchmarkAssumption`.

* `BenchInvariance`: `BenchInv` is, besides types, `SeedInv` (seed blocks are under
  way only before the first job, and no block before its job was taken),
  `ScheduleInv` (the timetable is taken in its order, so that the job
  being submitted is one that was started), `RemainingInv` (the driver of the
  engine has as many blocks remaining as were not delivered; with any driver none
  remaining means all delivered) and `GroupsInv` (a job that runs has a slot group,
  and has it alone). That a group is given back only when its job has no transfer
  left needs `RemainingInv`; that the job given it next is not already running
  needs `ScheduleInv`, and that the timetable has a next job at all is a lemma about
  the order of the schedule (`NextJobIsFirst`).
* `TransfersKeepApart`: the invariant `TransfersDisjoint`. The proof shows more than
  the invariant asks: no two blocks under way ever have one place in the slab.
* `EveryArmOnce` and `PositionsBalanced` (about `ArmOrder`): for any number of arms,
  a repetition runs each arm once, and as many consecutive repetitions as there are
  arms put each arm at each position once. With a number of repetitions that is
  not a multiple of five the script's order is not balanced.

**Clients and scripts** (`Experiment_proofs`): for any number of scripts in a row,
points, prompts, senders and faults, from `PromptAssumption` and
`ExperimentAssumption`.

* `ExperimentInvariance`: `ExperimentInv`. Of the client: `Progress` (each prompt has
  one sender, and a record exactly when that sender is past it, so each
  prompt is sent once), `OnDisk` (only the next unwritten output has a draft, and
  what has its name is whole) and the truth of the exit code. Of the scripts: `ScriptInv`
  (a client runs only in a step that loads; a script that was killed is over),
  `ServerInv` (one process listens; a window is open only on it; a server
  that never served is clean), `PlaceInv` (servers of later places do not exist
  yet, those of earlier points have ended), `SweepInv` (the window of a point was
  opened on its own server, which was clean, and only that server answered) and
  `EndInv` (a passed sweep went through every step, and its own server is gone).
* `NamedFilesAreWhole`, `ExitCodesAreTrue`, `PointsAreMeasuredOnTheirServer`,
  `ScriptsLeaveNoServer`: the invariants of the run. That the point
  was measured on its own server needs that servers of earlier points have ended
  and that only one process can listen.
* `VerdictsAreTrue`: `VerdictTellsTheTruth`, in both directions. It needs a second
  invariant, `ReportInv`, inductive together with the first: while the window of the
  own server is open it has the record of each request that went well and has
  counted exactly the pressure there was; its summary says so and stands behind all
  of its records; and what the summary of a point says does not change once the
  sweep has left the measurement. That a summary of another server never passes
  needs that it is not among the records of the own one, for which `Flush` waits.

**Model-checked only.** Liveness: `CallsReturn`, `ConstructorReturns`,
`EveryJobHanded`, `RetryConverges`, `RetrySettles`, `RunEndsWithVerdict`, `ScriptEnds`,
and the fairness that `ImplementsContract` and `LedgerEnvironment` require besides the
steps. Liveness and `ENABLED` are beyond the provers. The two violations are
counterexamples and have nothing to prove.

## 5. Not modelled

The binding's conversions and registration, which have no state; times, latencies
and the blocking engine's statistics; the arms for writes and for disjoint
conditioning, which have the steps of the arms that are modelled with other
prompts; the ABBA scripts and suites, which run arms or benchmarks in a row; the
content of prompts, percentiles and `analyze_*`, which are sequential computations
over files that are complete. The arguments of constructors and command lines are
preconditions. vLLM itself appears as the caller's obligations (fresh job ids,
distinct keys, drain before clear) and as the servers of `Experiment`; io_uring,
`flock` and vLLM's thread pool as the few facts the code relies on.

## 6. Plan

Done, in this order: `ControlPlane` and its proofs, `BlockIoContract` and
`DataEngine`, `TierManager`, `MissDelay`, `SlabLifecycle`, `BlockingDataEngine`,
`Benchmark` for the engines and then for the file-system pool, `LoadClient` and
`Experiment`, the startup of the blocking engine, the statistics of the io_uring
engine, `EngineGeometry`, `ArmOrder`, `MissDelay_proofs`, `SlabLifecycle_proofs`,
`DataEngine_proofs`, `TierManager_proofs`, `BlockingDataEngine_proofs`,
`Experiment_proofs`, `Benchmark_proofs`.

Next, in order of importance:

1. The measures behind the liveness properties, as action properties with proofs:
   what each step of a startup, a drain or a shutdown leaves to be done, so that only the
   fairness of the argument stays with TLC.
2. That a slot of the slab is written at most once between two clears, for the
   composition of adapter and ledger.
