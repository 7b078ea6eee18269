-------------------------- MODULE BlockingDataEngine --------------------------
(***************************************************************************)
(* The worker pool of csrc/blocking_data_engine.cpp, the M2 alternative to *)
(* DataEngine: one Python thread calls it, each worker does blocking       *)
(* pread/pwrite.  A failed constructor may be called again, for a new      *)
(* engine.                                                                 *)
(*                                                                         *)
(* A step is a section under mutex_, a notify outside of it, or the return *)
(* of a transfer together with the section that records it.  A worker in   *)
(* work_cv_.wait sleeps until it is notified and then tests again.         *)
(*                                                                         *)
(* Definitions whose name ends in Bug are slips the properties are tested  *)
(* against.                                                                *)
(***************************************************************************)
EXTENDS Integers, FiniteSets, Sequences, SequencesExt

CONSTANTS
  Loads, Stores,    \* the blocks the caller may submit, each once
  Workers,          \* workers_
  PendingCapacity   \* pending_capacity

ASSUME TasksAssumption ==
  Loads \cap Stores = {} /\ IsFiniteSet(Loads \cup Stores)
ASSUME PoolAssumption ==
  /\ IsFiniteSet(Workers) /\ Cardinality(Workers) >= 4
  /\ PendingCapacity \in Nat /\ PendingCapacity >= Cardinality(Workers)

Tasks == Loads \cup Stores

NumWorkers == Cardinality(Workers)
StoreLimit ==
  NumWorkers - (IF NumWorkers \div 4 > 1 THEN NumWorkers \div 4 ELSE 1)

VARIABLES
  loadPending, storePending,  \* the two pending deques
  loadInFlight, storeInFlight, accepted,  \* counters under mutex_
  completions,  \* completions_: results not yet polled
  stopping,
  slabOpen,     \* slab_fd_ is a descriptor
  workerPc,     \* where each worker is
  task,         \* history: the blocks a worker has in its hands, at most one
  callerPc,     \* where the Python thread is in a call
  given,        \* history: blocks passed to Submit
  delivered     \* history: results the caller received

queues   == <<loadPending, storePending>>
inFlight == <<loadInFlight, storeInFlight>>
blocks   == <<queues, inFlight, accepted, completions>>
pool     == <<workerPc, task>>
history  == <<given, delivered>>
vars == <<blocks, stopping, slabOpen, pool, callerPc, history>>


Init ==
  /\ loadPending = <<>> /\ storePending = <<>>
  /\ loadInFlight = 0 /\ storeInFlight = 0 /\ accepted = 0
  /\ completions = {} /\ stopping = FALSE /\ slabOpen = FALSE
  /\ workerPc = [w \in Workers |-> "none"]
  /\ task = [w \in Workers |-> {}]
  /\ callerPc = "construct" /\ given = {} /\ delivered = {}

(* work_cv_.notify_all and notify_one.  Spurious wake-ups are left out:    *)
(* they could only help a worker that sleeps over work.                    *)
NotifyAll == [w \in Workers |-> IF workerPc[w] = "wait" THEN "test" ELSE workerPc[w]]

NotifyOne ==
  IF \E w \in Workers : workerPc[w] = "wait"
  THEN \E w \in Workers :
         workerPc[w] = "wait" /\ workerPc' = [workerPc EXCEPT ![w] = "test"]
  ELSE UNCHANGED workerPc

-----------------------------------------------------------------------------
(* The constructor                                                         *)

(* InitializeSlab has the slab locked, truncated, allocated and validated, *)
(* or closes it again and throws.                                          *)
InitializeSlab ==
  /\ callerPc = "construct"
  /\ \/ slabOpen' = TRUE /\ callerPc' = "spawn"
     \/ callerPc' = "threw" /\ UNCHANGED slabOpen
  /\ UNCHANGED <<blocks, stopping, pool, history>>

(* The workers start one after the other and run at once.                  *)
SpawnWorker(w) ==
  /\ callerPc = "spawn"
  /\ workerPc[w] = "none"
  /\ workerPc' = [workerPc EXCEPT ![w] = "test"]
  /\ UNCHANGED <<blocks, stopping, slabOpen, task, callerPc, history>>

Constructed ==
  /\ callerPc = "spawn"
  /\ \A w \in Workers : workerPc[w] # "none"
  /\ callerPc' = "idle"
  /\ UNCHANGED <<blocks, stopping, slabOpen, pool, history>>

(* No thread can be had: the workers there are have to be stopped, joined, *)
(* and the slab closed before the constructor throws.                      *)
SpawnFails ==
  /\ callerPc = "spawn"
  /\ \E w \in Workers : workerPc[w] = "none"
  /\ stopping' = TRUE
  /\ callerPc' = "unwind"
  /\ UNCHANGED <<blocks, slabOpen, pool, history>>

Started == {w \in Workers : workerPc[w] # "none"}

UnwindJoins ==
  /\ callerPc = "unwindJoin"
  /\ \A w \in Started : workerPc[w] = "exited"
  /\ slabOpen' = FALSE
  /\ callerPc' = "threw"
  /\ UNCHANGED <<blocks, stopping, pool, history>>

ConstructAgain ==
  /\ callerPc = "threw"
  /\ stopping' = FALSE
  /\ workerPc' = [w \in Workers |-> "none"]
  /\ callerPc' = "construct"
  /\ UNCHANGED <<blocks, slabOpen, task, history>>

-----------------------------------------------------------------------------
(* The Python thread                                                       *)

QueueFull == Len(loadPending) + Len(storePending) >= PendingCapacity

Counted == IF QueueFull THEN 0 ELSE 1

AfterSubmitBug == IF accepted = 0 THEN "notify" ELSE "idle"   \* if it was idle
AfterSubmit    == "notify"

(* A full queue is answered with an EAGAIN completion, and nobody notified. *)
Submit(t) ==
  /\ callerPc = "idle" /\ ~stopping /\ t \notin given
  /\ given' = given \cup {t}
  /\ accepted' = accepted + Counted
  /\ IF QueueFull
     THEN /\ completions' = completions \cup {[task |-> t, ok |-> FALSE]}
          /\ UNCHANGED <<queues, callerPc>>
     ELSE /\ IF t \in Loads
             THEN loadPending' = Append(loadPending, t) /\ UNCHANGED storePending
             ELSE storePending' = Append(storePending, t) /\ UNCHANGED loadPending
          /\ callerPc' = AfterSubmit
          /\ UNCHANGED completions
  /\ UNCHANGED <<inFlight, stopping, slabOpen, pool, delivered>>

SubmitNotifies ==
  /\ callerPc = "notify"
  /\ NotifyOne
  /\ callerPc' = "idle"
  /\ UNCHANGED <<blocks, stopping, slabOpen, task, history>>

TakeCompletionsBug ==    \* an if for the while: one result a call
  \/ \E c \in completions : delivered' = delivered \cup {c} /\ completions' = completions \ {c}
  \/ completions = {} /\ UNCHANGED <<completions, delivered>>

TakeCompletions ==
  /\ delivered' = delivered \cup completions
  /\ completions' = {}

PollCompletions ==
  /\ callerPc \in {"idle", "closed"}
  /\ completions # {}
  /\ TakeCompletions
  /\ UNCHANGED <<queues, inFlight, accepted, stopping, slabOpen, pool, callerPc, given>>

DrainBegin ==
  /\ callerPc = "idle"
  /\ callerPc' = "drain"
  /\ UNCHANGED <<blocks, stopping, slabOpen, pool, history>>

(* idle_cv_.wait, as in DataEngine.                                        *)
DrainTest ==
  /\ callerPc = "drain"
  /\ IF accepted = 0
     THEN TakeCompletions /\ callerPc' = "idle"
     ELSE callerPc' = "waiting" /\ UNCHANGED <<completions, delivered>>
  /\ UNCHANGED <<queues, inFlight, accepted, stopping, slabOpen, pool, given>>

(* Shutdown stops, notifies, joins every worker and closes the slab.  The  *)
(* destructor may call it again.                                           *)
ShutdownBegin ==
  /\ callerPc \in {"idle", "closed"}
  /\ stopping' = TRUE
  /\ callerPc' = "stop"
  /\ UNCHANGED <<blocks, slabOpen, pool, history>>

(* notify_all, from Shutdown and from a constructor that unwinds.          *)
AfterStop == IF callerPc = "stop" THEN "join" ELSE "unwindJoin"

ShutdownNotifies ==
  /\ callerPc \in {"stop", "unwind"}
  /\ workerPc' = NotifyAll
  /\ callerPc' = AfterStop
  /\ UNCHANGED <<blocks, stopping, slabOpen, task, history>>

Join ==
  /\ callerPc = "join"
  /\ \A w \in Workers : workerPc[w] = "exited"
  /\ slabOpen' = FALSE
  /\ callerPc' = "closed"
  /\ UNCHANGED <<blocks, stopping, pool, history>>

-----------------------------------------------------------------------------
(* A worker                                                                *)

CanDispatch ==
  \/ loadPending # <<>>
  \/ storePending # <<>> /\ storeInFlight < StoreLimit

MustExitBug == stopping  \* leaves what was accepted behind
MustExit    == stopping /\ accepted = 0

Exit(w) ==
  /\ workerPc[w] = "test" /\ MustExit
  /\ workerPc' = [workerPc EXCEPT ![w] = "exited"]
  /\ UNCHANGED <<blocks, stopping, slabOpen, task, callerPc, history>>

Sleep(w) ==
  /\ workerPc[w] = "test" /\ ~MustExit /\ ~CanDispatch
  /\ workerPc' = [workerPc EXCEPT ![w] = "wait"]
  /\ UNCHANGED <<blocks, stopping, slabOpen, task, callerPc, history>>

(* Loads first.                                                            *)
Take(w) ==
  /\ workerPc[w] = "test" /\ ~MustExit /\ CanDispatch
  /\ IF loadPending # <<>>
     THEN /\ task' = [task EXCEPT ![w] = {Head(loadPending)}]
          /\ loadPending' = Tail(loadPending)
          /\ loadInFlight' = loadInFlight + 1
          /\ UNCHANGED <<storePending, storeInFlight>>
     ELSE /\ task' = [task EXCEPT ![w] = {Head(storePending)}]
          /\ storePending' = Tail(storePending)
          /\ storeInFlight' = storeInFlight + 1
          /\ UNCHANGED <<loadPending, loadInFlight>>
  /\ workerPc' = [workerPc EXCEPT ![w] = "io"]
  /\ UNCHANGED <<accepted, completions, stopping, slabOpen, callerPc, history>>

AfterFinishBug == "test"   \* does not tell the other workers
AfterFinish    == "notify"

(* The last block accepted wakes a drain.                                  *)
DrainWoken == IF callerPc = "waiting" /\ accepted' = 0 THEN "drain" ELSE callerPc

(* The transfer is over, whole or not.                                     *)
Finish(w) ==
  /\ workerPc[w] = "io"
  /\ \E t \in task[w], ok \in BOOLEAN :
       /\ completions' = completions \cup {[task |-> t, ok |-> ok]}
       /\ IF t \in Loads
          THEN loadInFlight' = loadInFlight - 1 /\ UNCHANGED storeInFlight
          ELSE storeInFlight' = storeInFlight - 1 /\ UNCHANGED loadInFlight
  /\ accepted' = accepted - 1
  /\ callerPc' = DrainWoken
  /\ task' = [task EXCEPT ![w] = {}]
  /\ workerPc' = [workerPc EXCEPT ![w] = AfterFinish]
  /\ UNCHANGED <<queues, stopping, slabOpen, history>>

WorkerNotifies(w) ==
  /\ workerPc[w] = "notify"
  /\ workerPc' = [NotifyAll EXCEPT ![w] = "test"]
  /\ UNCHANGED <<blocks, stopping, slabOpen, task, callerPc, history>>

WorkerNext(w) == Exit(w) \/ Sleep(w) \/ Take(w) \/ Finish(w) \/ WorkerNotifies(w)

ConstructNext ==
  \/ InitializeSlab \/ Constructed \/ SpawnFails \/ UnwindJoins \/ ConstructAgain
  \/ \E w \in Workers : SpawnWorker(w)

(* The steps inside a call the Python thread has begun. *)
CallNext == SubmitNotifies \/ DrainTest \/ ShutdownNotifies \/ Join

Next ==
  \/ ConstructNext
  \/ \E t \in Tasks : Submit(t)
  \/ PollCompletions \/ DrainBegin \/ ShutdownBegin
  \/ CallNext
  \/ \E w \in Workers : WorkerNext(w)

Spec == Init /\ [][Next]_vars

-----------------------------------------------------------------------------
(* Properties                                                              *)

Pending    == ToSet(loadPending) \cup ToSet(storePending)
Dispatched == UNION {task[w] : w \in Workers}
Answered   == {c.task : c \in completions}
Received   == {c.task : c \in delivered}

(* No worker sleeps over work: while one is asleep and no notification is  *)
(* on its way, the workers about to test the queues are enough for all the *)
(* blocks that may be dispatched, although Submit notifies one worker      *)
(* only.  With every worker busy a load still never waits for stores       *)
(* alone.                                                                  *)
Dispatchable ==
  LET free == StoreLimit - storeInFlight
      n    == Len(storePending)
  IN Len(loadPending) + (IF n < free THEN n ELSE free)

Notifying == callerPc \in {"notify", "stop", "unwind"} \/ \E w \in Workers : workerPc[w] = "notify"

WorkConserving ==
  /\ \/ \A w \in Workers : workerPc[w] # "wait"
     \/ Notifying
     \/ Dispatchable <= Cardinality({w \in Workers : workerPc[w] = "test"})
  /\ (\A w \in Workers : workerPc[w] = "io") => loadInFlight >= NumWorkers - StoreLimit

(* The slab is open as long as a worker transfers a block, and shutdown    *)
(* returns with no block left behind.  A constructor that throws leaves    *)
(* neither a worker nor the slab.                                          *)
SlabOutlivesTransfers ==
  /\ ~slabOpen => accepted = 0 /\ Pending \cup Dispatched = {}
  /\ callerPc = "threw" => ~slabOpen /\ \A w \in Workers : workerPc[w] \in {"none", "exited"}

(* A drain that sleeps and a shutdown that joins are not left waiting for  *)
(* workers that sleep themselves: somebody is awake who brings them on.    *)
Awake(w) == workerPc[w] \in {"test", "io", "notify"}

NoStuckCall ==
  /\ callerPc = "waiting" => \E w \in Workers : Awake(w)
  /\ callerPc \in {"join", "unwindJoin"} => \A w \in Workers :
       workerPc[w] = "wait" => \E v \in Workers : Awake(v)

(* The pool keeps the same block I/O contract as the io_uring engine.      *)
StatusOf(t) == IF t \notin given THEN "new"
               ELSE IF t \in Answered THEN "ready"
               ELSE IF t \in Received THEN "delivered" ELSE "owed"

Contract == INSTANCE BlockIoContract WITH
  status  <- [t \in Tasks |-> StatusOf(t)],
  outcome <- [t \in Tasks |-> [task |-> t, ok |-> TRUE] \in completions \cup delivered],
  closed  <- stopping /\ callerPc \in {"stop", "join", "closed"}

ImplementsContract == Contract!Spec
=============================================================================
