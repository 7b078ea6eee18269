------------------------------ MODULE DataEngine ------------------------------
(***************************************************************************)
(* The io_uring data engine, csrc/data_engine.cpp: one owner thread that   *)
(* submits and reaps, one Python thread that calls the engine, and the     *)
(* kernel.  The constructor has returned, so the slab and the ring exist   *)
(* (SlabLifecycle has the startup).                                        *)
(*                                                                         *)
(* A definition whose name ends in Bug is a plausible slip in the          *)
(* definition after it; the properties are tested against these.           *)
(*                                                                         *)
(* A step of a thread is one section under mutex_, one ring or file        *)
(* descriptor operation, or one unprotected access to wake_fd_.  The deque *)
(* of completions and the completion queue are sets: they are emptied      *)
(* whole, and the kernel completes requests in any order.                  *)
(***************************************************************************)
EXTENDS Integers, FiniteSets, Sequences, SequencesExt

CONSTANTS
  Loads, Stores,    \* the blocks the caller may submit, each once
  Faulty,           \* those whose transfer may fail; bounds the model
  TotalQD,          \* total_qd
  PendingCapacity,  \* pending_capacity
  SubmitBatch       \* submit_batch_size, after 0 was replaced by total_qd

ASSUME TasksAssumption ==
  /\ Loads \cap Stores = {} /\ IsFiniteSet(Loads \cup Stores)
  /\ Faulty \subseteq Loads \cup Stores
ASSUME OptionsAssumption ==
  /\ TotalQD \in Nat /\ TotalQD >= 4
  /\ PendingCapacity \in Nat /\ PendingCapacity >= TotalQD
  /\ SubmitBatch \in 1 .. TotalQD

Tasks == Loads \cup Stores

LoadReserve == IF TotalQD \div 4 > 1 THEN TotalQD \div 4 ELSE 1
StoreQD     == TotalQD - LoadReserve

(* std::bit_ceil, the size of a ring for n requests. *)
RingEntries(n) ==
  CHOOSE p \in {2 ^ i : i \in 0 .. n} :
    p >= n /\ \A q \in {2 ^ i : i \in 0 .. n} : q >= n => p <= q

VARIABLES
  loadPending, storePending,  \* the two pending deques
  loadInFlight, storeInFlight, accepted, freeContexts,  \* counters under mutex_
  completions,  \* completions_: results not yet polled
  stopping,
  sq,           \* submission queue: requests prepared and not yet submitted
  kernel,       \* requests the kernel works on
  cq,           \* completion queue
  wakeCount,    \* value of the eventfd
  wakeFd,       \* wake_fd_: "open", "closed" but not yet overwritten, "unset"
  ownerPc, prepared,          \* the owner and its local variable prepared
  batched,      \* blocks in dispatch_stats, the owner's local count
  stats,        \* stats_: blocks submitted, loads and stores finished
  callerPc,     \* where the Python thread is in a call
  given,        \* history: blocks passed to Submit
  delivered     \* history: results the caller received

queues   == <<loadPending, storePending>>
inFlight == <<loadInFlight, storeInFlight, freeContexts>>
blocks   == <<queues, inFlight, accepted, completions>>
ring     == <<sq, kernel, cq>>
wake     == <<wakeCount, wakeFd>>
owner    == <<ownerPc, prepared, batched>>
history  == <<given, delivered>>
vars == <<blocks, stopping, ring, wake, owner, stats, callerPc, history>>

Init ==
  /\ loadPending = <<>> /\ storePending = <<>>
  /\ loadInFlight = 0 /\ storeInFlight = 0 /\ accepted = 0
  /\ freeContexts = TotalQD
  /\ completions = {} /\ stopping = FALSE
  /\ sq = <<>> /\ kernel = {} /\ cq = {}
  /\ wakeCount = 0 /\ wakeFd = "open"
  /\ ownerPc = "reap" /\ prepared = 0
  /\ batched = 0 /\ stats = [submitted |-> 0, load |-> 0, store |-> 0]
  /\ callerPc = "idle" /\ given = {} /\ delivered = {}

-----------------------------------------------------------------------------
(* The Python thread                                                       *)

QueueFull == Len(loadPending) + Len(storePending) >= PendingCapacity

Counted == IF QueueFull THEN 0 ELSE 1

AfterSubmitBug == IF accepted = 0 THEN "wake" ELSE "idle"   \* if it was idle
AfterSubmit    == "wake"

(* A block takes a pending place and the caller goes on to wake the owner  *)
(* after mutex_ is released.  A full queue is answered with an EAGAIN      *)
(* completion and no wake-up.                                              *)
Submit(t) ==
  /\ callerPc = "idle" /\ ~stopping /\ t \notin given
  /\ given' = given \cup {t}
  /\ accepted' = accepted + Counted
  /\ IF QueueFull
     THEN /\ completions' = completions \cup {[task |-> t, ok |-> FALSE]}
          /\ UNCHANGED <<queues, callerPc>>
     ELSE /\ IF t \in Loads
             THEN loadPending' = Append(loadPending, t) /\ UNCHANGED storePending
             ELSE storePending' = Append(storePending, t) /\ UNCHANGED loadPending
          /\ callerPc' = AfterSubmit
          /\ UNCHANGED completions
  /\ UNCHANGED <<inFlight, stopping, ring, wake, owner, stats, delivered>>

(* WakeOwner reads wake_fd_ and then writes to the descriptor, neither     *)
(* under mutex_; Submit and Shutdown both call it.                         *)
WakeReturnPc == IF callerPc \in {"wake", "write"} THEN "idle" ELSE "join"

WakeCheck ==
  /\ callerPc \in {"wake", "stopWake"}
  /\ callerPc' = IF wakeFd = "unset" THEN WakeReturnPc
                 ELSE IF callerPc = "wake" THEN "write" ELSE "stopWrite"
  /\ UNCHANGED <<blocks, stopping, ring, wake, owner, stats, history>>

(* The write is lost when the descriptor is no longer the eventfd.         *)
WakeWrite ==
  /\ callerPc \in {"write", "stopWrite"}
  /\ wakeCount' = IF wakeFd = "open" THEN wakeCount + 1 ELSE wakeCount
  /\ callerPc' = WakeReturnPc
  /\ UNCHANGED <<blocks, stopping, ring, wakeFd, owner, stats, history>>

TakeCompletions ==
  /\ delivered' = delivered \cup completions
  /\ completions' = {}

PollCompletions ==
  /\ callerPc \in {"idle", "closed"}
  /\ completions # {}
  /\ TakeCompletions
  /\ UNCHANGED <<queues, inFlight, accepted, stopping, ring, wake, owner,
                 stats, callerPc, given>>

DrainBegin ==
  /\ callerPc = "idle"
  /\ callerPc' = "drain"
  /\ UNCHANGED <<blocks, stopping, ring, wake, owner, stats, history>>

(* idle_cv_.wait: the predicate is tested with the lock held; a caller it  *)
(* fails for sleeps until notify_all.                                      *)
DrainDoneBug == loadPending = <<>> /\ storePending = <<>>
DrainDone    == accepted = 0

DrainTest ==
  /\ callerPc = "drain"
  /\ IF DrainDone
     THEN TakeCompletions /\ callerPc' = "idle"
     ELSE callerPc' = "waiting" /\ UNCHANGED <<completions, delivered>>
  /\ UNCHANGED <<queues, inFlight, accepted, stopping, ring, wake, owner, stats, given>>

AtRest == accepted = 0 /\ completions = {}

(* ResetStats raises unless the engine is at rest.                         *)
ResetStats ==
  /\ callerPc \in {"idle", "closed"} /\ AtRest
  /\ stats' = [submitted |-> 0, load |-> 0, store |-> 0]
  /\ UNCHANGED <<blocks, stopping, ring, wake, owner, callerPc, history>>

(* Shutdown may be called again, as the destructor does.                   *)
ShutdownBegin ==
  /\ callerPc \in {"idle", "closed"}
  /\ stopping' = TRUE
  /\ callerPc' = "stopWake"
  /\ UNCHANGED <<blocks, ring, wake, owner, stats, history>>

Join ==
  /\ callerPc = "join"
  /\ ownerPc = "exited"
  /\ callerPc' = "closed"
  /\ UNCHANGED <<blocks, stopping, ring, wake, owner, stats, history>>

-----------------------------------------------------------------------------
(* The owner thread                                                        *)

(* The last block accepted wakes a drain.                                  *)
Notified == IF callerPc = "waiting" /\ accepted' = 0 THEN "drain" ELSE callerPc

(* Finish of one completion.                                               *)
Finish(c) ==
  /\ completions' = completions \cup {c}
  /\ IF c.task \in Loads
     THEN loadInFlight' = loadInFlight - 1 /\ UNCHANGED storeInFlight
     ELSE storeInFlight' = storeInFlight - 1 /\ UNCHANGED loadInFlight
  /\ stats' = IF c.task \in Loads THEN [stats EXCEPT !.load = @ + 1]
                                  ELSE [stats EXCEPT !.store = @ + 1]
  /\ freeContexts' = freeContexts + 1
  /\ accepted' = accepted - 1
  /\ callerPc' = Notified

Seen(c) == cq \ {c}

Reap ==
  /\ ownerPc = "reap"
  /\ \E c \in cq : Finish(c) /\ cq' = Seen(c)
  /\ UNCHANGED <<queues, stopping, sq, kernel, wake, owner, history>>

ReapDone ==
  /\ ownerPc = "reap" /\ cq = {}
  /\ ownerPc' = "dispatch"
  /\ UNCHANGED <<blocks, stopping, ring, wake, prepared, batched, stats, callerPc, history>>

CanDispatchBug ==        \* stores may use the load reserve
  /\ loadInFlight + storeInFlight < TotalQD /\ freeContexts > 0
  /\ loadPending # <<>> \/ storePending # <<>>

CanDispatch ==
  /\ loadInFlight + storeInFlight < TotalQD /\ freeContexts > 0
  /\ \/ loadPending # <<>>
     \/ storePending # <<>> /\ storeInFlight < StoreQD

(* One block leaves the pending queues, loads first, and takes an entry of *)
(* the submission queue.                                                   *)
DispatchOne ==
  IF loadPending # <<>>
  THEN /\ sq' = Append(sq, Head(loadPending))
       /\ loadPending' = Tail(loadPending)
       /\ loadInFlight' = loadInFlight + 1
       /\ UNCHANGED <<storePending, storeInFlight>>
  ELSE /\ sq' = Append(sq, Head(storePending))
       /\ storePending' = Tail(storePending)
       /\ storeInFlight' = storeInFlight + 1
       /\ UNCHANGED <<loadPending, loadInFlight>>

(* io_uring_get_sqe fails, and the owner terminates the process, when the  *)
(* submission queue is full.                                               *)
Dispatch ==
  /\ ownerPc = "dispatch"
  /\ prepared < SubmitBatch /\ CanDispatch
  /\ Len(sq) < RingEntries(TotalQD)
  /\ DispatchOne
  /\ freeContexts' = freeContexts - 1
  /\ prepared' = prepared + 1
  /\ UNCHANGED <<accepted, completions, stopping, kernel, cq, wake, ownerPc,
                 batched, stats, callerPc, history>>

AfterBatchBug == IF prepared = 0 THEN "dispatch" ELSE "submit" \* never reaps
AfterBatch    == IF prepared > 0 THEN "submit"
                 ELSE IF batched > 0 THEN "count" ELSE "check"

BatchReady ==
  /\ ownerPc = "dispatch"
  /\ ~(prepared < SubmitBatch /\ CanDispatch)
  /\ ownerPc' = AfterBatch
  /\ UNCHANGED <<blocks, stopping, ring, wake, prepared, batched, stats, callerPc, history>>

(* io_uring_submit takes at least one entry and perhaps not all; the owner *)
(* calls it again until the batch is in the kernel.                        *)
LeftBug(n) == 0          \* takes a partial submission for a whole one
Left(n)    == prepared - n

SubmitPrepared ==
  /\ ownerPc = "submit"
  /\ \E n \in 1 .. prepared :
       /\ kernel' = kernel \cup ToSet(SubSeq(sq, 1, n))
       /\ sq' = SubSeq(sq, prepared - Left(n) + 1, Len(sq))
       /\ prepared' = Left(n)
       /\ batched' = batched + n
  /\ ownerPc' = IF prepared' = 0 THEN "dispatch" ELSE "submit"
  /\ UNCHANGED <<blocks, stopping, cq, wake, stats, callerPc, history>>

(* The statistics of all batches of one dispatch are added at its end.     *)
CountBatches ==
  /\ ownerPc = "count"
  /\ stats' = [stats EXCEPT !.submitted = @ + batched]
  /\ batched' = 0
  /\ ownerPc' = "check"
  /\ UNCHANGED <<blocks, stopping, ring, wake, prepared, callerPc, history>>

MustStopBug == stopping  \* stops with requests in flight
MustStop    == stopping /\ accepted = 0

StopCheck ==
  /\ ownerPc = "check"
  /\ ownerPc' = IF MustStop THEN "destroy" ELSE "poll"
  /\ UNCHANGED <<blocks, stopping, ring, wake, prepared, batched, stats, callerPc, history>>

(* poll returns when the completion queue or the eventfd is readable.      *)
PollReturns ==
  /\ ownerPc = "poll"
  /\ cq # {} \/ wakeCount > 0
  /\ ownerPc' = IF wakeCount > 0 THEN "drainWake" ELSE "reap"
  /\ UNCHANGED <<blocks, stopping, ring, wake, prepared, batched, stats, callerPc, history>>

DrainWakeFd ==
  /\ ownerPc = "drainWake"
  /\ wakeCount' = 0
  /\ ownerPc' = "reap"
  /\ UNCHANGED <<blocks, stopping, ring, wakeFd, prepared, batched, stats, callerPc, history>>

(* DestroySlabAndRing closes the eventfd and then overwrites wake_fd_.     *)
CloseWakeFd ==
  /\ ownerPc = "destroy"
  /\ wakeFd' = "closed"
  /\ ownerPc' = "unset"
  /\ UNCHANGED <<blocks, stopping, ring, wakeCount, prepared, batched, stats, callerPc, history>>

UnsetWakeFd ==
  /\ ownerPc = "unset"
  /\ wakeFd' = "unset"
  /\ ownerPc' = "exited"
  /\ UNCHANGED <<blocks, stopping, ring, wakeCount, prepared, batched, stats, callerPc, history>>

-----------------------------------------------------------------------------
(* The kernel finishes any request; a short or failed transfer is not ok.  *)
KernelCompletes(t) ==
  /\ t \in kernel
  /\ kernel' = kernel \ {t}
  /\ \E ok \in BOOLEAN :
       (ok \/ t \in Faulty) /\ cq' = cq \cup {[task |-> t, ok |-> ok]}
  /\ UNCHANGED <<blocks, stopping, sq, wake, owner, stats, callerPc, history>>

OwnerNext ==
  \/ Reap \/ ReapDone \/ Dispatch \/ BatchReady \/ SubmitPrepared
  \/ CountBatches \/ StopCheck \/ PollReturns \/ DrainWakeFd \/ CloseWakeFd \/ UnsetWakeFd

(* The steps inside a call the Python thread has begun. *)
CallNext == WakeCheck \/ WakeWrite \/ DrainTest \/ Join

Next ==
  \/ \E t \in Tasks : Submit(t)
  \/ PollCompletions \/ DrainBegin \/ ResetStats \/ ShutdownBegin
  \/ CallNext
  \/ OwnerNext
  \/ \E t \in Tasks : KernelCompletes(t)

Spec == Init /\ [][Next]_vars

(* Both threads are scheduled and the kernel answers every request; the    *)
(* caller is not obliged to begin any call.                                *)
Fairness ==
  /\ WF_vars(OwnerNext)
  /\ WF_vars(CallNext)
  /\ \A t \in Tasks : WF_vars(KernelCompletes(t))

FairSpec == Spec /\ Fairness

-----------------------------------------------------------------------------
(* Properties                                                              *)

Pending    == ToSet(loadPending) \cup ToSet(storePending)
Dispatched == ToSet(sq) \cup kernel \cup {c.task : c \in cq}
Answered   == {c.task : c \in completions}
Received   == {c.task : c \in delivered}

(* The statistics of any moment fit together: what was submitted and not   *)
(* finished is in the kernel or answered by it, and no snapshot, however   *)
(* it falls between the owner's sections, shows more blocks finished than  *)
(* submitted.  A reset in between cannot unbalance them, because it is     *)
(* refused while a block is accepted.                                      *)
StatsReconcile ==
  /\ stats.submitted + batched =
       stats.load + stats.store + Cardinality(kernel) + Cardinality(cq)
  /\ stats.load + stats.store <= stats.submitted

(* A block passed to Submit is in exactly one place until the caller has   *)
(* its completion, and it never has two: batching, partial submission and  *)
(* the EAGAIN path neither lose nor repeat a block.  The counters Drain,   *)
(* Shutdown and the dispatcher decide by agree with the blocks, and so do  *)
(* the statistics.                                                         *)
BlocksAccounted ==
  /\ given = UNION {Pending, Dispatched, Answered, Received}
  /\ Cardinality(given) =
       accepted + Cardinality(completions) + Cardinality(delivered)
  /\ accepted = Len(loadPending) + Len(storePending) + loadInFlight + storeInFlight
  /\ loadInFlight = Cardinality(Dispatched \cap Loads)
  /\ storeInFlight = Cardinality(Dispatched \cap Stores)
  /\ loadInFlight + storeInFlight = Len(sq) + Cardinality(kernel) + Cardinality(cq)
  /\ freeContexts = TotalQD - Cardinality(Dispatched)
  /\ StatsReconcile

(* The kernel never has more than total_qd requests, stores leave the load *)
(* reserve alone, the submission queue has an entry for every request the  *)
(* owner prepares, and the completion queue cannot overflow.               *)
RingLimits ==
  /\ Cardinality(Dispatched) <= TotalQD /\ storeInFlight <= StoreQD
  /\ ownerPc = "dispatch" /\ prepared < SubmitBatch /\ CanDispatch
       => Len(sq) < RingEntries(TotalQD)
  /\ Cardinality(cq) + Cardinality(kernel) + Len(sq) <= RingEntries(2 * TotalQD)
  /\ prepared = Len(sq)

(* The owner only sleeps in poll when it has nothing it could do: it never *)
(* sleeps over a block it could dispatch or a stop it should obey, unless  *)
(* the caller is still on its way to wake it.  A load that waits then      *)
(* waits behind at least load_reserve loads and never behind stores alone. *)
Asleep == ownerPc = "poll" /\ cq = {} /\ wakeCount = 0

NoLostWakeup ==
  Asleep /\ callerPc \notin {"wake", "write", "stopWake", "stopWrite"} =>
    /\ ~CanDispatch
    /\ ~(stopping /\ accepted = 0)
    /\ accepted > 0 => kernel # {}
    /\ loadPending # <<>> => loadInFlight >= LoadReserve

(* Once the owner tears the ring down, and so once Shutdown returned, no   *)
(* request can touch primary memory any more and none will.                *)
ShutdownReleasesMemory ==
  /\ ownerPc \in {"destroy", "unset", "exited"} => Pending \cup Dispatched = {}
  /\ callerPc = "closed" => ownerPc = "exited" /\ wakeFd = "unset"

(* A drain returns with every block passed to Submit answered and handed   *)
(* to the caller.                                                          *)
DrainIsComplete ==
  [][callerPc = "drain" /\ callerPc' = "idle" => Received' = given]_vars

(* The engine keeps the block I/O contract.                                *)
StatusOf(t) == IF t \notin given THEN "new"
               ELSE IF t \in Answered THEN "ready"
               ELSE IF t \in Received THEN "delivered" ELSE "owed"

Contract == INSTANCE BlockIoContract WITH
  status  <- [t \in Tasks |-> StatusOf(t)],
  outcome <- [t \in Tasks |-> [task |-> t, ok |-> TRUE] \in completions \cup delivered],
  closed  <- stopping

ImplementsContract == Contract!FairSpec

(* A drain returns, and so does a shutdown.                                *)
CallsReturn ==
  /\ callerPc = "drain" ~> callerPc = "idle"
  /\ callerPc = "stopWake" ~> callerPc = "closed"

(* The comment in WakeOwner (data_engine.cpp:369) knows one way the write  *)
(* may fail, a signal that is already pending.  This says the descriptor   *)
(* written to is always the open eventfd.                                  *)
WakeWritesToEventfd == callerPc \in {"write", "stopWrite"} => wakeFd = "open"
=============================================================================
