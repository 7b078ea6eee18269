----------------------------- MODULE TierManager -----------------------------
(***************************************************************************)
(* The adapter between the vLLM scheduler and the engine,                  *)
(* src/uring_slab_tier/vllm_tier.py: the control plane composed with an    *)
(* engine that keeps BlockIoContract and with the contents of the slab.    *)
(*                                                                         *)
(* The scheduler thread is in at most one call.  A call that feeds several *)
(* completions to the ledger, or waits for the engine, takes several steps *)
(* and the engine goes on meanwhile.                                       *)
(*                                                                         *)
(* Definitions whose name ends in Bug are slips the properties are tested  *)
(* against.  The delayed-miss switch of lookup is in module     *)
(* MissDelay.                                                              *)
(***************************************************************************)
EXTENDS ControlPlane, SequencesExt

CONSTANT NoData   \* contents of a slot that holds no whole block

VARIABLES
  status, outcome, stopping,  \* the engine, see BlockIoContract
  slab,     \* what each slot holds: the key of a whole block, or NoData
  fetched,  \* history: what each load that succeeded has read
  pc,       \* the call the scheduler thread is in
  pendingResults,  \* _pending_results, harvested by a drain
  closed,   \* _closed
  handed    \* history: the results the scheduler received for each job

Engine == INSTANCE BlockIoContract WITH Tasks <- Block, closed <- stopping

io       == <<status, outcome, stopping, slab, fetched>>
adapter  == <<pc, pendingResults, closed, handed>>
tierVars == <<vars, io, adapter>>

Owed   == Engine!In("owed")
Ready  == Engine!In("ready")
(* Completions the current call took and has not yet fed to the ledger.    *)
Polled == {b \in outstanding : status[b] = "delivered"}

TierInit ==
  /\ Init
  /\ Engine!Init
  /\ slab = [s \in Slots |-> NoData]
  /\ fetched = {}
  /\ pc = "idle" /\ closed = FALSE
  /\ pendingResults = {}
  /\ handed = [j \in JobIds |-> <<>>]

-----------------------------------------------------------------------------
(* From the moment a store is accepted its slot may be half written.       *)
EngineTakesBug(new) ==   \* a refused block gets no completion
  \E refused \in SUBSET new :
    /\ Engine!Submit(new \ refused, {})
    /\ UNCHANGED <<slab, fetched>>

EngineTakes(new) ==
  \E refused \in SUBSET new :
    /\ Engine!Submit(new, refused)
    /\ slab' = [s \in Slots |->
                  IF \E b \in new \ refused : direction'[b.job] = "store" /\ b.slot = s
                  THEN NoData ELSE slab[s]]
    /\ UNCHANGED fetched

(* The block moves as its I/O ends; a failed one moved nothing whole.      *)
EngineCompletes(b, ok) ==
  /\ Engine!Complete(b, ok)
  /\ slab' = IF ok /\ direction[b.job] = "store"
             THEN [slab EXCEPT ![b.slot] = b.key] ELSE slab
  /\ fetched' = IF ok /\ direction[b.job] = "load"
                THEN fetched \cup {[key |-> b.key, data |-> slab[b.slot]]} ELSE fetched
  /\ UNCHANGED <<vars, adapter>>

(* poll_completions, and what drain hands out. *)
TakeReady ==
  /\ Engine!Poll \/ (Ready = {} /\ UNCHANGED <<status, outcome, stopping>>)
  /\ UNCHANGED <<slab, fetched>>

EngineHasPendingWork == Owed # {} \/ Ready # {}

-----------------------------------------------------------------------------
(* submit_store and submit_load: the ledger's assignments go to the engine *)
(* one by one before the call returns.                                     *)
TierSubmit(j, keys) ==
  /\ pc = "idle" /\ ~closed
  /\ SubmitStore(j, keys) \/ SubmitLoad(j, keys)
  /\ EngineTakes(outstanding' \ outstanding)
  /\ UNCHANGED adapter

(* get_finished_jobs first pumps the completions that are ready ...        *)
PollBegin ==
  /\ pc = "idle"
  /\ TakeReady
  /\ pc' = "pump"
  /\ UNCHANGED <<vars, pendingResults, closed, handed>>

Feed ==
  /\ pc \in {"pump", "drainPump"}
  /\ \E b \in Polled : CompleteBlock(b, outcome[b])
  /\ UNCHANGED <<io, adapter>>

Harvested == {[job |-> j, ok |-> success[j]] : j \in Finished}
Harvest   == GetFinishedJobs \/ (Finished = {} /\ UNCHANGED vars)

Deliver(jobResults) ==
  handed' = [j \in JobIds |->
               handed[j] \o SetToSeq({r.ok : r \in {r \in jobResults : r.job = j}})]

(* ... and returns what a drain harvested with what is finished now.       *)
PollEndEarlyBug ==       \* stops pumping at some completion
  /\ pc = "pump"
  /\ Harvest
  /\ Deliver(pendingResults \cup Harvested)
  /\ pendingResults' = {}
  /\ pc' = "idle"
  /\ UNCHANGED <<io, closed>>

PollEndKeepsBug ==       \* forgets to empty the buffer of drained results
  /\ pc = "pump" /\ Polled = {}
  /\ Harvest
  /\ Deliver(pendingResults \cup Harvested)
  /\ pc' = "idle"
  /\ UNCHANGED <<io, pendingResults, closed>>

PollEnd ==
  /\ pc = "pump" /\ Polled = {}
  /\ Harvest
  /\ Deliver(pendingResults \cup Harvested)
  /\ pendingResults' = {}
  /\ pc' = "idle"
  /\ UNCHANGED <<io, closed>>

DrainCall ==
  /\ pc = "idle"
  /\ pc' = "drain"
  /\ UNCHANGED <<vars, io, pendingResults, closed, handed>>

EngineDrained ==
  /\ pc = "drain" /\ Owed = {}
  /\ TakeReady
  /\ pc' = "drainPump"
  /\ UNCHANGED <<vars, pendingResults, closed, handed>>

(* drain_jobs raises when a job is left, after it kept the results.        *)
DrainEndDropsBug ==      \* harvests without keeping the results
  /\ pc = "drainPump" /\ Polled = {}
  /\ Harvest
  /\ pc' = "idle"
  /\ UNCHANGED <<io, pendingResults, closed, handed>>

DrainEnd ==
  /\ pc = "drainPump" /\ Polled = {}
  /\ Harvest
  /\ pendingResults' = pendingResults \cup Harvested
  /\ pc' = "idle"
  /\ UNCHANGED <<io, closed, handed>>

TierClear ==
  /\ pc = "idle"
  /\ ~EngineHasPendingWork
  /\ ClearResidency
  /\ UNCHANGED <<io, adapter>>

(* shutdown refuses new jobs and joins the engine, which completes what it *)
(* accepted; their results may be collected afterwards, or never.          *)
ShutdownCall ==
  /\ pc = "idle"
  /\ closed' = TRUE
  /\ Engine!Close
  /\ pc' = "stop"
  /\ UNCHANGED <<vars, slab, fetched, pendingResults, handed>>

ShutdownReturns ==
  /\ pc = "stop" /\ Owed = {}
  /\ pc' = "idle"
  /\ UNCHANGED <<vars, io, pendingResults, closed, handed>>

TierNext ==
  \/ \E j \in JobIds, keys \in SUBSET Keys : TierSubmit(j, keys)
  \/ \E b \in Owed, ok \in BOOLEAN : EngineCompletes(b, ok)
  \/ PollBegin \/ Feed \/ PollEnd
  \/ DrainCall \/ EngineDrained \/ DrainEnd
  \/ TierClear
  \/ ShutdownCall \/ ShutdownReturns

TierSpec == TierInit /\ [][TierNext]_tierVars

(* The engine keeps its side of the contract, a call that was begun runs,  *)
(* and the scheduler asks for finished jobs in every step, until it shuts  *)
(* the adapter down: then it may collect what is left, or never ask again. *)
TierFairness ==
  /\ \A j \in JobIds :
       WF_tierVars(\E b \in Owed, ok \in BOOLEAN : b.job = j /\ EngineCompletes(b, ok))
  /\ WF_tierVars(Feed \/ PollEnd \/ EngineDrained \/ DrainEnd \/ ShutdownReturns)
  /\ SF_tierVars(~closed /\ PollBegin)

TierFairSpec == TierSpec /\ TierFairness

-----------------------------------------------------------------------------
(* Properties                                                              *)

(* The ledger and the engine agree on the blocks in between: each one is   *)
(* with the engine, or in the hands of the call that polled it.            *)
NoBlockForgotten ==
  /\ outstanding = Owed \cup Ready \cup Polled
  /\ pc \in {"idle", "drain", "stop"} => Polled = {}

(* Whatever lookup calls a hit can be read: the slot of a resident key     *)
(* holds a whole block of that key, through failed stores, failed loads    *)
(* and slots reused after clear_residency.                                 *)
ResidentDataPresent == \A k \in Resident : slab[key2slot[k]] = k

(* A load that succeeds has read the block of its own key.                 *)
LoadsReadTheirKey == \A f \in fetched : f.data = f.key

(* has_pending_work, which the scheduler trusts to go idle: when it is     *)
(* false every job it ever submitted has its result, exactly one, although *)
(* results may wait in _pending_results or completions in the engine.      *)
HasPendingWork == pendingResults # {} \/ live # {} \/ EngineHasPendingWork

ResultsHandedOnce ==
  /\ \A j \in JobIds : Len(handed[j]) <= 1 /\ (handed[j] # <<>> => handed[j] = results[j])
  /\ pc = "idle" /\ ~HasPendingWork => \A j \in JobIds : j < nextJob => handed[j] # <<>>

(* Seen from the ledger the composition is the environment ControlPlane    *)
(* assumes, fairness included for as long as the adapter is open.          *)
LedgerEnvironment == Spec /\ (Fairness \/ <>closed)

(* A submitted job is handed to the scheduler, unless a shutdown comes     *)
(* first: shutdown harvests nothing, it warns about the jobs that are left *)
(* (vllm_tier.py:264-272).                                                 *)
EveryJobHanded == \A j \in JobIds : j \in live ~> handed[j] # <<>> \/ closed

(* A None answer of lookup converges: the key settles, unless a shutdown   *)
(* comes first.                                                            *)
RetryConverges ==
  \A k \in Keys : Lookup(k) = "retry" ~> Lookup(k) # "retry" \/ closed
=============================================================================
