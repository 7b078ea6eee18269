------------------------- MODULE SlabLifecycle_proofs -------------------------
(***************************************************************************)
(* Proofs about SlabLifecycle, for any number of processes that share one  *)
(* slab_path, and any number of crashes and restarts: a running engine's   *)
(* slab is whole and holds nothing but its own blocks, and no failure or   *)
(* crash leaves a resource or the lock behind.  And about EngineGeometry,  *)
(* for any widths and geometry that this startup lets through: transfers   *)
(* stay inside buffer and slab, apart from each other and aligned.         *)
(***************************************************************************)
EXTENDS SlabLifecycle, EngineGeometry, TLAPS

Resources == {"fd", "wakeFd", "object", "ring", "files"}
OwnerPcs  == Stages \cup {"none", "complete", "notify", "loop", "unregister", "exitRing",
                          "closeWake", "closeSlab", "done", "exited"}
CtorPcs   == {"none", "test", "wait", "join", "returned", "threw"}

SlabTypeOK ==
  /\ held \in [Processes -> SUBSET Resources]
  /\ members \in [Processes -> SUBSET Resources]
  /\ error \in [Processes -> Stages \cup {"none"}]
  /\ lock \in Processes \cup {Nobody}
  /\ slab \in [size : {"old", "empty", "whole"}, data : SUBSET (Processes \cup {Nobody})]
  /\ ownerPc \in [Processes -> OwnerPcs]
  /\ startup \in [Processes -> {"pending", "ok", "failed"}]
  /\ ctorPc \in [Processes -> CtorPcs]
  /\ restarts \in [Processes -> Nat]

(* What the path of a failed stage leaves to DestroySlabAndRing: nothing   *)
(* where it closes all, and all it had where it has no path.  After the    *)
(* loop, which no exception ends, the engine has everything.               *)
LeftBy(e) ==
  CASE e = "none"     -> Resources
    [] e = "allocate" -> {"fd", "wakeFd"}
    [] e = "entries"  -> {"fd", "wakeFd", "object"}
    [] OTHER          -> {}

(* Where the owner is tells what its process has.                          *)
HeldAt(pc, outcome, e) ==
  CASE pc \in {"flock", "ftruncate", "fallocate", "geometry", "eventfd"} -> {"fd"}
    [] pc = "allocate"                  -> {"fd", "wakeFd"}
    [] pc \in {"entries", "ring"}       -> {"fd", "wakeFd", "object"}
    [] pc = "register"                  -> {"fd", "wakeFd", "object", "ring"}
    [] pc \in {"complete", "loop"}      -> Resources
    [] pc = "notify" /\ outcome = "ok"  -> Resources
    [] pc = "unregister"                -> LeftBy(e)
    [] pc = "exitRing"                  -> LeftBy(e) \ {"files"}
    [] pc = "closeWake"                 -> LeftBy(e) \cap {"fd", "wakeFd"}
    [] pc = "closeSlab"                 -> LeftBy(e) \cap {"fd"}
    [] OTHER                            -> {}

Unwinding == {"unregister", "exitRing", "closeWake", "closeSlab"}

(* The lock is held from flock on until the slab is closed.                *)
Locked(p) ==
  \/ ownerPc[p] \in {"ftruncate", "fallocate", "geometry", "eventfd", "allocate", "entries",
                     "ring", "register", "complete", "loop"}
  \/ ownerPc[p] = "notify" /\ startup[p] = "ok"
  \/ ownerPc[p] \in Unwinding /\ error[p] \in {"none", "allocate", "entries"}

(* What the holder of the lock has done to the file.                       *)
SlabPrepared(p) ==
  Locked(p) /\ ownerPc[p] # "ftruncate" =>
    /\ slab.data \subseteq {p}
    /\ ownerPc[p] # "fallocate" => slab.size = "whole"

(* The constructor learns of a failure from an owner that is done.         *)
FailureIsFinal(p) ==
  /\ ownerPc[p] = "notify" => startup[p] # "pending"
  /\ startup[p] = "failed" => ownerPc[p] \in {"none", "notify", "exited"}
  /\ ctorPc[p] = "threw" => ownerPc[p] = "exited"
  /\ ctorPc[p] = "none" => ownerPc[p] = "none"

(* There is an exception to handle only once a stage has failed.           *)
ErrorIsHandled(p) ==
  error[p] # "none" =>
    /\ ownerPc[p] \in Unwinding \cup {"done", "notify", "exited"}
    /\ ownerPc[p] = "notify" => startup[p] = "failed"

(* The invariant of one process; the processes meet in lock and slab.      *)
ProcessInv(p) ==
  /\ held[p] = HeldAt(ownerPc[p], startup[p], error[p])
  /\ members[p] = held[p] \ {"ring"}
  /\ lock = p <=> Locked(p)
  /\ SlabPrepared(p)
  /\ FailureIsFinal(p)
  /\ ErrorIsHandled(p)

SlabInv == SlabTypeOK /\ \A p \in Processes : ProcessInv(p)

(* A step of process p: it leaves the others what they have, and the slab  *)
(* alone while another one has the lock.                                   *)
Local(p) ==
  \A q \in Processes \ {p} :
    /\ held'[q] = held[q] /\ members'[q] = members[q] /\ error'[q] = error[q]
    /\ ownerPc'[q] = ownerPc[q]
    /\ startup'[q] = startup[q] /\ ctorPc'[q] = ctorPc[q]
    /\ lock' = q <=> lock = q
    /\ lock = q => slab' = slab

--------------------------------------------------------------------------------
(* It holds before any process has started.                                *)
LEMMA SlabInvInit == Init => SlabInv
  BY ProcessesAssumption
    
         DEF Init, SlabInv, SlabTypeOK, ProcessInv, HeldAt, LeftBy, Unwinding, Locked,
             SlabPrepared, FailureIsFinal, ErrorIsHandled,
         Resources, OwnerPcs, CtorPcs, Stages

(* A process that a step leaves alone keeps its invariant.                 *)
LEMMA OthersKeep ==
  ASSUME SlabInv, NEW p \in Processes, Local(p), NEW q \in Processes, q # p
  PROVE  ProcessInv(q)'
<1>1. Locked(q)' <=> Locked(q)
  BY DEF Local, Locked
<1>2. SlabPrepared(q)'
  BY <1>1 DEF Local, SlabInv, ProcessInv, SlabPrepared
<1>3. FailureIsFinal(q)' /\ ErrorIsHandled(q)'
  BY DEF Local, SlabInv, ProcessInv, FailureIsFinal, ErrorIsHandled
<1>4. held'[q] = HeldAt(ownerPc'[q], startup'[q], error'[q]) /\ members'[q] = held'[q] \ {"ring"}
  BY DEF Local, SlabInv, ProcessInv
<1> QED BY <1>1, <1>2, <1>3, <1>4 DEF Local, SlabInv, ProcessInv

(* Letting go of resources keeps the lock as long as the file is open.     *)
LEMMA HoldsKeeps ==
  ASSUME SlabInv, NEW p \in Processes, NEW resources \in SUBSET Resources, Holds(p, resources)
  PROVE  /\ held' \in [Processes -> SUBSET Resources] /\ lock' \in Processes \cup {Nobody}
         /\ held'[p] = resources
         /\ \A q \in Processes \ {p} : held'[q] = held[q] /\ (lock' = q <=> lock = q)
         /\ lock' = p <=> lock = p /\ ("fd" \in resources \/ "files" \in resources)
  BY ProcessesAssumption DEF Holds, SlabInv, SlabTypeOK
--------------------------------------------------------------------------------
(* What the proof of a step shows of process p.                            *)
StepKeeps(p) == SlabTypeOK' /\ Local(p) /\ ProcessInv(p)'

(* The steps that acquire or release nothing but the lock.                 *)
LEMMA PlainSteps ==
  ASSUME SlabInv, NEW p \in Processes,
         \/ Construct(p) \/ Flock(p) \/ Ftruncate(p) \/ Fallocate(p) \/ ValidateGeometry(p)
         \/ RingEntries(p) \/ StartupComplete(p) \/ NotifyCtor(p) \/ PublishError(p)
         \/ OwnerEnds(p) \/ CtorTest(p) \/ CtorJoin(p) \/ StoreBlock(p) \/ StopEngine(p)
  PROVE  StepKeeps(p)
<1> USE ProcessesAssumption DEF SlabInv, StepKeeps, owned
<1>1. CASE Construct(p)
  <2> USE <1>1 DEF Construct, OwnerGoes
  <2>1. SlabTypeOK'
    BY DEF SlabTypeOK, OwnerPcs, CtorPcs, Stages, Resources
  <2>2. Local(p)
    BY DEF Local, SlabTypeOK, ProcessInv, Locked
  <2>3. lock' = p <=> Locked(p)'
    BY DEF SlabTypeOK, ProcessInv, Locked, Unwinding, FailureIsFinal, ErrorIsHandled
  <2>4. SlabPrepared(p)'
    BY DEF SlabTypeOK, ProcessInv, Locked, Unwinding, SlabPrepared, FailureIsFinal, ErrorIsHandled
  <2>5. FailureIsFinal(p)' /\ ErrorIsHandled(p)'
    BY DEF SlabTypeOK, ProcessInv, Unwinding, FailureIsFinal, ErrorIsHandled, OwnerPcs, CtorPcs
  <2>6. held'[p] = HeldAt(ownerPc'[p], startup'[p], error'[p]) /\ members'[p] = held'[p] \ {"ring"}
    BY DEF SlabTypeOK, ProcessInv, HeldAt, LeftBy, Unwinding, FailureIsFinal, ErrorIsHandled
  <2> QED BY <2>1, <2>2, <2>3, <2>4, <2>5, <2>6 DEF ProcessInv
<1>2. CASE Flock(p)
  <2> USE <1>2 DEF Flock, Lockable, OwnerGoes
  <2>1. SlabTypeOK'
    BY DEF SlabTypeOK, OwnerPcs, CtorPcs, Stages, Resources
  <2>2. Local(p)
    BY DEF Local, SlabTypeOK, ProcessInv, Locked
  <2>3. lock' = p <=> Locked(p)'
    BY DEF SlabTypeOK, ProcessInv, Locked, Unwinding, FailureIsFinal, ErrorIsHandled
  <2>4. SlabPrepared(p)'
    BY DEF SlabTypeOK, ProcessInv, Locked, Unwinding, SlabPrepared, FailureIsFinal, ErrorIsHandled
  <2>5. FailureIsFinal(p)' /\ ErrorIsHandled(p)'
    BY DEF SlabTypeOK, ProcessInv, Unwinding, FailureIsFinal, ErrorIsHandled, OwnerPcs, CtorPcs
  <2>6. held'[p] = HeldAt(ownerPc'[p], startup'[p], error'[p]) /\ members'[p] = held'[p] \ {"ring"}
    BY DEF SlabTypeOK, ProcessInv, HeldAt, LeftBy, Unwinding, FailureIsFinal, ErrorIsHandled
  <2> QED BY <2>1, <2>2, <2>3, <2>4, <2>5, <2>6 DEF ProcessInv
<1>3. CASE Ftruncate(p)
  <2> USE <1>3 DEF Ftruncate, Truncated, OwnerGoes
  <2>1. SlabTypeOK'
    BY DEF SlabTypeOK, OwnerPcs, CtorPcs, Stages, Resources
  <2>2. Local(p)
    BY DEF Local, SlabTypeOK, ProcessInv, Locked
  <2>3. lock' = p <=> Locked(p)'
    BY DEF SlabTypeOK, ProcessInv, Locked, Unwinding, FailureIsFinal, ErrorIsHandled
  <2>4. SlabPrepared(p)'
    BY DEF SlabTypeOK, ProcessInv, Locked, Unwinding, SlabPrepared, FailureIsFinal, ErrorIsHandled
  <2>5. FailureIsFinal(p)' /\ ErrorIsHandled(p)'
    BY DEF SlabTypeOK, ProcessInv, Unwinding, FailureIsFinal, ErrorIsHandled, OwnerPcs, CtorPcs
  <2>6. held'[p] = HeldAt(ownerPc'[p], startup'[p], error'[p]) /\ members'[p] = held'[p] \ {"ring"}
    BY DEF SlabTypeOK, ProcessInv, HeldAt, LeftBy, Unwinding, FailureIsFinal, ErrorIsHandled
  <2> QED BY <2>1, <2>2, <2>3, <2>4, <2>5, <2>6 DEF ProcessInv
<1>4. CASE Fallocate(p)
  <2> USE <1>4 DEF Fallocate, OwnerGoes
  <2>1. SlabTypeOK'
    BY DEF SlabTypeOK, OwnerPcs, CtorPcs, Stages, Resources
  <2>2. Local(p)
    BY DEF Local, SlabTypeOK, ProcessInv, Locked
  <2>3. lock' = p <=> Locked(p)'
    BY DEF SlabTypeOK, ProcessInv, Locked, Unwinding, FailureIsFinal, ErrorIsHandled
  <2>4. SlabPrepared(p)'
    BY DEF SlabTypeOK, ProcessInv, Locked, Unwinding, SlabPrepared, FailureIsFinal, ErrorIsHandled
  <2>5. FailureIsFinal(p)' /\ ErrorIsHandled(p)'
    BY DEF SlabTypeOK, ProcessInv, Unwinding, FailureIsFinal, ErrorIsHandled, OwnerPcs, CtorPcs
  <2>6. held'[p] = HeldAt(ownerPc'[p], startup'[p], error'[p]) /\ members'[p] = held'[p] \ {"ring"}
    BY DEF SlabTypeOK, ProcessInv, HeldAt, LeftBy, Unwinding, FailureIsFinal, ErrorIsHandled
  <2> QED BY <2>1, <2>2, <2>3, <2>4, <2>5, <2>6 DEF ProcessInv
<1>5. CASE ValidateGeometry(p)
  <2> USE <1>5 DEF ValidateGeometry, OwnerGoes
  <2>1. SlabTypeOK'
    BY DEF SlabTypeOK, OwnerPcs, CtorPcs, Stages, Resources
  <2>2. Local(p)
    BY DEF Local, SlabTypeOK, ProcessInv, Locked
  <2>3. lock' = p <=> Locked(p)'
    BY DEF SlabTypeOK, ProcessInv, Locked, Unwinding, FailureIsFinal, ErrorIsHandled
  <2>4. SlabPrepared(p)'
    BY DEF SlabTypeOK, ProcessInv, Locked, Unwinding, SlabPrepared, FailureIsFinal, ErrorIsHandled
  <2>5. FailureIsFinal(p)' /\ ErrorIsHandled(p)'
    BY DEF SlabTypeOK, ProcessInv, Unwinding, FailureIsFinal, ErrorIsHandled, OwnerPcs, CtorPcs
  <2>6. held'[p] = HeldAt(ownerPc'[p], startup'[p], error'[p]) /\ members'[p] = held'[p] \ {"ring"}
    BY DEF SlabTypeOK, ProcessInv, HeldAt, LeftBy, Unwinding, FailureIsFinal, ErrorIsHandled
  <2> QED BY <2>1, <2>2, <2>3, <2>4, <2>5, <2>6 DEF ProcessInv
<1>6. CASE RingEntries(p)
  <2> USE <1>6 DEF RingEntries, OwnerGoes
  <2>1. SlabTypeOK'
    BY DEF SlabTypeOK, OwnerPcs, CtorPcs, Stages, Resources
  <2>2. Local(p)
    BY DEF Local, SlabTypeOK, ProcessInv, Locked
  <2>3. lock' = p <=> Locked(p)'
    BY DEF SlabTypeOK, ProcessInv, Locked, Unwinding, FailureIsFinal, ErrorIsHandled
  <2>4. SlabPrepared(p)'
    BY DEF SlabTypeOK, ProcessInv, Locked, Unwinding, SlabPrepared, FailureIsFinal, ErrorIsHandled
  <2>5. FailureIsFinal(p)' /\ ErrorIsHandled(p)'
    BY DEF SlabTypeOK, ProcessInv, Unwinding, FailureIsFinal, ErrorIsHandled, OwnerPcs, CtorPcs
  <2>6. held'[p] = HeldAt(ownerPc'[p], startup'[p], error'[p]) /\ members'[p] = held'[p] \ {"ring"}
    BY DEF SlabTypeOK, ProcessInv, HeldAt, LeftBy, Unwinding, FailureIsFinal, ErrorIsHandled
  <2> QED BY <2>1, <2>2, <2>3, <2>4, <2>5, <2>6 DEF ProcessInv
<1>7. CASE StartupComplete(p)
  <2> USE <1>7 DEF StartupComplete, OwnerGoes
  <2>1. SlabTypeOK'
    BY DEF SlabTypeOK, OwnerPcs, CtorPcs, Stages, Resources
  <2>2. Local(p)
    BY DEF Local, SlabTypeOK, ProcessInv, Locked
  <2>3. lock' = p <=> Locked(p)'
    BY DEF SlabTypeOK, ProcessInv, Locked, Unwinding, FailureIsFinal, ErrorIsHandled
  <2>4. SlabPrepared(p)'
    BY DEF SlabTypeOK, ProcessInv, Locked, Unwinding, SlabPrepared, FailureIsFinal, ErrorIsHandled
  <2>5. FailureIsFinal(p)' /\ ErrorIsHandled(p)'
    BY DEF SlabTypeOK, ProcessInv, Unwinding, FailureIsFinal, ErrorIsHandled, OwnerPcs, CtorPcs
  <2>6. held'[p] = HeldAt(ownerPc'[p], startup'[p], error'[p]) /\ members'[p] = held'[p] \ {"ring"}
    BY DEF SlabTypeOK, ProcessInv, HeldAt, LeftBy, Unwinding, FailureIsFinal, ErrorIsHandled
  <2> QED BY <2>1, <2>2, <2>3, <2>4, <2>5, <2>6 DEF ProcessInv
<1>8. CASE NotifyCtor(p)
  <2> USE <1>8 DEF NotifyCtor, Awakened, OwnerGoes
  <2>1. SlabTypeOK'
    BY DEF SlabTypeOK, OwnerPcs, CtorPcs, Stages, Resources
  <2>2. Local(p)
    BY DEF Local, SlabTypeOK, ProcessInv, Locked
  <2>3. lock' = p <=> Locked(p)'
    BY DEF SlabTypeOK, ProcessInv, Locked, Unwinding, FailureIsFinal, ErrorIsHandled
  <2>4. SlabPrepared(p)'
    BY DEF SlabTypeOK, ProcessInv, Locked, Unwinding, SlabPrepared, FailureIsFinal, ErrorIsHandled
  <2>5. FailureIsFinal(p)' /\ ErrorIsHandled(p)'
    BY DEF SlabTypeOK, ProcessInv, Unwinding, FailureIsFinal, ErrorIsHandled, OwnerPcs, CtorPcs
  <2>6. held'[p] = HeldAt(ownerPc'[p], startup'[p], error'[p]) /\ members'[p] = held'[p] \ {"ring"}
    BY DEF SlabTypeOK, ProcessInv, HeldAt, LeftBy, Unwinding, FailureIsFinal, ErrorIsHandled
  <2> QED BY <2>1, <2>2, <2>3, <2>4, <2>5, <2>6 DEF ProcessInv
<1>9. CASE PublishError(p)
  <2> USE <1>9 DEF PublishError, OwnerGoes
  <2>1. SlabTypeOK'
    BY DEF SlabTypeOK, OwnerPcs, CtorPcs, Stages, Resources
  <2>2. Local(p)
    BY DEF Local, SlabTypeOK, ProcessInv, Locked
  <2>3. lock' = p <=> Locked(p)'
    BY DEF SlabTypeOK, ProcessInv, Locked, Unwinding, FailureIsFinal, ErrorIsHandled
  <2>4. SlabPrepared(p)'
    BY DEF SlabTypeOK, ProcessInv, Locked, Unwinding, SlabPrepared, FailureIsFinal, ErrorIsHandled
  <2>5. FailureIsFinal(p)' /\ ErrorIsHandled(p)'
    BY DEF SlabTypeOK, ProcessInv, Unwinding, FailureIsFinal, ErrorIsHandled, OwnerPcs, CtorPcs
  <2>6. held'[p] = HeldAt(ownerPc'[p], startup'[p], error'[p]) /\ members'[p] = held'[p] \ {"ring"}
    BY DEF SlabTypeOK, ProcessInv, HeldAt, LeftBy, Unwinding, FailureIsFinal, ErrorIsHandled
  <2> QED BY <2>1, <2>2, <2>3, <2>4, <2>5, <2>6 DEF ProcessInv
<1>10. CASE OwnerEnds(p)
  <2> USE <1>10 DEF OwnerEnds, OwnerGoes
  <2>1. SlabTypeOK'
    BY DEF SlabTypeOK, OwnerPcs, CtorPcs, Stages, Resources
  <2>2. Local(p)
    BY DEF Local, SlabTypeOK, ProcessInv, Locked
  <2>3. lock' = p <=> Locked(p)'
    BY DEF SlabTypeOK, ProcessInv, Locked, Unwinding, FailureIsFinal, ErrorIsHandled
  <2>4. SlabPrepared(p)'
    BY DEF SlabTypeOK, ProcessInv, Locked, Unwinding, SlabPrepared, FailureIsFinal, ErrorIsHandled
  <2>5. FailureIsFinal(p)' /\ ErrorIsHandled(p)'
    BY DEF SlabTypeOK, ProcessInv, Unwinding, FailureIsFinal, ErrorIsHandled, OwnerPcs, CtorPcs
  <2>6. held'[p] = HeldAt(ownerPc'[p], startup'[p], error'[p]) /\ members'[p] = held'[p] \ {"ring"}
    BY DEF SlabTypeOK, ProcessInv, HeldAt, LeftBy, Unwinding, FailureIsFinal, ErrorIsHandled
  <2> QED BY <2>1, <2>2, <2>3, <2>4, <2>5, <2>6 DEF ProcessInv
<1>11. CASE CtorTest(p)
  <2> USE <1>11 DEF CtorTest
  <2>1. SlabTypeOK'
    BY DEF SlabTypeOK, OwnerPcs, CtorPcs, Stages, Resources
  <2>2. Local(p)
    BY DEF Local, SlabTypeOK, ProcessInv, Locked
  <2>3. lock' = p <=> Locked(p)'
    BY DEF SlabTypeOK, ProcessInv, Locked, Unwinding, FailureIsFinal, ErrorIsHandled
  <2>4. SlabPrepared(p)'
    BY DEF SlabTypeOK, ProcessInv, Locked, Unwinding, SlabPrepared, FailureIsFinal, ErrorIsHandled
  <2>5. FailureIsFinal(p)' /\ ErrorIsHandled(p)'
    BY DEF SlabTypeOK, ProcessInv, Unwinding, FailureIsFinal, ErrorIsHandled, OwnerPcs, CtorPcs
  <2>6. held'[p] = HeldAt(ownerPc'[p], startup'[p], error'[p]) /\ members'[p] = held'[p] \ {"ring"}
    BY DEF SlabTypeOK, ProcessInv, HeldAt, LeftBy, Unwinding, FailureIsFinal, ErrorIsHandled
  <2> QED BY <2>1, <2>2, <2>3, <2>4, <2>5, <2>6 DEF ProcessInv
<1>12. CASE CtorJoin(p)
  <2> USE <1>12 DEF CtorJoin
  <2>1. SlabTypeOK'
    BY DEF SlabTypeOK, OwnerPcs, CtorPcs, Stages, Resources
  <2>2. Local(p)
    BY DEF Local, SlabTypeOK, ProcessInv, Locked
  <2>3. lock' = p <=> Locked(p)'
    BY DEF SlabTypeOK, ProcessInv, Locked, Unwinding, FailureIsFinal, ErrorIsHandled
  <2>4. SlabPrepared(p)'
    BY DEF SlabTypeOK, ProcessInv, Locked, Unwinding, SlabPrepared, FailureIsFinal, ErrorIsHandled
  <2>5. FailureIsFinal(p)' /\ ErrorIsHandled(p)'
    BY DEF SlabTypeOK, ProcessInv, Unwinding, FailureIsFinal, ErrorIsHandled, OwnerPcs, CtorPcs
  <2>6. held'[p] = HeldAt(ownerPc'[p], startup'[p], error'[p]) /\ members'[p] = held'[p] \ {"ring"}
    BY DEF SlabTypeOK, ProcessInv, HeldAt, LeftBy, Unwinding, FailureIsFinal, ErrorIsHandled
  <2> QED BY <2>1, <2>2, <2>3, <2>4, <2>5, <2>6 DEF ProcessInv
<1>13. CASE StoreBlock(p)
  <2> USE <1>13 DEF StoreBlock, process
  <2>1. SlabTypeOK'
    BY DEF SlabTypeOK, OwnerPcs, CtorPcs, Stages, Resources
  <2>2. Local(p)
    BY DEF Local, SlabTypeOK, ProcessInv, Locked
  <2>3. lock' = p <=> Locked(p)'
    BY DEF SlabTypeOK, ProcessInv, Locked, Unwinding, FailureIsFinal, ErrorIsHandled
  <2>4. SlabPrepared(p)'
    BY DEF SlabTypeOK, ProcessInv, Locked, Unwinding, SlabPrepared, FailureIsFinal, ErrorIsHandled
  <2>5. FailureIsFinal(p)' /\ ErrorIsHandled(p)'
    BY DEF SlabTypeOK, ProcessInv, Unwinding, FailureIsFinal, ErrorIsHandled, OwnerPcs, CtorPcs
  <2>6. held'[p] = HeldAt(ownerPc'[p], startup'[p], error'[p]) /\ members'[p] = held'[p] \ {"ring"}
    BY DEF SlabTypeOK, ProcessInv, HeldAt, LeftBy, Unwinding, FailureIsFinal, ErrorIsHandled
  <2> QED BY <2>1, <2>2, <2>3, <2>4, <2>5, <2>6 DEF ProcessInv
<1>14. CASE StopEngine(p)
  <2> USE <1>14 DEF StopEngine, OwnerGoes
  <2>1. SlabTypeOK'
    BY DEF SlabTypeOK, OwnerPcs, CtorPcs, Stages, Resources
  <2>2. Local(p)
    BY DEF Local, SlabTypeOK, ProcessInv, Locked
  <2>3. lock' = p <=> Locked(p)'
    BY DEF SlabTypeOK, ProcessInv, Locked, Unwinding, FailureIsFinal, ErrorIsHandled
  <2>4. SlabPrepared(p)'
    BY DEF SlabTypeOK, ProcessInv, Locked, Unwinding, SlabPrepared, FailureIsFinal, ErrorIsHandled
  <2>5. FailureIsFinal(p)' /\ ErrorIsHandled(p)'
    BY DEF SlabTypeOK, ProcessInv, Unwinding, FailureIsFinal, ErrorIsHandled, OwnerPcs, CtorPcs
  <2>6. held'[p] = HeldAt(ownerPc'[p], startup'[p], error'[p]) /\ members'[p] = held'[p] \ {"ring"}
    BY DEF SlabTypeOK, ProcessInv, HeldAt, LeftBy, Unwinding, FailureIsFinal, ErrorIsHandled
  <2> QED BY <2>1, <2>2, <2>3, <2>4, <2>5, <2>6 DEF ProcessInv
<1> QED BY <1>1, <1>2, <1>3, <1>4, <1>5, <1>6, <1>7, <1>8, <1>9, <1>10, <1>11, <1>12, <1>13, <1>14

(* The steps that acquire or release resources.                            *)
LEMMA ResourceSteps ==
  ASSUME SlabInv, NEW p \in Processes,
         Acquire(p) \/ StageFails(p) \/ DestroySlabAndRing(p) \/ Restart(p)
  PROVE  StepKeeps(p)
<1> USE ProcessesAssumption DEF SlabInv
<1>1. CASE Acquire(p)
  <2> USE <1>1 DEF Acquire, OwnerGoes, Acquired, Following
  <2>1. PICK resources \in SUBSET Resources :
          Holds(p, resources) /\ resources = held[p] \cup {Acquired[ownerPc[p]]}
    BY DEF SlabTypeOK, Resources, Stages
  <2>2. /\ held' \in [Processes -> SUBSET Resources] /\ lock' \in Processes \cup {Nobody}
        /\ held'[p] = resources
        /\ \A q \in Processes \ {p} : held'[q] = held[q] /\ (lock' = q <=> lock = q)
        /\ lock' = p <=> lock = p /\ ("fd" \in resources \/ "files" \in resources)
    BY <2>1, HoldsKeeps
  <2>3. SlabTypeOK'
    <3>1. Following[ownerPc[p]] \in OwnerPcs
      BY DEF OwnerPcs, Stages
    <3>2. ownerPc' \in [Processes -> OwnerPcs]
      BY <3>1 DEF SlabTypeOK
    <3>3. /\ members' \in [Processes -> SUBSET Resources]
          /\ error' \in [Processes -> Stages \cup {"none"}]
      BY DEF SlabTypeOK, Resources, Stages
    <3>4. ctorPc' \in [Processes -> CtorPcs] /\ restarts' \in [Processes -> Nat]
      BY DEF SlabTypeOK, CtorPcs
    <3> QED BY <2>2, <3>2, <3>3, <3>4 DEF SlabTypeOK
  <2>4. Local(p)
    BY <2>2 DEF Local, SlabTypeOK
  <2>5. held'[p] = HeldAt(ownerPc'[p], startup'[p], error'[p])
    BY <2>1, <2>2
        DEF SlabTypeOK, ProcessInv, HeldAt, LeftBy, Unwinding, ErrorIsHandled, Resources, Stages
  <2>6. members'[p] = held'[p] \ {"ring"}
    BY <2>1, <2>2 DEF SlabTypeOK, ProcessInv, HeldAt, LeftBy, Resources, Stages
  <2>7. lock' = p <=> Locked(p)'
    BY <2>1, <2>2
        DEF SlabTypeOK, ProcessInv, Locked, HeldAt, LeftBy, Unwinding, ErrorIsHandled, Resources,
            Stages
  <2>8. SlabPrepared(p)'
    BY <2>7, <2>2
        DEF SlabTypeOK, ProcessInv, Locked, SlabPrepared, Unwinding, ErrorIsHandled, Stages
  <2>9. FailureIsFinal(p)' /\ ErrorIsHandled(p)'
    BY DEF SlabTypeOK, ProcessInv, FailureIsFinal, ErrorIsHandled, Unwinding, Stages
  <2> QED BY <2>3, <2>4, <2>5, <2>6, <2>7, <2>8, <2>9 DEF StepKeeps, ProcessInv
<1>2. CASE StageFails(p)
  <2> USE <1>2 DEF StageFails, ClosedBy, OwnerGoes
  <2>1. PICK resources \in SUBSET Resources :
          Holds(p, resources) /\ resources = held[p] \ ClosedBy[ownerPc[p]]
    BY DEF SlabTypeOK, Resources, Stages
  <2>2. /\ held' \in [Processes -> SUBSET Resources] /\ lock' \in Processes \cup {Nobody}
        /\ held'[p] = resources
        /\ \A q \in Processes \ {p} : held'[q] = held[q] /\ (lock' = q <=> lock = q)
        /\ lock' = p <=> lock = p /\ ("fd" \in resources \/ "files" \in resources)
    BY <2>1, HoldsKeeps
  <2>3. SlabTypeOK'
    <3>1. "unregister" \in OwnerPcs
      BY DEF OwnerPcs, Stages
    <3>2. ownerPc' \in [Processes -> OwnerPcs]
      BY <3>1 DEF SlabTypeOK
    <3>3. /\ members' \in [Processes -> SUBSET Resources]
          /\ error' \in [Processes -> Stages \cup {"none"}]
      BY DEF SlabTypeOK, Resources, Stages
    <3>4. ctorPc' \in [Processes -> CtorPcs] /\ restarts' \in [Processes -> Nat]
      BY DEF SlabTypeOK, CtorPcs
    <3> QED BY <2>2, <3>2, <3>3, <3>4 DEF SlabTypeOK
  <2>4. Local(p)
    BY <2>2 DEF Local, SlabTypeOK
  <2>5. held'[p] = HeldAt(ownerPc'[p], startup'[p], error'[p])
    BY <2>1, <2>2
        DEF SlabTypeOK, ProcessInv, HeldAt, LeftBy, Unwinding, ErrorIsHandled, Resources, Stages
  <2>6. members'[p] = held'[p] \ {"ring"}
    BY <2>1, <2>2 DEF SlabTypeOK, ProcessInv, HeldAt, LeftBy, Resources, Stages
  <2>7. lock' = p <=> Locked(p)'
    BY <2>1, <2>2
        DEF SlabTypeOK, ProcessInv, Locked, HeldAt, LeftBy, Unwinding, ErrorIsHandled, Resources,
            Stages
  <2>8. SlabPrepared(p)'
    BY <2>7, <2>2
        DEF SlabTypeOK, ProcessInv, Locked, SlabPrepared, Unwinding, ErrorIsHandled, Stages
  <2>9. FailureIsFinal(p)' /\ ErrorIsHandled(p)'
    BY DEF SlabTypeOK, ProcessInv, FailureIsFinal, ErrorIsHandled, Unwinding, Stages
  <2> QED BY <2>3, <2>4, <2>5, <2>6, <2>7, <2>8, <2>9 DEF StepKeeps, ProcessInv
<1>3. CASE DestroySlabAndRing(p)
  <2> USE <1>3 DEF DestroySlabAndRing, Destroyed, AfterDestroyed, GoesWith, OwnerGoes
  <2>1. PICK resources \in SUBSET Resources :
          /\ Holds(p, resources)
          /\ resources = held[p] \ GoesWith(Destroyed[ownerPc[p]])
    <3> DEFINE resource == Destroyed[ownerPc[p]]
    <3>0. /\ ownerPc[p] \in Unwinding /\ held[p] \subseteq Resources
          /\ held[p] = HeldAt(ownerPc[p], startup[p], error[p])
          /\ members[p] = held[p] \ {"ring"}
      BY DEF Unwinding, SlabTypeOK, ProcessInv
    <3>1. CASE resource \in members[p]
      BY <3>1 DEF SlabTypeOK
    <3>2. CASE resource \notin members[p]
      <4>1. held[p] \ GoesWith(resource) = held[p]
        <5>1. CASE ownerPc[p] = "exitRing"
          BY <5>1, <3>0, <3>2 DEF HeldAt, LeftBy, Resources
        <5>2. CASE ownerPc[p] # "exitRing"
          BY <5>2, <3>0, <3>2 DEF Unwinding
        <5> QED BY <5>1, <5>2
      <4>2. Holds(p, held[p])
        <5>1. held' = [held EXCEPT ![p] = held[p]] /\ lock' = lock
          BY <3>2 DEF SlabTypeOK
        <5>2. lock = p => "fd" \in held[p]
          <6> SUFFICES ASSUME lock = p PROVE "fd" \in held[p]
            OBVIOUS
          <6>1. error[p] \in {"none", "allocate", "entries"}
            BY <3>0 DEF ProcessInv, Locked, Unwinding
          <6>2. "fd" \in LeftBy(error[p])
            BY <6>1 DEF LeftBy, Resources
          <6> QED BY <3>0, <6>2 DEF HeldAt, Unwinding
        <5> QED BY <5>1, <5>2 DEF Holds
      <4> QED BY <4>1, <4>2 DEF SlabTypeOK
    <3> QED BY <3>1, <3>2
  <2>2. /\ held' \in [Processes -> SUBSET Resources] /\ lock' \in Processes \cup {Nobody}
        /\ held'[p] = resources
        /\ \A q \in Processes \ {p} : held'[q] = held[q] /\ (lock' = q <=> lock = q)
        /\ lock' = p <=> lock = p /\ ("fd" \in resources \/ "files" \in resources)
    BY <2>1, HoldsKeeps
  <2>3. SlabTypeOK'
    <3>1. AfterDestroyed[ownerPc[p]] \in OwnerPcs
      BY DEF OwnerPcs, Stages
    <3>2. ownerPc' \in [Processes -> OwnerPcs]
      BY <3>1 DEF SlabTypeOK
    <3>3. /\ members' \in [Processes -> SUBSET Resources]
          /\ error' \in [Processes -> Stages \cup {"none"}]
      BY DEF SlabTypeOK, Resources, Stages
    <3>4. ctorPc' \in [Processes -> CtorPcs] /\ restarts' \in [Processes -> Nat]
      BY DEF SlabTypeOK, CtorPcs
    <3> QED BY <2>2, <3>2, <3>3, <3>4 DEF SlabTypeOK
  <2>4. Local(p)
    BY <2>2 DEF Local, SlabTypeOK
  <2>5. held'[p] = HeldAt(ownerPc'[p], startup'[p], error'[p])
    BY <2>1, <2>2
        DEF SlabTypeOK, ProcessInv, HeldAt, LeftBy, Unwinding, ErrorIsHandled, Resources, Stages
  <2>6. members'[p] = held'[p] \ {"ring"}
    BY <2>1, <2>2 DEF SlabTypeOK, ProcessInv, HeldAt, LeftBy, Resources, Stages
  <2>7. lock' = p <=> Locked(p)'
    BY <2>1, <2>2
        DEF SlabTypeOK, ProcessInv, Locked, HeldAt, LeftBy, Unwinding, ErrorIsHandled, Resources,
            Stages
  <2>8. SlabPrepared(p)'
    BY <2>7, <2>2
        DEF SlabTypeOK, ProcessInv, Locked, SlabPrepared, Unwinding, ErrorIsHandled, Stages
  <2>9. FailureIsFinal(p)' /\ ErrorIsHandled(p)'
    BY DEF SlabTypeOK, ProcessInv, FailureIsFinal, ErrorIsHandled, Unwinding, Stages
  <2> QED BY <2>3, <2>4, <2>5, <2>6, <2>7, <2>8, <2>9 DEF StepKeeps, ProcessInv
<1>4. CASE Restart(p)
  <2> USE <1>4 DEF Restart, OwnerGoes
  <2>1. PICK resources \in SUBSET Resources : Holds(p, resources) /\ resources = {}
    BY DEF SlabTypeOK, Resources, Stages
  <2>2. /\ held' \in [Processes -> SUBSET Resources] /\ lock' \in Processes \cup {Nobody}
        /\ held'[p] = resources
        /\ \A q \in Processes \ {p} : held'[q] = held[q] /\ (lock' = q <=> lock = q)
        /\ lock' = p <=> lock = p /\ ("fd" \in resources \/ "files" \in resources)
    BY <2>1, HoldsKeeps
  <2>3. SlabTypeOK'
    <3>1. "none" \in OwnerPcs
      BY DEF OwnerPcs, Stages
    <3>2. ownerPc' \in [Processes -> OwnerPcs]
      BY <3>1 DEF SlabTypeOK
    <3>3. /\ members' \in [Processes -> SUBSET Resources]
          /\ error' \in [Processes -> Stages \cup {"none"}]
      BY DEF SlabTypeOK, Resources, Stages
    <3>4. ctorPc' \in [Processes -> CtorPcs] /\ restarts' \in [Processes -> Nat]
      BY DEF SlabTypeOK, CtorPcs
    <3> QED BY <2>2, <3>2, <3>3, <3>4 DEF SlabTypeOK
  <2>4. Local(p)
    BY <2>2 DEF Local, SlabTypeOK
  <2>5. held'[p] = HeldAt(ownerPc'[p], startup'[p], error'[p])
    BY <2>1, <2>2
        DEF SlabTypeOK, ProcessInv, HeldAt, LeftBy, Unwinding, ErrorIsHandled, Resources, Stages
  <2>6. members'[p] = held'[p] \ {"ring"}
    BY <2>1, <2>2 DEF SlabTypeOK, ProcessInv, HeldAt, LeftBy, Resources, Stages
  <2>7. lock' = p <=> Locked(p)'
    BY <2>1, <2>2
        DEF SlabTypeOK, ProcessInv, Locked, HeldAt, LeftBy, Unwinding, ErrorIsHandled, Resources,
            Stages
  <2>8. SlabPrepared(p)'
    BY <2>7, <2>2
        DEF SlabTypeOK, ProcessInv, Locked, SlabPrepared, Unwinding, ErrorIsHandled, Stages
  <2>9. FailureIsFinal(p)' /\ ErrorIsHandled(p)'
    BY DEF SlabTypeOK, ProcessInv, FailureIsFinal, ErrorIsHandled, Unwinding, Stages
  <2> QED BY <2>3, <2>4, <2>5, <2>6, <2>7, <2>8, <2>9 DEF StepKeeps, ProcessInv
<1> QED BY <1>1, <1>2, <1>3, <1>4

LEMMA SlabInvStep == SlabInv /\ [Next]_vars => SlabInv'
<1> SUFFICES ASSUME SlabInv, [Next]_vars PROVE SlabInv'
  OBVIOUS
<1>1. ASSUME NEW p \in Processes, StepKeeps(p) PROVE SlabInv'
  <2>1. \A q \in Processes : q # p => ProcessInv(q)'
    BY <1>1, OthersKeep DEF StepKeeps
  <2> QED BY <1>1, <2>1 DEF StepKeeps, SlabInv
<1>2. CASE Next
  <2>1. PICK p \in Processes :
          Construct(p) \/ OwnerNext(p) \/ CtorNext(p) \/ StoreBlock(p) \/ StopEngine(p) \/ Restart(p)
    BY <1>2 DEF Next
  <2>2. StepKeeps(p)
    BY <2>1, PlainSteps, ResourceSteps DEF OwnerNext, CtorNext
  <2> QED BY <1>1, <2>2
<1>3. CASE UNCHANGED vars
  BY <1>3
      DEF vars, owned, SlabInv, SlabTypeOK, ProcessInv, Locked, SlabPrepared, FailureIsFinal,
          ErrorIsHandled
<1> QED BY <1>2, <1>3

LEMMA SlabInvariance == Spec => []SlabInv
  BY SlabInvInit, SlabInvStep, PTL DEF Spec

--------------------------------------------------------------------------------
(* An engine that is up finds its slab whole, and in it nothing but its    *)
(* own blocks, whatever the other processes do and wherever any of them    *)
(* failed or died (data_engine.cpp:132-170).                               *)
THEOREM SlabOwnership == Spec => []SlabIsOwn
<1>1. SlabInv => SlabIsOwn
  BY DEF SlabInv, ProcessInv, SlabPrepared, Locked, SlabIsOwn
<1> QED BY <1>1, SlabInvariance, PTL

(* Whichever stage of a start fails, what its own error path closes and    *)
(* what DestroySlabAndRing then finds in the members are together all that *)
(* was acquired, and nothing twice: a constructor that threw and a process *)
(* that is gone have no resource and not the lock, and no call releases    *)
(* what a path closed before, but for the exit of the ring of an object    *)
(* whose RingEntries threw (data_engine.cpp:141-232, 398-409).             *)
THEOREM NoLeak == Spec => []ReleasedOnce
<1>1. SlabInv => NothingLeaks
  <2> SUFFICES ASSUME SlabInv, NEW p \in Processes, ownerPc[p] \in {"none", "exited"}
               PROVE  held[p] = {} /\ lock # p
    BY DEF SlabInv, ProcessInv, FailureIsFinal, HeldAt, NothingLeaks
  <2> QED BY DEF SlabInv, ProcessInv, HeldAt, Locked, Unwinding
<1>2. SlabInv => NothingReleasedTwice
  <2> SUFFICES ASSUME SlabInv, NEW p \in Processes, ownerPc[p] \in DOMAIN Destroyed,
                      Destroyed[ownerPc[p]] \in members[p]
               PROVE  GoesWith(Destroyed[ownerPc[p]])
                        \subseteq held[p] \cup (IF error[p] = "entries" THEN {"ring"} ELSE {})
    BY DEF NothingReleasedTwice
  <2>1. held[p] = HeldAt(ownerPc[p], startup[p], error[p]) /\ members[p] = held[p] \ {"ring"}
    BY DEF SlabInv, ProcessInv
  <2>2. CASE ownerPc[p] = "exitRing"
    BY <2>1, <2>2 DEF Destroyed, GoesWith, HeldAt, LeftBy, Resources
  <2>3. CASE ownerPc[p] # "exitRing"
    BY <2>1, <2>3 DEF Destroyed, GoesWith
  <2> QED BY <2>2, <2>3
<1> QED BY <1>1, <1>2, SlabInvariance, PTL DEF ReleasedOnce

(* Two engines never run on one slab: the one way in is past the lock.     *)
THEOREM OneEngine ==
  Spec => [](\A p, q \in Processes : ownerPc[p] = "loop" /\ ownerPc[q] = "loop" => p = q)
<1>1. SlabInv => \A p, q \in Processes : ownerPc[p] = "loop" /\ ownerPc[q] = "loop" => p = q
  BY DEF SlabInv, ProcessInv, Locked
<1> QED BY <1>1, SlabInvariance, PTL

--------------------------------------------------------------------------------
(* Offsets of an accepted block                                            *)

(* Division by a positive number.                                          *)
LEMMA Division ==
  ASSUME NEW a \in Nat, NEW b \in Nat, b # 0
  PROVE  /\ a \div b \in Nat /\ a % b \in 0 .. (b - 1)
         /\ a = b * (a \div b) + (a % b)
  BY SMT

(* A word that fits is its own remainder.                                  *)
LEMMA Fits ==
  ASSUME NEW a \in Nat, NEW m \in Nat, a <= m
  PROVE  a % (m + 1) = a
  BY SMT

(* Multiplication keeps the order, and stays a natural number.             *)
LEMMA Monotone ==
  ASSUME NEW a \in Nat, NEW b \in Nat, NEW c \in Nat, a <= b
  PROVE  a * c \in Nat /\ b * c \in Nat /\ a * c <= b * c
  BY SMT

(* A multiple of an aligned number is aligned.                             *)
LEMMA Multiples ==
  ASSUME NEW n \in Nat, NEW b \in Nat, NEW m \in Nat, m # 0, b % m = 0
  PROVE  (n * b) % m = 0
<1>1. b = m * (b \div m) /\ b \div m \in Nat
  BY Division
<1> DEFINE k == n * (b \div m)
<1>2. k \in Nat /\ n * b = m * k
  BY <1>1, SMT
<1> HIDE DEF k
<1>3. (m * k) % m = 0
  BY <1>2, SMT
<1> QED BY <1>2, <1>3

(* CheckedMultiply: where it returns, the product has not wrapped.         *)
LEMMA CheckedProduct ==
  ASSUME Platform, Constructed, NEW slot \in Nat, ~Overflows(slot, BlockSize)
  PROVE  /\ slot * BlockSize \in Nat /\ slot * BlockSize <= SizeMax
         /\ Product(slot, BlockSize) = slot * BlockSize
<1> DEFINE most == SizeMax \div BlockSize
<1>1. most \in Nat /\ most * BlockSize <= SizeMax
  <2>1. SizeMax \in Nat /\ BlockSize \in Nat /\ BlockSize # 0
    BY DEF Platform, Constructed, ArgumentsValid, GeometryValid
  <2>2. /\ most \in Nat /\ SizeMax % BlockSize \in 0 .. (BlockSize - 1)
        /\ SizeMax = BlockSize * most + (SizeMax % BlockSize)
    BY <2>1, Division
  <2> QED BY <2>1, <2>2, SMT
<1>2. slot <= most
  BY <1>1 DEF Overflows, Platform, Constructed, ArgumentsValid, GeometryValid
<1>3. slot * BlockSize \in Nat /\ slot * BlockSize <= SizeMax
  BY <1>1, <1>2, Monotone DEF Platform
<1> QED BY <1>3, Fits DEF Product, Platform

(* What the engine computes again for an accepted block is the product     *)
(* that ValidateTask has checked: neither the cut to size_t, nor the sum   *)
(* with the base, nor the sign of off_t changes it.                        *)
LEMMA OffsetsAsChecked ==
  ASSUME Platform, Constructed, NEW task \in Tasks, Accepted(task)
  PROVE  /\ task.primary * BlockSize \in Nat /\ task.secondary * BlockSize \in Nat
         /\ PrimaryAddress(task) = PrimaryBase + task.primary * BlockSize
         /\ SlabOffset(task) = task.secondary * BlockSize
         /\ task.primary * BlockSize + BlockSize <= PrimaryBytes
         /\ task.secondary * BlockSize + BlockSize <= SlabBytes
<1>1. task.primary \in Nat /\ task.secondary \in Nat
  BY DEF Tasks, SlotIds, Platform
<1>2. /\ task.primary * BlockSize \in Nat /\ task.primary * BlockSize <= SizeMax
      /\ Product(task.primary, BlockSize) = task.primary * BlockSize
  BY <1>1, CheckedProduct DEF Accepted, InRange
<1>3. /\ task.secondary * BlockSize \in Nat /\ task.secondary * BlockSize <= SizeMax
      /\ Product(task.secondary, BlockSize) = task.secondary * BlockSize
  BY <1>1, CheckedProduct DEF Accepted, InRange
<1>4. task.primary * BlockSize + BlockSize <= PrimaryBytes
  BY <1>2 DEF Accepted, InRange, Platform
<1>5. task.secondary * BlockSize + BlockSize <= SlabBytes
  BY <1>3 DEF Accepted, InRange, Platform
<1>6. PrimaryAddress(task) = PrimaryBase + task.primary * BlockSize
  <2>1. task.primary % (SizeMax + 1) = task.primary
    BY <1>1, Fits DEF Accepted, InRange, Platform
  <2>2. /\ PrimaryBase + task.primary * BlockSize \in Nat
        /\ PrimaryBase + task.primary * BlockSize <= SizeMax
    BY <1>2, <1>4 DEF Platform
  <2> QED BY <1>2, <2>1, <2>2, Fits DEF PrimaryAddress, Platform
<1>7. SlabOffset(task) = task.secondary * BlockSize
  <2>1. (task.secondary * BlockSize) % (IdMax + 1) = task.secondary * BlockSize
    BY <1>3, Fits DEF Platform
  <2>2. task.secondary * BlockSize <= OffMax
    BY <1>3, <1>5 DEF Platform, Constructed, ArgumentsValid, GeometryValid
  <2> QED BY <2>1, <2>2 DEF SlabOffset
<1> QED BY <1>2, <1>3, <1>4, <1>5, <1>6, <1>7

(* A block the engine accepts is read and written inside the primary       *)
(* buffer and inside the slab (data_engine.cpp:264-283 and 476-489).       *)
THEOREM AcceptedStaysInside ==
  ASSUME Platform, Constructed, NEW task \in Tasks, Accepted(task)
  PROVE  /\ Bytes(PrimaryAddress(task)) \subseteq PrimaryBase .. (PrimaryBase + PrimaryBytes - 1)
         /\ Bytes(SlabOffset(task)) \subseteq 0 .. (SlabBytes - 1)
  BY OffsetsAsChecked DEF Bytes, Platform

(* Blocks of different slots share no byte of the buffer, and none of the  *)
(* slab: that a slot has one user is enough for a block to be whole.       *)
THEOREM DifferentSlotsApart ==
  ASSUME Platform, Constructed,
         NEW task \in Tasks, Accepted(task), NEW other \in Tasks, Accepted(other)
  PROVE  /\ task.primary # other.primary =>
              Bytes(PrimaryAddress(task)) \cap Bytes(PrimaryAddress(other)) = {}
         /\ task.secondary # other.secondary =>
              Bytes(SlabOffset(task)) \cap Bytes(SlabOffset(other)) = {}
<1>1. ASSUME NEW a \in Nat, NEW b \in Nat, a < b
      PROVE  a * BlockSize + BlockSize <= b * BlockSize
  <2>1. (a + 1) * BlockSize <= b * BlockSize
    BY <1>1, Monotone DEF Platform
  <2> QED BY <2>1, SMT DEF Platform
<1>2. /\ task.primary \in Nat /\ task.secondary \in Nat
      /\ other.primary \in Nat /\ other.secondary \in Nat
  BY DEF Tasks, SlotIds, Platform
<1>3. \A a, b \in Nat : a # b => \/ a * BlockSize + BlockSize <= b * BlockSize
                                 \/ b * BlockSize + BlockSize <= a * BlockSize
  BY <1>1
<1>4. task.primary # other.primary =>
        \/ PrimaryAddress(task) + BlockSize <= PrimaryAddress(other)
        \/ PrimaryAddress(other) + BlockSize <= PrimaryAddress(task)
  <2> DEFINE p == task.primary * BlockSize
             q == other.primary * BlockSize
  <2>1. /\ p \in Nat /\ q \in Nat
        /\ PrimaryAddress(task) = PrimaryBase + p /\ PrimaryAddress(other) = PrimaryBase + q
    BY OffsetsAsChecked
  <2>2. task.primary # other.primary => p + BlockSize <= q \/ q + BlockSize <= p
    BY <1>2, <1>3
  <2> HIDE DEF p, q
  <2> QED BY <2>1, <2>2 DEF Platform
<1>5. task.secondary # other.secondary =>
        \/ SlabOffset(task) + BlockSize <= SlabOffset(other)
        \/ SlabOffset(other) + BlockSize <= SlabOffset(task)
  BY <1>2, <1>3, OffsetsAsChecked
<1>6. /\ PrimaryAddress(task) \in Int /\ PrimaryAddress(other) \in Int
      /\ SlabOffset(task) \in Int /\ SlabOffset(other) \in Int /\ BlockSize \in Int
  BY OffsetsAsChecked DEF Platform
<1> QED BY <1>4, <1>5, <1>6 DEF Bytes

(* Every transfer meets the alignment that direct I/O asks for, in memory  *)
(* and in the file, because startup checked base and block size.          *)
THEOREM TransfersAligned ==
  ASSUME Platform, Constructed, NEW task \in Tasks, Accepted(task)
  PROVE  PrimaryAddress(task) % MemAlign = 0 /\ SlabOffset(task) % OffsetAlign = 0
<1>0. /\ BlockSize \in Nat /\ MemAlign \in Nat /\ OffsetAlign \in Nat
      /\ MemAlign # 0 /\ OffsetAlign # 0
      /\ BlockSize % MemAlign = 0 /\ BlockSize % OffsetAlign = 0
  BY DEF Platform, Constructed, GeometryValid
<1>1. task.primary \in Nat /\ task.secondary \in Nat
  BY DEF Tasks, SlotIds, Platform
<1>2. (task.secondary * BlockSize) % OffsetAlign = 0
  BY <1>0, <1>1, Multiples
<1>3. (PrimaryBase + task.primary * BlockSize) % MemAlign = 0
  <2>1. (task.primary * BlockSize) % MemAlign = 0
    BY <1>0, <1>1, Multiples
  <2>2. ASSUME NEW x \in Nat, NEW y \in Nat, NEW m \in Nat, m # 0, x % m = 0, y % m = 0
        PROVE  (x + y) % m = 0
    <3>1. /\ x \div m \in Nat /\ x = m * (x \div m)
          /\ y \div m \in Nat /\ y = m * (y \div m)
      BY <2>2, Division
    <3> DEFINE k == (x \div m) + (y \div m)
    <3>2. x + y = k * m /\ k \in Nat
      BY <3>1, SMT
    <3>3. m % m = 0
      BY <2>2, SMT
    <3> HIDE DEF k
    <3>4. (k * m) % m = 0
      BY <2>2, <3>2, <3>3, Multiples
    <3> QED BY <3>2, <3>4
  <2>3. task.primary * BlockSize \in Nat
    BY OffsetsAsChecked
  <2> QED BY <2>1, <2>2, <2>3 DEF Platform, Constructed, ArgumentsValid, GeometryValid
<1> QED BY <1>2, <1>3, OffsetsAsChecked

(* No block of a job that the ledger admitted is refused for its slots: a  *)
(* job cannot be left with some blocks in flight and an exception for the  *)
(* next (vllm_tier.py:186-193, with the capacity of lines 113 and 120).  *)
THEOREM LedgerSlotsAccepted ==
  ASSUME Platform, Constructed, NEW task \in LedgerTasks
  PROVE  task \in Tasks /\ Accepted(task)
<1>1. ASSUME NEW bytes \in Nat, bytes <= SizeMax,
             NEW slot \in 0 .. ((bytes \div BlockSize) - 1)
      PROVE  slot \in SlotIds /\ InRange(slot, bytes)
  <2>1. BlockSize \in Nat /\ BlockSize # 0 /\ SizeMax \in Nat
    BY DEF Platform, Constructed, ArgumentsValid, GeometryValid
  <2>2. /\ bytes \div BlockSize \in Nat /\ bytes % BlockSize \in Nat
        /\ bytes = BlockSize * (bytes \div BlockSize) + (bytes % BlockSize)
    BY <2>1, Division
  <2>3. (slot + 1) * BlockSize \in Nat /\ (slot + 1) * BlockSize <= bytes
    <3>1. (slot + 1) * BlockSize <= (bytes \div BlockSize) * BlockSize
      BY <2>1, <2>2, Monotone
    <3> QED BY <2>1, <2>2, <3>1, SMT
  <2>4. slot * BlockSize \in Nat /\ slot * BlockSize + BlockSize <= bytes
    BY <2>1, <2>3, SMT
  <2>5. slot <= slot * BlockSize
    BY <2>1, SMT
  <2>6. slot <= SizeMax /\ slot \in SlotIds
    BY <1>1, <2>1, <2>4, <2>5 DEF Platform, SlotIds
  <2>7. ~Overflows(slot, BlockSize)
    <3>1. /\ SizeMax \div BlockSize \in Nat /\ SizeMax % BlockSize \in 0 .. (BlockSize - 1)
          /\ SizeMax = BlockSize * (SizeMax \div BlockSize) + (SizeMax % BlockSize)
      BY <2>1, Division
    <3>2. SUFFICES ASSUME slot > SizeMax \div BlockSize PROVE FALSE
      BY DEF Overflows
    <3>3. ((SizeMax \div BlockSize) + 1) * BlockSize <= slot * BlockSize
      BY <2>1, <3>1, <3>2, Monotone
    <3>4. ((SizeMax \div BlockSize) + 1) * BlockSize > SizeMax
      BY <2>1, <3>1, SMT
    <3> QED BY <1>1, <2>1, <2>4, <3>1, <3>3, <3>4
  <2>8. Product(slot, BlockSize) = slot * BlockSize
    BY <2>7, CheckedProduct
  <2> QED BY <2>1, <2>4, <2>6, <2>7, <2>8 DEF InRange
<1>2. PrimaryBytes \in Nat /\ PrimaryBytes <= SizeMax /\ SlabBytes \in Nat /\ SlabBytes <= SizeMax
  BY DEF Platform
<1>3. /\ task.primary \in 0 .. ((PrimaryBytes \div BlockSize) - 1)
      /\ task.secondary \in 0 .. ((SlabBytes \div BlockSize) - 1)
      /\ task = [primary |-> task.primary, secondary |-> task.secondary]
  BY DEF LedgerTasks, SlotCapacity
<1>4. task.primary \in SlotIds /\ InRange(task.primary, PrimaryBytes)
  BY <1>1, <1>2, <1>3
<1>5. task.secondary \in SlotIds /\ InRange(task.secondary, SlabBytes)
  BY <1>1, <1>2, <1>3
<1> QED BY <1>3, <1>4, <1>5 DEF Tasks, Accepted
================================================================================
