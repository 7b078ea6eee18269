---------------------------- MODULE SlabLifecycle ----------------------------
(***************************************************************************)
(* The life of the slab file under engines that may share its path: the    *)
(* constructor of DataEngine and the startup and teardown its owner thread *)
(* does (csrc/data_engine.cpp:107-232, 397-416), each in a process of its  *)
(* own that may crash.  What the engine does in between is in DataEngine.  *)
(*                                                                         *)
(* The flock belongs to the open file description, which lives as long as  *)
(* the descriptor or the ring's fixed-file table refers to it.             *)
(*                                                                         *)
(* Definitions whose name ends in Bug are slips the properties are tested  *)
(* against.                                                                *)
(***************************************************************************)
EXTENDS Naturals

CONSTANTS
  Processes,   \* processes configured with the same slab_path
  Nobody,      \* no process
  MaxRestarts  \* crashes and stops of each process; bounds the model

ASSUME ProcessesAssumption == Nobody \notin Processes /\ MaxRestarts \in Nat

VARIABLES
  held,      \* what each process has acquired and not released
  members,   \* what the engine's members say it has: slab_fd_, wake_fd_,
             \* ring_ and fixed_file_registered_
  error,     \* the stage whose exception the owner handles, or "none"
  lock,      \* the process whose open file description has the flock
  slab,      \* the file: its size and the processes whose data it holds
  ownerPc,   \* the owner thread of each process
  startup,   \* startup_complete_ and startup_error_
  ctorPc,    \* the thread in the constructor
  restarts

owned   == <<held, members, error>>
process == <<owned, ownerPc, startup, ctorPc>>
vars    == <<owned, lock, slab, ownerPc, startup, ctorPc, restarts>>

(* The calls of InitializeSlabAndRing in their order.  The io_uring object *)
(* is allocated, the sizes of its queues are computed, then the ring is    *)
(* set up in it.                                                           *)
Stages == {"open", "flock", "ftruncate", "fallocate", "geometry", "eventfd",
           "allocate", "entries", "ring", "register"}
Following == [open |-> "flock", flock |-> "ftruncate", ftruncate |-> "fallocate",
              fallocate |-> "geometry", geometry |-> "eventfd", eventfd |-> "allocate",
              allocate |-> "entries", entries |-> "ring", ring |-> "register",
              register |-> "complete"]

Init ==
  /\ held = [p \in Processes |-> {}]
  /\ members = [p \in Processes |-> {}]
  /\ error = [p \in Processes |-> "none"]
  /\ lock = Nobody
  /\ slab = [size |-> "old", data |-> {Nobody}]
  /\ ownerPc = [p \in Processes |-> "none"]
  /\ startup = [p \in Processes |-> "pending"]
  /\ ctorPc = [p \in Processes |-> "none"]
  /\ restarts = [p \in Processes |-> 0]

-----------------------------------------------------------------------------
(* Process p goes on with these resources; the flock goes with the last    *)
(* reference to the file.                                                  *)
Holds(p, resources) ==
  /\ held' = [held EXCEPT ![p] = resources]
  /\ lock' = IF lock = p /\ resources \cap {"fd", "files"} = {} THEN Nobody ELSE lock

OwnerGoes(p, pc) == ownerPc' = [ownerPc EXCEPT ![p] = pc]

(* The constructor starts the owner and waits for it.                      *)
Construct(p) ==
  /\ ctorPc[p] = "none"
  /\ OwnerGoes(p, "open")
  /\ startup' = [startup EXCEPT ![p] = "pending"]
  /\ ctorPc' = [ctorPc EXCEPT ![p] = "test"]
  /\ UNCHANGED <<owned, lock, slab, restarts>>

Acquired == [open |-> "fd", eventfd |-> "wakeFd", allocate |-> "object",
             ring |-> "ring", register |-> "files"]

(* A stage that acquires something.  A ring is known by its object.        *)
Acquire(p) ==
  /\ ownerPc[p] \in DOMAIN Acquired
  /\ Holds(p, held[p] \cup {Acquired[ownerPc[p]]})
  /\ members' = [members EXCEPT ![p] = @ \cup ({Acquired[ownerPc[p]]} \ {"ring"})]
  /\ OwnerGoes(p, Following[ownerPc[p]])
  /\ UNCHANGED <<error, slab, startup, ctorPc, restarts>>

Lockable(p) == lock = Nobody

Flock(p) ==
  /\ ownerPc[p] = "flock"
  /\ Lockable(p)
  /\ lock' = p
  /\ OwnerGoes(p, "ftruncate")
  /\ UNCHANGED <<owned, slab, startup, ctorPc, restarts>>

TruncatedBug == [size |-> "empty", data |-> slab.data]   \* keeps the extents
Truncated    == [size |-> "empty", data |-> {}]

Ftruncate(p) ==
  /\ ownerPc[p] = "ftruncate"
  /\ slab' = Truncated
  /\ OwnerGoes(p, "fallocate")
  /\ UNCHANGED <<owned, lock, startup, ctorPc, restarts>>

Fallocate(p) ==
  /\ ownerPc[p] = "fallocate"
  /\ slab' = [slab EXCEPT !.size = "whole"]
  /\ OwnerGoes(p, "geometry")
  /\ UNCHANGED <<owned, lock, startup, ctorPc, restarts>>

ValidateGeometry(p) ==
  /\ ownerPc[p] = "geometry"
  /\ slab.size = "whole"
  /\ OwnerGoes(p, "eventfd")
  /\ UNCHANGED <<owned, lock, slab, startup, ctorPc, restarts>>

RingEntries(p) ==
  /\ ownerPc[p] = "entries"
  /\ OwnerGoes(p, "ring")
  /\ UNCHANGED <<owned, lock, slab, startup, ctorPc, restarts>>

(* Any stage may fail.  Each has its own path, that closes a list of       *)
(* resources and resets their members; open has nothing to close, and the  *)
(* exceptions of the allocation and of RingEntries have no path.           *)
ClosedByBug ==   \* the registration's path deletes the ring without exiting it
  LET early == {"fd"}
  IN [open |-> {}, flock |-> early, ftruncate |-> early, fallocate |-> early,
      geometry |-> early, eventfd |-> early, allocate |-> {}, entries |-> {},
      ring |-> {"object", "wakeFd", "fd"}, register |-> {"object", "wakeFd", "fd"}]

ClosedBy ==
  LET early == {"fd"}
  IN [open |-> {}, flock |-> early, ftruncate |-> early, fallocate |-> early,
      geometry |-> early, eventfd |-> early, allocate |-> {}, entries |-> {},
      ring |-> {"object", "wakeFd", "fd"}, register |-> {"ring", "object", "wakeFd", "fd"}]

StageFails(p) ==
  /\ ownerPc[p] \in Stages
  /\ Holds(p, held[p] \ ClosedBy[ownerPc[p]])
  /\ members' = [members EXCEPT ![p] = @ \ ClosedBy[ownerPc[p]]]
  /\ error' = [error EXCEPT ![p] = ownerPc[p]]
  /\ OwnerGoes(p, "unregister")
  /\ UNCHANGED <<slab, startup, ctorPc, restarts>>

StartupComplete(p) ==
  /\ ownerPc[p] = "complete"
  /\ startup' = [startup EXCEPT ![p] = "ok"]
  /\ OwnerGoes(p, "notify")
  /\ UNCHANGED <<owned, lock, slab, ctorPc, restarts>>

(* startup_cv_.notify_one, after mutex_ was released.                      *)
AwakenedBug(p) == ctorPc
Awakened(p)    ==
  [ctorPc EXCEPT ![p] = IF @ = "wait" THEN "test" ELSE @]

NotifyCtor(p) ==
  /\ ownerPc[p] = "notify"
  /\ ctorPc' = Awakened(p)
  /\ OwnerGoes(p, IF startup[p] = "ok" THEN "loop" ELSE "exited")
  /\ UNCHANGED <<owned, lock, slab, startup, restarts>>

(* The constructor: wait, then join a failed owner and rethrow.            *)
CtorTest(p) ==
  /\ ctorPc[p] = "test"
  /\ ctorPc' = [ctorPc EXCEPT ![p] = CASE startup[p] = "pending" -> "wait"
                                       [] startup[p] = "ok"      -> "returned"
                                       [] startup[p] = "failed"  -> "join"]
  /\ UNCHANGED <<owned, lock, slab, ownerPc, startup, restarts>>

CtorJoin(p) ==
  /\ ctorPc[p] = "join"
  /\ ownerPc[p] = "exited"
  /\ ctorPc' = [ctorPc EXCEPT ![p] = "threw"]
  /\ UNCHANGED <<owned, lock, slab, ownerPc, startup, restarts>>

-----------------------------------------------------------------------------
(* The running engine stores blocks until it is shut down.                 *)
StoreBlock(p) ==
  /\ ownerPc[p] = "loop"
  /\ slab' = [slab EXCEPT !.data = @ \cup {p}]
  /\ UNCHANGED <<process, lock, restarts>>

StopEngine(p) ==
  /\ ownerPc[p] = "loop" /\ ctorPc[p] = "returned"
  /\ OwnerGoes(p, "unregister")
  /\ UNCHANGED <<owned, lock, slab, startup, ctorPc, restarts>>

(* DestroySlabAndRing, after the loop or to handle an exception: it goes   *)
(* by what the members say, and leaves the ring of an object it deletes.   *)
Destroyed == [unregister |-> "files", exitRing |-> "object", closeWake |-> "wakeFd",
              closeSlab |-> "fd"]
AfterDestroyed == [unregister |-> "exitRing", exitRing |-> "closeWake",
                   closeWake |-> "closeSlab", closeSlab |-> "done"]

GoesWith(resource) == IF resource = "object" THEN {"ring", "object"} ELSE {resource}

DestroySlabAndRing(p) ==
  LET resource == Destroyed[ownerPc[p]]
  IN /\ ownerPc[p] \in DOMAIN Destroyed
     /\ IF resource \in members[p]
        THEN Holds(p, held[p] \ GoesWith(resource)) ELSE UNCHANGED <<held, lock>>
     /\ members' = [members EXCEPT ![p] = @ \ {resource}]
     /\ OwnerGoes(p, AfterDestroyed[ownerPc[p]])
     /\ UNCHANGED <<error, slab, startup, ctorPc, restarts>>

(* Then the owner publishes the exception it handles, or ends.             *)
PublishError(p) ==
  /\ ownerPc[p] = "done" /\ error[p] # "none"
  /\ startup' = [startup EXCEPT ![p] = "failed"]
  /\ OwnerGoes(p, "notify")
  /\ UNCHANGED <<owned, lock, slab, ctorPc, restarts>>

OwnerEnds(p) ==
  /\ ownerPc[p] = "done" /\ error[p] = "none"
  /\ OwnerGoes(p, "exited")
  /\ UNCHANGED <<owned, lock, slab, startup, ctorPc, restarts>>

(* The process is gone, in the middle of a start or of a store or after a  *)
(* stop; the kernel releases what it had and it may be started again.      *)
Restart(p) ==
  /\ ctorPc[p] # "none" /\ restarts[p] < MaxRestarts
  /\ restarts' = [restarts EXCEPT ![p] = @ + 1]
  /\ Holds(p, {})
  /\ members' = [members EXCEPT ![p] = {}]
  /\ error' = [error EXCEPT ![p] = "none"]
  /\ OwnerGoes(p, "none")
  /\ ctorPc' = [ctorPc EXCEPT ![p] = "none"]
  /\ UNCHANGED <<slab, startup>>

OwnerNext(p) ==
  \/ Acquire(p) \/ Flock(p) \/ Ftruncate(p) \/ Fallocate(p) \/ ValidateGeometry(p)
  \/ RingEntries(p) \/ StageFails(p) \/ StartupComplete(p) \/ NotifyCtor(p)
  \/ DestroySlabAndRing(p) \/ PublishError(p) \/ OwnerEnds(p)

CtorNext(p) == CtorTest(p) \/ CtorJoin(p)

Next == \E p \in Processes :
  Construct(p) \/ OwnerNext(p) \/ CtorNext(p) \/ StoreBlock(p) \/ StopEngine(p) \/ Restart(p)

Spec == Init /\ [][Next]_vars

(* Both threads of a process are scheduled; no call blocks for ever.       *)
FairSpec == Spec /\ \A p \in Processes : WF_vars(OwnerNext(p)) /\ WF_vars(CtorNext(p))

-----------------------------------------------------------------------------
(* Properties                                                              *)

(* An engine that is up finds its slab whole and in it nothing but zeros   *)
(* and its own blocks: not those of an earlier or of another process.      *)
SlabIsOwn ==
  \A p \in Processes : ownerPc[p] = "loop" => slab.size = "whole" /\ slab.data \subseteq {p}

(* A constructor that threw left nothing behind, and a lock that is taken  *)
(* is the lock of a process that still has the file: no failure or crash   *)
(* makes a later start impossible.                                         *)
NothingLeaks ==
  /\ \A p \in Processes : ctorPc[p] = "threw" => held[p] = {} /\ ownerPc[p] = "exited"
  /\ \A p \in Processes : ownerPc[p] \in {"none", "exited"} => held[p] = {} /\ lock # p

(* What DestroySlabAndRing is about to release is there: no path of a      *)
(* stage left a member set to what it had closed.  When RingEntries throws *)
(* the object has no ring yet, and io_uring_queue_exit gets it all the     *)
(* same (data_engine.cpp:180-187, 219-221).                                *)
NothingReleasedTwice ==
  \A p \in Processes :
    ownerPc[p] \in DOMAIN Destroyed /\ Destroyed[ownerPc[p]] \in members[p] =>
      GoesWith(Destroyed[ownerPc[p]])
        \subseteq held[p] \cup (IF error[p] = "entries" THEN {"ring"} ELSE {})

(* Whatever stage of a start fails, its own path and DestroySlabAndRing    *)
(* together release each thing that was acquired, and each once.           *)
ReleasedOnce == NothingLeaks /\ NothingReleasedTwice

(* The constructor returns or throws, unless the process dies.             *)
ConstructorReturns ==
  \A p \in Processes : ctorPc[p] = "test" ~> ctorPc[p] \in {"returned", "threw", "none"}
=============================================================================
