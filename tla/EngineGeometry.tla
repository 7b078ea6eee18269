---------------------------- MODULE EngineGeometry ----------------------------
(***************************************************************************)
(* The arithmetic between a block's two slot ids and the addresses its     *)
(* transfer uses: what the constructor and ValidateTask of the engine      *)
(* accept, and the offsets that DispatchAvailable computes again, in words *)
(* that wrap.  There is no behaviour here, only operators; module          *)
(* SlabLifecycle_proofs says what holds of them for every width and every  *)
(* geometry.  The blocking engine does the same arithmetic in its own      *)
(* ValidateTask and WorkerLoop.                                            *)
(***************************************************************************)
EXTENDS Integers

CONSTANTS
  SizeMax,       \* numeric_limits<size_t>::max()
  OffMax,        \* numeric_limits<off_t>::max()
  IdMax,         \* the largest slot id, an uint64_t
  PrimaryBase,   \* address of the primary buffer
  PrimaryBytes,  \* its length
  BlockSize,     \* block_size_bytes
  SlabBytes,     \* slab_bytes
  MemAlign,      \* stx_dio_mem_align of the slab's file system
  OffsetAlign    \* stx_dio_offset_align

(* What the platform gives: slot ids are at least as wide as size_t, off_t *)
(* has a sign, and a buffer that exists does not run over the address      *)
(* space.                                                                  *)
Platform ==
  /\ SizeMax \in Nat /\ IdMax \in Nat /\ OffMax \in Nat
  /\ SizeMax <= IdMax /\ OffMax < SizeMax
  /\ PrimaryBase \in Nat /\ PrimaryBytes \in Nat /\ BlockSize \in Nat /\ SlabBytes \in Nat
  /\ PrimaryBase + PrimaryBytes <= SizeMax /\ BlockSize <= SizeMax /\ SlabBytes <= SizeMax
  /\ MemAlign \in Nat /\ OffsetAlign \in Nat

SlotIds == 0 .. IdMax
Tasks   == [primary : SlotIds, secondary : SlotIds]

(* The constructor's checks of its arguments.                              *)
ArgumentsValid ==
  /\ BlockSize # 0
  /\ SlabBytes # 0 /\ SlabBytes % BlockSize = 0
  /\ SlabBytes <= OffMax

(* ValidateGeometry: what the owner's startup finds out about direct I/O.  *)
GeometryValid ==
  /\ MemAlign # 0 /\ OffsetAlign # 0
  /\ PrimaryBase % MemAlign = 0
  /\ BlockSize % MemAlign = 0 /\ BlockSize % OffsetAlign = 0

Constructed == ArgumentsValid /\ GeometryValid

(* CheckedMultiply: it throws, or returns the product as a word.           *)
Overflows(lhs, rhs) == rhs # 0 /\ lhs > SizeMax \div rhs
Product(lhs, rhs)   == (lhs * rhs) % (SizeMax + 1)

(* ValidateTask returns.                                                   *)
InRange(slot, bytes) ==
  /\ slot <= SizeMax
  /\ ~Overflows(slot, BlockSize)
  /\ Product(slot, BlockSize) <= bytes
  /\ BlockSize <= bytes - Product(slot, BlockSize)

Accepted(task) == InRange(task.primary, PrimaryBytes) /\ InRange(task.secondary, SlabBytes)

(* What DispatchAvailable gives to the kernel: the id is cut to size_t for *)
(* the address, and the slab's product, as wide as an id, becomes signed.  *)
PrimaryAddress(task) ==
  (PrimaryBase + Product(task.primary % (SizeMax + 1), BlockSize)) % (SizeMax + 1)
SlabOffset(task) ==
  LET wide == (task.secondary * BlockSize) % (IdMax + 1)
  IN  IF wide <= OffMax THEN wide ELSE wide - (IdMax + 1)

(* The bytes a transfer touches.                                           *)
Bytes(first) == first .. (first + BlockSize - 1)

(* The slots that the adapter's ledger hands out: the slab is cut into     *)
(* SlotCapacity slots, and the scheduler names a block of the buffer.      *)
SlotCapacity == SlabBytes \div BlockSize
LedgerTasks  == [primary : 0 .. ((PrimaryBytes \div BlockSize) - 1),
                 secondary : 0 .. (SlotCapacity - 1)]
================================================================================
