SPECIFICATION Spec
CONSTANTS
  Loads = {l1}
  Stores = {s1, s2, s3, s4}
  Workers = {w1, w2, w3, w4}
  PendingCapacity = 4
SYMMETRY PoolSymmetry
INVARIANTS
  WorkConserving
  SlabOutlivesTransfers
  NoStuckCall
PROPERTIES
  ImplementsContract
