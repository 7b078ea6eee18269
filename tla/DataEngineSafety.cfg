SPECIFICATION Spec
CONSTANTS
  Loads = {l1, l2}
  Stores = {s1, s2, s3, s4}
  Faulty = {}
  TotalQD = 4
  PendingCapacity = 4
  SubmitBatch = 4
SYMMETRY BlockSymmetry
INVARIANTS
  BlocksAccounted
  RingLimits
  NoLostWakeup
  ShutdownReleasesMemory
PROPERTIES
  DrainIsComplete
