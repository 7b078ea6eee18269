SPECIFICATION Spec
CONSTANTS
  Loads = {l1}
  Stores = {}
  Faulty = {}
  TotalQD = 4
  PendingCapacity = 4
  SubmitBatch = 4
INVARIANTS
  WakeWritesToEventfd
