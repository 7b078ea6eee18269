SPECIFICATION FairSpec
CONSTANTS
  Loads = {l1}
  Stores = {s1, s2}
  Faulty = {l1, s1}
  TotalQD = 4
  PendingCapacity = 4
  SubmitBatch = 1
PROPERTIES
  ImplementsContract
  CallsReturn
