SPECIFICATION FairSpec
CONSTANTS
  Programs = {"m4", "m0", "m1"}
  Jobs = 3
  BlocksPerJob = 2
  MaxInflightJobs = 2
  TotalQD = 4
  PendingCapacity = 4
  Interval = 0
  ReadInterval = 1
  WriteInterval = 1
  WriteStartOffset = 1
  MaxFaults = 1
INVARIANTS TransfersDisjoint
PROPERTIES RunEndsWithVerdict
