SPECIFICATION TierFairSpec
CONSTANTS
  Keys = {k1, k2}
  SlotCapacity = 2
  MaxJobs = 2
  NoData = NoData
PROPERTIES
  LedgerEnvironment
  EveryJobHanded
  RetryConverges
