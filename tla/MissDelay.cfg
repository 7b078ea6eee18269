SPECIFICATION FairSpec
CONSTANTS
  Keys = {k1, k2}
  Requests = {r1, r2}
  MaxStores = 2
INVARIANTS
  MissVisibleNextStep
PROPERTIES
  RetrySettles
