SPECIFICATION FairSpec
CONSTANTS
  Processes = {p1, p2}
  Nobody = Nobody
  MaxRestarts = 2
INVARIANTS
  SlabIsOwn
  ReleasedOnce
PROPERTIES
  ConstructorReturns
CHECK_DEADLOCK FALSE
