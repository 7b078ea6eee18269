SPECIFICATION Spec
CONSTANTS
  Keys = {k1, k2, k3}
  SlotCapacity = 4
  MaxJobs = 4
SYMMETRY KeySymmetry
INVARIANTS
  TypeOK
  RemainingIsOwed
  InFlightIsBacked
  NoCompletionRaises
  WritesExclusive
  ResultsTruthful
  CountersReconcile
PROPERTIES
  NoEviction
  ImplementsLifecycle
