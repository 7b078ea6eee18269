SPECIFICATION TierSpec
CONSTANTS
  Keys = {k1, k2}
  SlotCapacity = 2
  MaxJobs = 3
  NoData = NoData
SYMMETRY KeySymmetry
INVARIANTS
  NoBlockForgotten
  ResidentDataPresent
  LoadsReadTheirKey
  ResultsHandedOnce
