SPECIFICATION Spec
CONSTANTS
  Keys = {k1}
  SlotCapacity = 2
  MaxJobs = 5
PROPERTIES
  FailedLoadPopIdempotent
