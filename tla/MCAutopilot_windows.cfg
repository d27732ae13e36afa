SPECIFICATION FairSpec
CONSTANTS
  Accounts = {a1, a2}
  MaxBatches = 2
  Buffer = {1}
  VariantsPer = 2
  MaxParallel = 1
  BufferWindows = 2
  Attempts = 2
  Quota = 2
  MaxFailures = 1
  Requests = {"publish-now", "produce-now"}
  MaxEvents = 1
  MaxCrashes = 1
  MaxWindows = 3
INVARIANTS
  OneFile
  NeverDoubleBooked
CHECK_DEADLOCK FALSE
