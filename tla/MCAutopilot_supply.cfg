SPECIFICATION FairSpec
CONSTANTS
  Accounts = {a1}
  MaxBatches = 2
  Buffer = {}
  VariantsPer = 1
  MaxParallel = 2
  BufferWindows = 2
  Attempts = 1
  Quota = 2
  MaxFailures = 1
  Requests = {"activate", "pause"}
  MaxEvents = 1
  MaxCrashes = 1
  MaxWindows = 0
INVARIANTS
  TypeOK
  NotifiedOnce
PROPERTIES
  BatchEnds
CHECK_DEADLOCK FALSE
