SPECIFICATION FairSpec
CONSTANTS
  N = 2
  MaxRows = 4
  RenderWorkers = 1
  StateWorkers = 2
  AnalyzeAttempts = 2
  RenderAttempts = 2
  MaxFaults = 2
  MaxCrashes = 1
  MaxRequests = 1
INVARIANTS
  TypeOK
  NoOrphans
  NobodyForgotten
PROPERTIES
  Ends
CHECK_DEADLOCK FALSE
