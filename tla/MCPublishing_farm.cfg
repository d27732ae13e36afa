SPECIFICATION FairSpec
CONSTANTS
  p1 = p1
  p2 = p2
  N = 2
  Path <- TwoDevices
  Phones = {p1, p2}
  Phone <- TwoPhones
  MaySkip = {2}
  DistAttempts = 2
  PublishAttempts = 2
  Free = Free
  MaxFaults = 1
  MaxCrashes = 0
  MaxCancels = 1
INVARIANTS
  OneFarmCall
  CompletedIsDone
PROPERTIES
  PublishEnds
CHECK_DEADLOCK FALSE
