SPECIFICATION Spec
CONSTANTS
  p1 = p1
  p2 = p2
  N = 1
  Path <- OneOfficial
  Phones = {p1}
  Phone <- OnePhone
  MaySkip = {}
  DistAttempts = 1
  PublishAttempts = 2
  Free = Free
  MaxFaults = 1
  MaxCrashes = 0
  MaxCancels = 0
INVARIANTS
  NeverTwice
CHECK_DEADLOCK FALSE
