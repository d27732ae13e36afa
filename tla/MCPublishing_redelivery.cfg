SPECIFICATION Spec
CONSTANTS
  p1 = p1
  p2 = p2
  N = 1
  Path <- OneDevice
  Phones = {p1}
  Phone <- OnePhone
  MaySkip = {}
  DistAttempts = 1
  PublishAttempts = 2
  Free = Free
  MaxFaults = 2
  MaxCrashes = 2
  MaxCancels = 1
INVARIANTS
  TypeOK
  PostedOnce
  CountedOnce
PROPERTIES
  PublishedStays
CHECK_DEADLOCK FALSE
