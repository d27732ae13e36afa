SPECIFICATION Spec
CONSTANTS
  a1 = a1
  SceneType <- AvatarClipText
  Unprompted = {}
  InitialCredits = 10
  Estimate = 3
  Price <- MCPrice
  Attempts <- TwoAttempts
  Admins = {a1}
  MaxSlots = 1
  MaxFaults = 2
  MaxCrashes = 0
  MaxCancels = 1
  MaxRequests = 0
  MayRecompose = FALSE
INVARIANTS
  TypeOK
  NotLeftRunning
  BilledAtMostOnce
CHECK_DEADLOCK FALSE
