SPECIFICATION Spec
CONSTANTS
  a1 = a1
  SceneType <- AvatarClip
  Unprompted = {}
  InitialCredits = 8
  Estimate = 3
  Price <- MCPrice
  Attempts <- ImageTwice
  Admins = {a1}
  MaxSlots = 3
  MaxFaults = 2
  MaxCrashes = 0
  MaxCancels = 0
  MaxRequests = 1
  MayRecompose = TRUE
INVARIANTS
  CompletedHasAssets
  BilledAtMostOnce
CHECK_DEADLOCK FALSE
