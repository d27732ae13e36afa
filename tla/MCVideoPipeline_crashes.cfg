SPECIFICATION FairSpec
CONSTANTS
  a1 = a1
  SceneType <- OneClip
  Unprompted = {}
  InitialCredits = 5
  Estimate = 3
  Price <- MCPrice
  Attempts <- TwoAttempts
  Admins = {a1}
  MaxSlots = 1
  MaxFaults = 1
  MaxCrashes = 2
  MaxCancels = 1
  MaxRequests = 0
  MayRecompose = FALSE
INVARIANTS
  PaidOnce
  Conserved
  ReserveReturned
PROPERTIES
  LedgerSpec
  Settles
  CancelWinsTheClaim
CHECK_DEADLOCK FALSE
