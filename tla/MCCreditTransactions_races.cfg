SPECIFICATION FairSpec
CONSTANTS
  r1 = r1
  r2 = r2
  r3 = r3
  c1 = c1
  c2 = c2
  NoOne = NoOne
  Releasers = {r1, r2, r3}
  Chargers = {c1, c2}
  Unreliable = {r1, r2, c1}
  Price <- MCPrice
  Prices <- MCPrices
  InitialCredits = 5
  Estimate = 3
INVARIANTS
  TypeOK
  ReleasedAtMostOnce
  ReturnMeansReleased
  Conserved
PROPERTIES
  LedgerSpec
  EveryCallEnds
