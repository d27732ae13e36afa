SPECIFICATION FairSpec
CONSTANTS
  r1 = r1
  r2 = r2
  r3 = r3
  c1 = c1
  c2 = c2
  NoOne = NoOne
  Releasers = {r1}
  Chargers = {c1, c2}
  Unreliable = {}
  Price <- MCPrice
  Prices <- MCPrices
  InitialCredits = 10
  Estimate = 3
INVARIANT ReleasedExactlyOnce
