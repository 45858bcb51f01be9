SPECIFICATION FairSpec
CONSTANTS
  None = None
  k1 = k1
  k2 = k2
  Keeper = {k1}
  NumAssets = 1
  Deployment <- MCSmallest
  MaxRounds = 2
  MaxTime = 4
  OracleInterval = 2
  Lifetime = 20
  MaxSkew = 0
  Fault = {}
PROPERTIES MarketKeepsMoving
