SPECIFICATION FairSpec
CONSTANTS
  None = None
  k1 = k1
  k2 = k2
  Keeper = {k1, k2}
  NumAssets = 2
  Deployment <- MCDeployment
  MaxRounds = 4
  MaxTime = 6
  OracleInterval = 2
  Lifetime = 1
  MaxSkew = 1
  Fault = {"query", "send", "drop", "giveup", "crash", "torn"}
INVARIANTS TypeOK OneKeeperPerRound
PROPERTIES HandsOver MindedRoundsSettle StallsOnlyOnSettledRounds
