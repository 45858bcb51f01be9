SPECIFICATION FewStakesSpec
CONSTANTS
  None = None
  Asset = {BTC, ETH}
  NumUsers = 3
  MaxRounds = 2
  MaxTime = 5
  Price = {1, 2}
  BetAmount = {2}
  FeeBps = {3}
  LockOffset = {1}
  MinBet = 1
  OracleInterval = 2
  MinLockOffset = 1
  MaxFeeBps = 5
  BpsDenominator = 10
  MaxClaimBatch = 2
  TempThreshold = 0
  TempBump = 2
  MaxLag = 1
INVARIANTS  DustBounded
PROPERTIES SettlementFinal NoBetOnKnownPrice IsRoundSeries
SYMMETRY AssetSymmetry
