SPECIFICATION Spec
CONSTANTS
  None = None
  Asset = {BTC}
  NumUsers = 2
  MaxRounds = 1
  MaxTime = 4
  Price = {1, 2}
  BetAmount = {1, 2}
  FeeBps = {0, 3, 5}
  LockOffset = {1}
  MinBet = 1
  OracleInterval = 2
  MinLockOffset = 1
  MaxFeeBps = 5
  BpsDenominator = 10
  MaxClaimBatch = 1
  TempThreshold = 3
  TempBump = 9
  MaxLag = 0
INVARIANTS Solvent
