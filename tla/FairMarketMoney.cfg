SPECIFICATION SteadySpec
CONSTANTS
  None = None
  Asset = {BTC}
  NumUsers = 3
  MaxRounds = 1
  MaxTime = 8
  Price = {1, 2}
  BetAmount = {1, 2}
  FeeBps = {0, 5}
  LockOffset = {2}
  MinBet = 1
  OracleInterval = 3
  MinLockOffset = 1
  MaxFeeBps = 5
  BpsDenominator = 10
  MaxClaimBatch = 2
  TempThreshold = 1
  TempBump = 4
  MaxLag = 0
INVARIANTS TypeOK Solvent VaultAccounted PositionsOutliveRoundsBriefly
PROPERTIES RoundsAreEscrows
