SPECIFICATION SteadySpec
CONSTANTS
  None = None
  NoPrice = NoPrice
  Symbol = {XLM}
  XLM = XLM
  Feed = XLM
  Price = {1, 2}
  NumUsers = 3
  MaxRounds = 1
  MaxTime = 5
  MaxBets = 3
  BetAmount = {10}
  FeeBps = {2, 3}
  LockOffset = {2}
  OracleInterval = {3}
  MinBet = 1
  MaxFeeBps = 5
  MinLockOffset = 1
  BpsDenominator = 10
  WinnerPct = 7
  RefundPct = 3
  PctDenominator = 10
  TempThreshold = 1
  TempBump = 3
PROPERTIES RoundsAreEscrows SharesAddUp
