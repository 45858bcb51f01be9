SPECIFICATION SteadySpec
CONSTANTS
  None = None
  NoPrice = NoPrice
  Symbol = {XLM}
  XLM = XLM
  Feed = XLM
  Price = {1, 2}
  NumUsers = 2
  MaxRounds = 2
  MaxTime = 4
  MaxBets = 2
  BetAmount = {10}
  FeeBps = {2, 6}
  LockOffset = {1, 3}
  OracleInterval = {2, 4}
  MinBet = 1
  MaxFeeBps = 5
  MinLockOffset = 1
  BpsDenominator = 10
  WinnerPct = 7
  RefundPct = 3
  PctDenominator = 10
  TempThreshold = 1
  TempBump = 2
INVARIANTS TypeOK Solvent
PROPERTIES IsBetSeries EarlierEarnsMore BetsCloseBeforeSettlement
