SPECIFICATION Spec
CONSTANTS
  None = None
  NumAssets = 1
  NumUsers = 3
  MaxTime = 2
  MaxBets = 3
  Price = {1, 2}
  BetAmount = {2}
  FeeBps = {2}
  MinBet = {1}
  Tolerance = {}
  TieRefund = {FALSE}
  Interval = 1
  FirstTolerance = 0
  BpsDenominator = 10
  UserEpochsCap = 2
  MaxLag = 1
INVARIANTS TypeOK Conserved LatestBetsListed
PROPERTIES RoundsAreEscrows
