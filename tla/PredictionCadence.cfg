SPECIFICATION Spec
CONSTANTS
  None = None
  NumAssets = 1
  NumUsers = 2
  MaxTime = 4
  MaxBets = 2
  Price = {1, 2}
  BetAmount = {1}
  FeeBps = {3}
  MinBet = {1}
  Tolerance = {}
  TieRefund = {}
  Interval = 1
  FirstTolerance = 1
  BpsDenominator = 10
  UserEpochsCap = 2
  MaxLag = 0
INVARIANTS NothingStranded SettledAtItsBoundaries
