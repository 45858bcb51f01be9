SPECIFICATION FairSpec
CONSTANTS
  None = None
  a = a
  b = b
  above = above
  below = below
  Market = {a, b}
  Admin = Admin
  Bot = {above, below}
  SideOf <- MCSideOf
  MaxRounds = 2
  MaxTime = 4
  LockOffset = 1
  OracleInterval = 2
  Lifetime = 1
  Spot = {0, 2}
  Deployment <- MCDeployment
INVARIANTS TypeOK OneInFlight RoundsResolve NothingLeftBehind
PROPERTIES FreshSettlement LeavesOpenOnlyBlind NoMarketStalls
