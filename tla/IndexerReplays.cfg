SPECIFICATION FairSpec
CONSTANTS
  None = None
  User = {u1, u2}
  MaxRounds = 1
  MaxEvents = 5
  Limit = 2
  Cursors = {"zero", "token"}
  Ids = {"object", "text"}
  Layouts = {"bare", "prefixed"}
  Fault = {"event", "poll", "crash"}
  MaxFaults = 1
INVARIANTS TypeOK NoGaps NoDoubleRows ListedIsWon
PROPERTIES EveryEventPassed
