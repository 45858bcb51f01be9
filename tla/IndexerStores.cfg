SPECIFICATION FairSpec
CONSTANTS
  None = None
  User = {u1}
  MaxRounds = 1
  MaxEvents = 4
  Limit = 2
  Cursors = {"zero"}
  Ids = {"object"}
  Layouts = {"bare"}
  Fault = {}
  MaxFaults = 0
PROPERTIES EventsStored
