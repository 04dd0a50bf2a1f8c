\* README.md:20: "a firmware that fails to start rolls back on its own".
CONSTANTS
  MaxBoots = 2
  Tries = 2
  NetCycles = 2
  FullCycles = 3
  MaxCuts = 0
  MaxRequests = 1
SPECIFICATION FairSpec
PROPERTIES FailedStartRollsBack
CHECK_DEADLOCK FALSE
