\* A lift and a tilt motor, everything in any order, fairly.
CONSTANTS
  Kinds <- RacedAndFair
  Full = 1
  TiltFull = 2
  CmdGap = 1
  AwaitTime = 1
  HoldLimit = 2
  TiltRepeats = 1
  SetMyRepeats = 1
  MaxQueued = 3
  Prompt = FALSE
  MaxOrders = 2
  MaxPresses = 1
  MaxLost = 1
SPECIFICATION FairSpec
PROPERTIES HeldStill RemoteHasTheLastWord RecordsAsOrdered ComesToRest
