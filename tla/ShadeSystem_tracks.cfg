\* Every kind of shade, a clear channel: estimates and favourites are the motor's.
CONSTANTS
  Kinds <- EveryKind
  Full = 3
  TiltFull = 2
  CmdGap = 1
  AwaitTime = 1
  HoldLimit = 3
  TiltRepeats = 1
  SetMyRepeats = 1
  MaxQueued = 3
  Prompt = TRUE
  MaxOrders = 3
  MaxPresses = 2
  MaxLost = 0
SPECIFICATION Spec
INVARIANT EstimatesExact
