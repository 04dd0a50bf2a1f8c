\* The real three slots, six frames.
CONSTANTS
  MAX_RX_BUFFER = 3
  MaxFrames = 6
SPECIFICATION Spec
INVARIANT HandoverSafe
PROPERTY ImplementsFrameBuffer
CHECK_DEADLOCK FALSE
