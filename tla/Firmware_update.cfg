CONSTANTS
  MaxBoots = 3
  Tries = 3
  NetCycles = 2
  FullCycles = 3
  MaxCuts = 3
  MaxRequests = 3
SPECIFICATION FairSpec
INVARIANT BootSafe
PROPERTIES ProvenFirmwareStays BadFirmwareLeft UpdateEnds RequestedUpdateScheduled ChecksEnd
CHECK_DEADLOCK FALSE
