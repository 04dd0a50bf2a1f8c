CONSTANTS
  CodeSpan = 65536
  MaxEdits = 2
  MaxSends = 2
  MaxBackups = 2
  MaxCuts = 2
  MaxFaults = 1
  MaxSpoiled = 1
  MaxFlashes = 1
SPECIFICATION FairSpec
INVARIANTS SaveSurvives NeverBehind
PROPERTIES DirtyIsSaved FlashKeepsShades
CHECK_DEADLOCK FALSE
