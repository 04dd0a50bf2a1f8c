CONSTANTS
  Versions = {10, 13, 18, 20, 22, 23, 25, 26, 27, 28}
  MaxRecords = 2
SPECIFICATION Spec
INVARIANTS Aligned RestoresWhatWasAsked
CHECK_DEADLOCK FALSE
