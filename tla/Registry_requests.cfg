CONSTANTS
  MaxShades = 4
  MaxGroups = 3
  MaxRooms = 3
  MaxLinked = 2
  Addresses = {1, 2, 3}
  MaxChanges = 3
  MaxSends = 1
SPECIFICATION Spec
INVARIANTS RegistrySound SurvivesRestart
PROPERTY CodesRise
CHECK_DEADLOCK FALSE
