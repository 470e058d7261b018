SPECIFICATION Spec
CONSTANTS
  NumSystems = 2
  MaxIndex = 2
  FadeTurns = 2
  MaxFaults = 1
PROPERTIES
  BuildIsKept
CHECK_DEADLOCK FALSE
