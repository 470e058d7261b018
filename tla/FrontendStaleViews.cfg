SPECIFICATION Spec
CONSTANTS
  NumSystems = 2
  MaxIndex = 2
  FadeTurns = 2
  MaxFaults = 1
INVARIANTS
  ViewsAreCurrent
CHECK_DEADLOCK FALSE
