SPECIFICATION Spec
CONSTANTS
  NumSystems = 2
  MaxIndex = 2
  FadeTurns = 2
  MaxFaults = 1
INVARIANTS
  TypeOK
  FrontendQuiet
  PicturesCurrent
  StaleOnlyWhileLeaving
CHECK_DEADLOCK FALSE
PROPERTIES
  StoppedScanUnused
  ThumbsArrive
  ScanArrives
