SPECIFICATION Spec
CONSTANTS
  Value = {v1, v2, v3}
  None = None
  Torn = Torn
  NoOp = NoOp
  MaxFaults = 3
INVARIANTS
  TypeOK
  ReadsAreWhole
  OldOrNew
  ReportIsTrue
PROPERTIES
  ImplementsDurableFile
