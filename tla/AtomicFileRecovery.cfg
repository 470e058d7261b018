SPECIFICATION Spec
CONSTANTS
  Value = {v1, v2, v3}
  None = None
  Torn = Torn
  NoOp = NoOp
  MaxFaults = 2
INVARIANTS
  SavesAreRecoverable
