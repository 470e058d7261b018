SPECIFICATION Spec
CONSTANTS
  Ring = 3
  Block = 2
  Wrap = 6
  MaxPush = 2
INVARIANTS
  TypeOK
  CursorsOrdered
  StaleNeverPlayed
  FlushDropsStaleOnly
PROPERTIES
  ShutdownAdvances
  ImplementsQueue
  ShutdownEnds
