SPECIFICATION Spec
CONSTANTS
  Games = {g1, g2}
  NoGame = NoGame
  MaxTime = 2
  MaxFaults = 2
INVARIANTS
  TypeOK
  MemoryOutlivesUsers
  SlotReachesItsGame
  NoPlayAfterWake
  SoundFollowsPlay
  ReportedIsKept
PROPERTIES
  NewestSaveKept
  LeavingEnds
