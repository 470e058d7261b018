SPECIFICATION Spec
CONSTANTS
  Legacy = {f1, f2}
  Spare = 4
  NumNative = 3
  MaxFaults = 3
  Core = {c1, c2}
  Moment = {m1, m2}
  Nothing = Nothing
INVARIANTS
  TypeOK
  PreviewIsTrue
  LibraryIsKept
  NothingIsLost
PROPERTIES
  PackageGoesInstalled
  BootAdvances
  ImplementsPackageSet
  NoticeIsTrue
  PackageIsUsedUp
  MigrationEnds
