CONSTANTS
  Interval = 4
  ShutdownTimeout = 3
  MaxCycles = 4
SPECIFICATION FairSpec
INVARIANTS
  TypeOK
  NoOverlap
  NothingLeftBehind
  GraceRespected
PROPERTIES
  ImplementsSpacedCycles
  ShutdownEnds
  NextCycleFollows
