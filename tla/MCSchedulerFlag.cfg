CONSTANTS
  Interval = 4
  ShutdownTimeout = 3
  MaxCycles = 3
SPECIFICATION Spec
INVARIANT
  RunningMeansInProgress
CHECK_DEADLOCK FALSE
