CONSTANTS
  Callers = {c1, c2, c3}
  Unit = 3
  Rate = 2
  Capacity = 7
  Interval = 2
  MaxTime = 4
SYMMETRY CallerSymmetry
SPECIFICATION Spec
INVARIANTS
  TypeOK
  WindowBound
  NoBurstAfterReset
PROPERTIES
  ImplementsEagerBucket
\* the clock stops at MaxTime with callers asleep
CHECK_DEADLOCK FALSE
