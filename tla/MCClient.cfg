CONSTANTS
  c1 = c1
  c2 = c2
  c3 = c3
  w1 = w1
  w2 = w2
  Callers = {c1, c2, c3}
  Workspaces = {w1, w2}
  WorkspaceOf <- TwoWorkspaces
  Unit = 1
  Rate = 1
  Capacity = 1
  MaxConcurrent = 4
  RetryAfters = {0, 2}
  Max429 = 3
  MaxAttempts = 2
  MaxCalls <- FirstCallsTwice
SPECIFICATION FairSpec
INVARIANTS
  TypeOK
  SlotsAccounted
  PauseOwned
  CountNotAboveStreak
PROPERTIES
  EveryCallReturns
  RetriedAfterPause
  PaidFor
