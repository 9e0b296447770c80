CONSTANTS
  c1 = c1
  c2 = c2
  c3 = c3
  w1 = w1
  w2 = w2
  Callers = {c1, c2}
  Workspaces = {w1}
  WorkspaceOf <- OneWorkspace
  Unit = 2
  Rate = 1
  Capacity = 2
  MaxConcurrent = 2
  RetryAfters = {1, 2}
  Max429 = 3
  MaxAttempts = 1
  MaxCalls <- OneCall
SPECIFICATION FairSpec
PROPERTY
  RetriedAfterPause
CHECK_DEADLOCK FALSE
