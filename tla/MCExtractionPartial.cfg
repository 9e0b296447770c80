CONSTANTS
  w1 = w1
  w2 = w2
  p1 = p1
  p2 = p2
  t1 = t1
  Workspaces = {w1, w2}
  Projects = {p1, p2}
  Tasks = {t1}
  HomeOf <- Homes
  ProjectsOf <- Memberships
  MaxConcurrent = 1
  Lag = 0
  MaxTime = 1
  MaxVersion = 2
SPECIFICATION Spec
INVARIANT
  AllOrNothing
