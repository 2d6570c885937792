SPECIFICATION FairSpec
CONSTANTS
  None = None
  m1 = m1
  m2 = m2
  r1 = r1
  r2 = r2
  Process = {m1, m2}
  Request = {r1, r2}
  Home <- TwoProcesses
  Watcher = {w1}
  Id = {i1, i2}
  Path = {p1}
PROPERTIES
  DeletedGetsUnmounted
CHECK_DEADLOCK FALSE
