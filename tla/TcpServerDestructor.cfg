SPECIFICATION Spec
CONSTANTS
  w1 = w1
  w2 = w2
  Base = Base
  Threads <- TwoWorkers
  MaxConn = 2
  MaxFd = 2
CHECK_DEADLOCK FALSE
INVARIANTS
  DestructorDestroysAll
