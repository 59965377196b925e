SPECIFICATION FairSpec
CONSTANTS
  w1 = w1
  w2 = w2
  Base = Base
  Threads <- TwoWorkers
  MaxConn = 3
  MaxFd = 2
CHECK_DEADLOCK FALSE
INVARIANTS
  TypeOK
  OwnedWhileInPoller
  RoundRobin
  ClosedIsOnItsWay
  NoCallOnDeadServer
PROPERTIES
  EachLivesOnce
  ClosedIsFreed
  EveryClientServed
  DestructorReturns
