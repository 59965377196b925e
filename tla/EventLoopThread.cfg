SPECIFICATION FairSpec
CONSTANTS
  numThreads_ = 3
CHECK_DEADLOCK FALSE
INVARIANTS
  TypeOK
  PublishedExists
  StartedLoopsAreReal
  JoinedBeforeFreed
PROPERTIES
  StartReturns
