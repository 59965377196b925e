SPECIFICATION FairSpec
CONSTANTS
  Threads = {t1, t2}
  MODEBUG = TRUE
CHECK_DEADLOCK FALSE
INVARIANTS
  TagsOverlap
PROPERTIES
  AloneIsWhole
  FatalEnds
