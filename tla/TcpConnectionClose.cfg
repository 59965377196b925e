SPECIFICATION FairSpec
CONSTANTS
  m1 = m1
  m2 = m2
  Messages <- TwoMessages
  Length <- MCLength
  Senders = {t1}
  Shutters = {}
  Droppers = {t1}
  ServerDies = FALSE
  HighWaterMark = 2
  HasWriteComplete = TRUE
CHECK_DEADLOCK FALSE
INVARIANTS
  TypeOK
  ClosedStaysQuiet
  RawPointersLive
PROPERTIES
  ImplementsView
