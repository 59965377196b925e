SPECIFICATION Spec
CONSTANTS
  m1 = m1
  m2 = m2
  Messages <- TwoMessages
  Length <- MCLength
  Senders = {t1}
  Shutters = {t2}
  Droppers = {}
  ServerDies = FALSE
  HighWaterMark = 2
  HasWriteComplete = TRUE
CHECK_DEADLOCK FALSE
INVARIANTS
  ClosedStaysQuiet
