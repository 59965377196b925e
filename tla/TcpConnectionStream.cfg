SPECIFICATION FairSpec
CONSTANTS
  m1 = m1
  m2 = m2
  Messages <- TwoMessages
  Length <- MCLength
  Senders = {t1}
  Shutters = {t2}
  Droppers = {}
  ServerDies = TRUE
  HighWaterMark = 4
  HasWriteComplete = FALSE
CHECK_DEADLOCK FALSE
INVARIANTS
  BytesInSendOrder
  WritingIffBuffered
PROPERTIES
  FinAfterDrain
  ShutdownCompletes
