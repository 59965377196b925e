SPECIFICATION Spec
CONSTANTS
  Byte <- MCByte
  Zero = 0
  kCheapPrepend = 1
  kInitialSize = 2
  ExtraSize = 2
  Data <- MCData
  MaxReadable = 4
INVARIANTS
  TypeOK
PROPERTIES
  IsByteQueue
  GrowsWhenFull
