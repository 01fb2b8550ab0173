SPECIFICATION Spec
CONSTANTS
  me = me
  other = other
  Me = me
  Sessions = {me, other}
  NoSession = NoSession
  PayloadSize = 2
  MyWindow = 3
  MySize = 7
  MyReadSize = 7
  WindowSize <- Windows
  FileSize <- Inspected
  ReadSize <- AtReading
  Edited <- NoEdits
  Hostile = Hostile
  Budgets = {Hostile}
  Leftover <- LateArrivals
  MaxRetries = 2
  MaxBufferedPackets = 8
  MaxBufferBytes = 64
  Once = TRUE
INVARIANTS
  TypeOK
  NeverOutOfWindow
  RetiredIsHeld
  FinFindsDataComplete
  SuccessMeansDelivered
PROPERTIES
  ImplementsPromise
\* Both sides return: the run ends.
CHECK_DEADLOCK FALSE
