SPECIFICATION FairSpec
CONSTANTS
  me = me
  other = other
  Me = me
  Sessions = {me, other}
  NoSession = NoSession
  PayloadSize = 2
  MyWindow = 1
  MySize = 5
  MyReadSize = 7
  WindowSize <- Windows
  FileSize <- Inspected
  ReadSize <- AtReading
  Edited <- NoEdits
  Hostile = Hostile
  Budgets = {Hostile, 3}
  Leftover <- LateArrivals
  MaxRetries = 4
  MaxBufferedPackets = 8
  MaxBufferBytes = 64
  Once = TRUE
INVARIANTS
  TypeOK
  LockStep
PROPERTIES
  ImplementsPromise
  HandshakeCompletes
  StreamCompletes
  SenderTerminates
\* Both sides return: the run ends.
CHECK_DEADLOCK FALSE
