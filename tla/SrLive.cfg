SPECIFICATION FairSpec
CONSTANTS
  me = me
  other = other
  Me = me
  Sessions = {me}
  NoSession = NoSession
  PayloadSize = 2
  MyWindow = 3
  MySize = 7
  MyReadSize = 7
  WindowSize <- Windows
  FileSize <- Inspected
  ReadSize <- AtReading
  Edited <- NoEdits
  Hostile = Hostile
  Budgets = {2}
  Leftover <- Nothing
  MaxRetries = 2
  MaxBufferedPackets = 8
  MaxBufferBytes = 64
  Once = TRUE
PROPERTIES
  AckedNeverResent
  StreamCompletes
  ReceiverReturns
  CleanTeardownSucceeds
\* Both sides return: the run ends.
CHECK_DEADLOCK FALSE
