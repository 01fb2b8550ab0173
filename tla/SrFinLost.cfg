SPECIFICATION FairSpec
CONSTANTS
  me = me
  other = other
  Me = me
  Sessions = {me}
  NoSession = NoSession
  PayloadSize = 2
  MyWindow = 2
  MySize = 3
  MyReadSize = 3
  WindowSize <- Windows
  FileSize <- Inspected
  ReadSize <- AtReading
  Edited <- NoEdits
  Hostile = Hostile
  Budgets = {1}
  Leftover <- Nothing
  MaxRetries = 2
  MaxBufferedPackets = 8
  MaxBufferBytes = 64
  Once = TRUE
PROPERTIES
  SenderTerminates
\* Both sides return: the run ends.
CHECK_DEADLOCK FALSE
