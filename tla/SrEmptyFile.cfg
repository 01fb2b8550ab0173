SPECIFICATION FairSpec
CONSTANTS
  me = me
  other = other
  Me = me
  Sessions = {me}
  NoSession = NoSession
  PayloadSize = 2
  MyWindow = 2
  MySize = 0
  MyReadSize = 0
  WindowSize <- Windows
  FileSize <- Inspected
  ReadSize <- AtReading
  Edited <- NoEdits
  Hostile = Hostile
  Budgets = {1}
  Leftover <- Nothing
  MaxRetries = 3
  MaxBufferedPackets = 8
  MaxBufferBytes = 64
  Once = TRUE
PROPERTIES
  HandshakeCompletes
\* Both sides return: the run ends.
CHECK_DEADLOCK FALSE
