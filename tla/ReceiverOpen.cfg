SPECIFICATION Spec
CONSTANTS
  a = a
  b = b
  c = c
  e = e
  Sessions = {a, b, c, e}
  NoSession = NoSession
  PayloadSize = 2
  WindowSize <- Windows
  FileSize <- Inspected
  ReadSize <- AtReading
  Edited <- EditedC
  Hostile = Hostile
  Budgets = {Hostile}
  Leftover <- AllRequests
  MaxBufferedPackets = 8
  MaxBufferBytes = 16
  Once = TRUE
INVARIANTS
  TypeOK
  OutputIsPrefix
  FileIsWholeOrGone
  AckedIsHeld
  ConfirmedIsOnDisk
  OnlyTheAcceptedAreAnswered
\* A closed receiver that is not restarted is the end of the run.
CHECK_DEADLOCK FALSE
