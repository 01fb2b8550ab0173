SPECIFICATION Spec
CONSTANTS
  a = a
  b = b
  c = c
  e = e
  Sessions = {a, c}
  NoSession = NoSession
  PayloadSize = 2
  WindowSize <- Windows
  FileSize <- Inspected
  ReadSize <- AtReading
  Edited <- EditedC
  Hostile = Hostile
  Budgets = {Hostile}
  Leftover <- AllRequests
  MaxBufferedPackets = 2
  MaxBufferBytes = 3
  Once = FALSE
INVARIANTS
  BufferIsAhead
  BufferWithinLimits
PROPERTIES
  ImplementsService
\* A closed receiver that is not restarted is the end of the run.
CHECK_DEADLOCK FALSE
