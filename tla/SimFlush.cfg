SPECIFICATION FairSpec
CONSTANTS
  MaxSends = 3
  Latencies = {0, 1, 2, 3}
  JoinFloor = 3
  SchedDelay = 1
  LossRate = 30
  CorruptionRate = 30
INVARIANTS
  TypeOK
  CountersAccount
  NothingIsForgotten
  ClosedAfterFlush
PROPERTIES
  TimersEnd
\* After the last datagram and close() nothing is left to do.
CHECK_DEADLOCK FALSE
