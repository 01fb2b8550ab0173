SPECIFICATION Spec
CONSTANTS
  MaxPayload = 5
  MaxMutations = 1
  Configs <- MCConfigs
  SourceNames <- MCSourceNames
  OtherNames <- MCOtherNames
  SessionIds = {1, 255}
  Numbers = {0, 5, 255, 256}
INVARIANTS
  TypeOK
  DecodeInvertsEncode
  AcceptedIsCanonical
  OneMutationIsRefused
  SavedNameIsSettled
  ChunksAreSendable
\* A behaviour ends with the first datagram.
CHECK_DEADLOCK FALSE
