--------------------------- MODULE MCStopAndWait ----------------------------
(* StopAndWaitTransfer for TLC, with the values of MCTransferConstants. *)
EXTENDS StopAndWaitTransfer, MCTransferConstants
=============================================================================
