------------------------- MODULE MCSelectiveRepeat --------------------------
(* SelectiveRepeatTransfer for TLC, with the values of MCTransferConstants. *)
EXTENDS SelectiveRepeatTransfer, MCTransferConstants
=============================================================================
