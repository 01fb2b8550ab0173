-------------------------- MODULE MCSlidingWindow ---------------------------
(* SlidingWindowTransfer for TLC, with the values of MCTransferConstants. *)
EXTENDS SlidingWindowTransfer, MCTransferConstants
=============================================================================
