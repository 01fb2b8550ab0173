----------------------- MODULE SlidingWindowTransfer -----------------------
(***************************************************************************)
(* One sliding-window sender (session Me), the receiver, and the network   *)
(* between them.                                                           *)
(***************************************************************************)
EXTENDS SlidingWindowSender, Transfer

vars == <<channelVars, senderVars, rcvVars>>

Init == ChannelInit /\ SenderInit /\ ReceiverInit

Starved ==
  snd_phase = "stream" /\ Readable(Me) <= base_seq /\ base_seq < NumChunks(Me)

SenderMoves   == SenderStep /\ UNCHANGED rcvVars
ReceiverMoves == ReceiverStep /\ UNCHANGED senderVars
GivesUp       == ReceiverGivesUp(Starved) /\ UNCHANGED senderVars
NetworkMoves  == Impair /\ UNCHANGED <<senderVars, rcvVars>>

Next == SenderMoves \/ ReceiverMoves \/ GivesUp \/ NetworkMoves

Spec == Init /\ [][Next]_vars

(* Both threads run, timeouts included; 15 silent seconds pass. *)
FairSpec ==
  Spec /\ WF_vars(SenderMoves) /\ WF_vars(ReceiverMoves) /\ WF_vars(GivesUp)

TypeOK == ChannelTypeOK /\ SessionTypeOK /\ EngineTypeOK /\ ReceiverTypeOK

-----------------------------------------------------------------------------
(* Properties *)

(* A chunk the sender counts as acknowledged, and so will never send again, *)
(* is in the receiver's file or buffer.                                     *)
RetiredIsHeld ==
  ServingMe => \A n \in acknowledged_packets :
    n < expected_seq \/ n \in Buffered

(* The two books of the engine agree: every number sent and not yet         *)
(* acknowledged is outstanding, so a timeout can resend it, and the base is *)
(* the oldest of them (_process_ack, protocol.py:553-567).                  *)
BooksAgree ==
  snd_phase = "stream" =>
    /\ Outstanding = (0..(next_seq - 1)) \ acknowledged_packets
    /\ base_seq < next_seq => base_seq = Smallest(Outstanding)
=============================================================================
