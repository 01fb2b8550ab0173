------------------------ MODULE StopAndWaitTransfer ------------------------
(***************************************************************************)
(* One stop-and-wait sender (session Me), the receiver, and the network    *)
(* between them.                                                           *)
(***************************************************************************)
EXTENDS StopAndWaitSender, Transfer

vars == <<channelVars, senderVars, rcvVars>>

Init == ChannelInit /\ SenderInit /\ ReceiverInit

SenderMoves   == SenderStep /\ UNCHANGED rcvVars
ReceiverMoves == ReceiverStep /\ UNCHANGED senderVars
GivesUp       == ReceiverGivesUp(FALSE) /\ UNCHANGED senderVars
NetworkMoves  == Impair /\ UNCHANGED <<senderVars, rcvVars>>

Next == SenderMoves \/ ReceiverMoves \/ GivesUp \/ NetworkMoves

Spec == Init /\ [][Next]_vars

(* Both threads run, timeouts included; 15 silent seconds pass. *)
FairSpec ==
  Spec /\ WF_vars(SenderMoves) /\ WF_vars(ReceiverMoves) /\ WF_vars(GivesUp)

TypeOK == ChannelTypeOK /\ SessionTypeOK /\ EngineTypeOK /\ ReceiverTypeOK

-----------------------------------------------------------------------------
(* Properties *)

(* Sender and receiver are never more than one chunk apart: the chunks      *)
(* acknowledged are written, and of the rest only the one being sent may be *)
(* (send_chunk against receive_file_data's expected_seq).                   *)
LockStep ==
  ServingMe /\ snd_phase \notin {"handshake", "await_start_ack"} =>
    /\ expected_seq <= seq_num + 1
    /\ seq_num <= expected_seq \/ rcv_phase # "data"
=============================================================================
