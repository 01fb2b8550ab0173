---------------------- MODULE SelectiveRepeatTransfer ----------------------
(***************************************************************************)
(* One selective-repeat sender (session Me), the receiver, and the network *)
(* between them.                                                           *)
(***************************************************************************)
EXTENDS SelectiveRepeatSender, Transfer

vars == <<channelVars, senderVars, rcvVars>>

Init == ChannelInit /\ SenderInit /\ ReceiverInit

(* A file that ended before the announced total leaves the loop of          *)
(* send_file_stream turning without anything to send.                       *)
Starved ==
  snd_phase = "stream" /\ Readable(Me) <= base_seq /\ base_seq < NumChunks(Me)

SenderMoves   == SenderStep /\ UNCHANGED rcvVars
ReceiverMoves == ReceiverStep /\ UNCHANGED senderVars
GivesUp       == ReceiverGivesUp(Starved) /\ UNCHANGED senderVars
NetworkMoves  == Impair /\ UNCHANGED <<senderVars, rcvVars>>

Next == SenderMoves \/ ReceiverMoves \/ GivesUp \/ NetworkMoves

Spec == Init /\ [][Next]_vars

TypeOK == ChannelTypeOK /\ SessionTypeOK /\ EngineTypeOK /\ ReceiverTypeOK

-----------------------------------------------------------------------------
(* Fairness: both threads run; an in-flight packet's timer expires if the   *)
(* loop keeps coming back to it; 15 silent seconds pass.                    *)

TimerFires(n) ==
  \E expired \in SUBSET InFlight :
    n \in expired /\ (CheckTimers(expired) \/ RetryLimit(expired))

Fairness ==
  /\ WF_vars(SenderMoves)
  /\ WF_vars(ReceiverMoves)
  /\ WF_vars(GivesUp)
  /\ \A n \in 0..(NumChunks(Me) - 1) : SF_vars(TimerFires(n) /\ UNCHANGED rcvVars)

FairSpec == Spec /\ Fairness

-----------------------------------------------------------------------------
(* Properties *)

(* A chunk the sender has retired or marked ACKED, and so will never send   *)
(* again, is in the receiver's file or buffer (SelectiveRepeatSender's      *)
(* window against receive_file_data's).                                     *)
RetiredIsHeld ==
  ServingMe => \A n \in 0..(next_seq - 1) :
    n < base_seq \/ Acked(n) => n < expected_seq \/ n \in Buffered

(* protocol.py:648, "Retransmits ONLY packets that were lost/timed out,     *)
(* never already-ACKed packets": no new copy of a chunk enters the network  *)
(* once its acknowledgement was processed.                                  *)
AckedNeverResent ==
  [][\A n \in 0..(next_seq - 1) :
       (n < base_seq \/ Acked(n)) /\ DataPkt(Me, n) \notin toReceiver
         => DataPkt(Me, n) \notin toReceiver']_vars
=============================================================================
