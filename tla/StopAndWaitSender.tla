------------------------- MODULE StopAndWaitSender -------------------------
(***************************************************************************)
(* StopAndWaitSender (app/protocol.py): send_chunk for one chunk after the *)
(* other, in the for loop of FileSender.send_file (app/transfer.py), which *)
(* runs to the end of the file and not to the announced total.             *)
(***************************************************************************)
EXTENDS SenderSession

ASSUME StopAndWaitAssumption == WindowSize[Me] = 1   \* what its START says

VARIABLES
  waiting,      \* send_chunk is in recvfrom, not about to send
  seq_num,      \* the chunk send_chunk was called for
  tries         \* the loop counter of send_chunk

engineVars == <<waiting, seq_num, tries>>
senderVars == <<sessionVars, engineVars>>

EngineTypeOK ==
  /\ waiting \in BOOLEAN
  /\ seq_num \in Nat
  /\ tries \in 0..MaxRetries

EngineInit == waiting = FALSE /\ seq_num = 0 /\ tries = 0

SenderInit == SessionInit /\ EngineInit

-----------------------------------------------------------------------------
SendingChunk(w) == snd_phase = "stream" /\ seq_num < Readable(Me) /\ waiting = w

(* Mutant: one attempt too many. *)
SendDataOnceMore ==
  /\ SendingChunk(FALSE) /\ tries <= MaxRetries
  /\ tries' = tries + 1
  /\ waiting' = TRUE
  /\ SenderSends({DataPkt(Me, seq_num)})
  /\ UNCHANGED <<seq_num, sessionVars>>

SendData ==
  /\ SendingChunk(FALSE) /\ tries < MaxRetries
  /\ tries' = tries + 1
  /\ waiting' = TRUE
  /\ SenderSends({DataPkt(Me, seq_num)})
  /\ UNCHANGED <<seq_num, sessionVars>>

RetryLimit ==
  /\ SendingChunk(FALSE) /\ tries >= MaxRetries
  /\ snd_phase' = "failed"
  /\ UNCHANGED <<attempt, timeout_armed, engineVars>> /\ UNCHANGED channelVars

(* Mutant: ack_num is not compared with seq_num. *)
RecvAnyAck ==
  /\ SendingChunk(TRUE)
  /\ \E p \in toSender[Me] : p.type = "ACK" /\ SenderReads(Me, p)
  /\ seq_num' = seq_num + 1 /\ tries' = 0 /\ waiting' = FALSE
  /\ UNCHANGED sessionVars

RecvAck ==
  /\ SendingChunk(TRUE)
  /\ AckPkt(Me, seq_num) \in toSender[Me]
  /\ seq_num' = seq_num + 1 /\ tries' = 0 /\ waiting' = FALSE
  /\ SenderReads(Me, AckPkt(Me, seq_num))
  /\ UNCHANGED sessionVars

(* Any other valid datagram is read past, the attempt goes on. *)
RecvIgnored(p) ==
  /\ SendingChunk(TRUE)
  /\ p \in toSender[Me] \ {Garbage, AckPkt(Me, seq_num)}
  /\ SenderReads(Me, p)
  /\ UNCHANGED senderVars

(* An invalid datagram ends the attempt as a timeout does. *)
RecvGarbage ==
  /\ SendingChunk(TRUE)
  /\ Garbage \in toSender[Me] /\ SenderReads(Me, Garbage)
  /\ waiting' = FALSE
  /\ UNCHANGED <<seq_num, tries, sessionVars>>

RecvTimeout ==
  /\ SendingChunk(TRUE) /\ SocketTimesOut
  /\ waiting' = FALSE
  /\ UNCHANGED <<seq_num, tries, sessionVars>> /\ UNCHANGED channelVars

StreamDone ==
  /\ StreamEnds
  /\ seq_num >= Readable(Me)
  /\ UNCHANGED <<timeout_armed, engineVars>> /\ UNCHANGED channelVars

(* The for loop asks for its first chunk, also of an empty file. *)
SourceIsGone ==
  /\ SourceVanishes
  /\ seq_num = 0 /\ tries = 0
  /\ UNCHANGED engineVars

send_chunk ==
  \/ SendData \/ RetryLimit \/ RecvAck
  \/ \E p \in toSender[Me] : RecvIgnored(p)
  \/ RecvGarbage \/ RecvTimeout

send_handshake == Handshake /\ UNCHANGED engineVars
send_teardown  == Teardown /\ UNCHANGED engineVars

SenderStep ==
  send_handshake \/ send_chunk \/ SourceIsGone \/ StreamDone \/ send_teardown
=============================================================================
