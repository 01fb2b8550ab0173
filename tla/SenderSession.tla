--------------------------- MODULE SenderSession ---------------------------
(***************************************************************************)
(* What the three sender engines of app/protocol.py have in common: the    *)
(* handshake, the teardown, and the order FileSender.send_file             *)
(* (app/transfer.py) runs them in.  The text of send_handshake and         *)
(* send_teardown is repeated in the three classes; each engine's module    *)
(* names its own copy.                                                     *)
(*                                                                         *)
(* snd_phase says where the thread is:                                     *)
(*   handshake, teardown             about to send START, FIN              *)
(*   await_start_ack, await_fin_ack  blocked in recvfrom after that        *)
(*   stream                          in the engine's chunk loop            *)
(*   success, failed                 send_file returned                    *)
(***************************************************************************)
EXTENDS Channel

CONSTANTS
  Me,           \* the session of this sender
  MaxRetries    \* TransferConfig.max_retries

ASSUME SenderAssumption == Me \in Sessions /\ MaxRetries \in Nat

VARIABLES
  snd_phase,
  attempt,          \* the loop counter of send_handshake or send_teardown
  timeout_armed     \* the socket has a timeout (gettimeout() is not None)

sessionVars == <<snd_phase, attempt, timeout_armed>>

SndPhases == {"handshake", "await_start_ack", "stream",
              "teardown", "await_fin_ack", "success", "failed"}

SessionTypeOK ==
  /\ snd_phase \in SndPhases
  /\ attempt \in 0..MaxRetries
  /\ timeout_armed \in BOOLEAN

SessionInit ==
  /\ snd_phase = "handshake"
  /\ attempt = 0
  /\ timeout_armed = TRUE

(* recvfrom raises socket.timeout: only if the socket has a timeout. *)
SocketTimesOut == timeout_armed /\ MayTimeOut(Me)

Smallest(S) == CHOOSE x \in S : \A y \in S : x <= y

Finished == snd_phase \in {"success", "failed"}

-----------------------------------------------------------------------------
(* send_handshake: one recvfrom per START sent, whatever comes back. *)

SendStart ==
  /\ snd_phase = "handshake" /\ attempt < MaxRetries
  /\ attempt' = attempt + 1
  /\ snd_phase' = "await_start_ack"
  /\ SenderSends({StartPkt(Me)})
  /\ UNCHANGED timeout_armed

HandshakeExhausted ==
  /\ snd_phase = "handshake" /\ attempt >= MaxRetries
  /\ snd_phase' = "failed"
  /\ UNCHANGED <<attempt, timeout_armed>> /\ UNCHANGED channelVars

RecvStartAck ==
  /\ snd_phase = "await_start_ack"
  /\ StartAckPkt(Me) \in toSender[Me]
  /\ snd_phase' = "stream" /\ attempt' = 0
  /\ SenderReads(Me, StartAckPkt(Me))
  /\ UNCHANGED timeout_armed

HandshakeMiss ==
  /\ snd_phase = "await_start_ack"
  /\ \E p \in toSender[Me] \ {StartAckPkt(Me)} : SenderReads(Me, p)
  /\ snd_phase' = "handshake"
  /\ UNCHANGED <<attempt, timeout_armed>>

HandshakeTimeout ==
  /\ snd_phase = "await_start_ack" /\ SocketTimesOut
  /\ snd_phase' = "handshake"
  /\ UNCHANGED <<attempt, timeout_armed>> /\ UNCHANGED channelVars

Handshake ==
  \/ SendStart \/ HandshakeExhausted
  \/ RecvStartAck \/ HandshakeMiss \/ HandshakeTimeout

-----------------------------------------------------------------------------
(* read_file_chunks is a generator: it opens the source only when the first *)
(* chunk is wanted, after the handshake.  If the file has vanished or may   *)
(* not be read by then, send_file ends without a FIN.  In a kind world the  *)
(* source stays readable.                                                   *)
SourceVanishes ==
  /\ Duplicating
  /\ snd_phase = "stream"
  /\ snd_phase' = "failed"
  /\ UNCHANGED <<attempt, timeout_armed>> /\ UNCHANGED channelVars

-----------------------------------------------------------------------------
(* send_teardown: valid datagrams that are not the answer are read past,    *)
(* an invalid one ends the attempt.                                         *)

StreamEnds ==
  /\ snd_phase = "stream"
  /\ snd_phase' = "teardown" /\ attempt' = 0

(* Mutant: the attempts are not counted. *)
SendFinForever ==
  /\ snd_phase = "teardown"
  /\ snd_phase' = "await_fin_ack"
  /\ SenderSends({FinPkt(Me)})
  /\ UNCHANGED <<attempt, timeout_armed>>

SendFin ==
  /\ snd_phase = "teardown" /\ attempt < MaxRetries
  /\ attempt' = attempt + 1
  /\ snd_phase' = "await_fin_ack"
  /\ SenderSends({FinPkt(Me)})
  /\ UNCHANGED timeout_armed

(* Mutant: True is returned when nobody answers. *)
AssumeDelivered ==
  /\ snd_phase = "teardown" /\ attempt >= MaxRetries
  /\ snd_phase' = "success"
  /\ UNCHANGED <<attempt, timeout_armed>> /\ UNCHANGED channelVars

TeardownExhausted ==
  /\ snd_phase = "teardown" /\ attempt >= MaxRetries
  /\ snd_phase' = "failed"
  /\ UNCHANGED <<attempt, timeout_armed>> /\ UNCHANGED channelVars

RecvFinAck ==
  /\ snd_phase = "await_fin_ack"
  /\ \E verified \in BOOLEAN :
       /\ FinAckPkt(Me, verified) \in toSender[Me]
       /\ snd_phase' = IF verified THEN "success" ELSE "failed"
       /\ SenderReads(Me, FinAckPkt(Me, verified))
  /\ UNCHANGED <<attempt, timeout_armed>>

TeardownIgnore ==
  /\ snd_phase = "await_fin_ack"
  /\ \E p \in toSender[Me] :
       /\ p.type \in {"START_ACK", "ACK"}
       /\ SenderReads(Me, p)
  /\ UNCHANGED sessionVars

TeardownMiss ==
  /\ snd_phase = "await_fin_ack"
  /\ Garbage \in toSender[Me] /\ SenderReads(Me, Garbage)
  /\ snd_phase' = "teardown"
  /\ UNCHANGED <<attempt, timeout_armed>>

TeardownTimeout ==
  /\ snd_phase = "await_fin_ack" /\ SocketTimesOut
  /\ snd_phase' = "teardown"
  /\ UNCHANGED <<attempt, timeout_armed>> /\ UNCHANGED channelVars

Teardown ==
  \/ SendFin \/ TeardownExhausted
  \/ RecvFinAck \/ TeardownIgnore \/ TeardownMiss \/ TeardownTimeout
=============================================================================
