----------------------- MODULE SelectiveRepeatSender -----------------------
(***************************************************************************)
(* SelectiveRepeatSender (app/protocol.py), the default engine.  Its       *)
(* send_file_stream loops over: send what the window allows (pipeline),    *)
(* resend what timed out (timers), wait for one datagram (recv), take what *)
(* else has arrived (drain).                                               *)
(***************************************************************************)
EXTENDS SenderSession

VARIABLES
  loop,             \* where in the body of send_file_stream the thread is
  base_seq,
  next_seq,
  window_packets    \* a function from seq_num to the packet's bookkeeping

engineVars == <<loop, base_seq, next_seq, window_packets>>
senderVars == <<sessionVars, engineVars>>

LoopSteps == {"pipeline", "timers", "recv", "drain"}

WindowPackets == [state : {"IN_FLIGHT", "ACKED"}, retry_count : 0..MaxRetries]

Window == DOMAIN window_packets

EngineTypeOK ==
  /\ loop \in LoopSteps
  /\ base_seq \in Nat /\ next_seq \in Nat
  /\ Window \subseteq Nat
  /\ \A n \in Window : window_packets[n] \in WindowPackets

EngineInit ==
  /\ loop = "pipeline"
  /\ base_seq = 0 /\ next_seq = 0
  /\ window_packets = <<>>

SenderInit == SessionInit /\ EngineInit

-----------------------------------------------------------------------------
Streaming(step) ==
  snd_phase = "stream" /\ base_seq < NumChunks(Me) /\ loop = step

(* Mutant: one packet beyond the window. *)
SendLimitPlusOne ==
  Smallest({base_seq + WindowSize[Me] + 1, NumChunks(Me), Readable(Me)})

(* The window, the announced total and, if the file shrank, the end of the  *)
(* chunk generator stop the pipeline.                                       *)
SendLimit == Smallest({base_seq + WindowSize[Me], NumChunks(Me), Readable(Me)})

Pipeline ==
  /\ Streaming("pipeline")
  /\ LET fresh == next_seq..(SendLimit - 1) IN
     /\ window_packets' =
          [n \in Window \cup fresh |->
             IF n \in fresh THEN [state |-> "IN_FLIGHT", retry_count |-> 0]
                            ELSE window_packets[n]]
     /\ next_seq' = next_seq + Cardinality(fresh)
     /\ SenderSends({DataPkt(Me, n) : n \in fresh})
  /\ loop' = "timers"
  /\ UNCHANGED <<base_seq, sessionVars>>

(* Mutant: acknowledged packets have timers, too. *)
AllInWindow == Window

InFlight == {n \in Window : window_packets[n].state = "IN_FLIGHT"}

(* Mutant: one retry too many. *)
RetriesLeftPlusOne(n) == window_packets[n].retry_count <= MaxRetries

RetriesLeft(n) == window_packets[n].retry_count < MaxRetries

(* Any set of timers may have expired.  With a retry left each, exactly     *)
(* these packets are resent; then the socket gets its timeout.              *)
CheckTimers(expired) ==
  /\ Streaming("timers")
  /\ expired \subseteq InFlight
  /\ expired # {} => MayTimeOut(Me)
  /\ \A n \in expired : RetriesLeft(n)
  /\ window_packets' =
       [n \in Window |->
          IF n \in expired THEN [window_packets[n] EXCEPT !.retry_count = @ + 1]
                           ELSE window_packets[n]]
  /\ SenderSends({DataPkt(Me, n) : n \in expired})
  /\ loop' = "recv" /\ timeout_armed' = TRUE
  /\ UNCHANGED <<base_seq, next_seq, snd_phase, attempt>>

(* The first expired packet without a retry left raises                     *)
(* RetransmissionLimitExceeded, after the ones before it were resent.       *)
RetryLimit(expired) ==
  /\ Streaming("timers")
  /\ expired \subseteq InFlight /\ MayTimeOut(Me)
  /\ LET spent == {n \in expired : ~RetriesLeft(n)} IN
     /\ spent # {}
     /\ SenderSends({DataPkt(Me, n) : n \in {m \in expired : m < Smallest(spent)}})
  /\ snd_phase' = "failed"
  /\ UNCHANGED <<attempt, timeout_armed, engineVars>>

-----------------------------------------------------------------------------
Receiving == Streaming("recv") \/ (snd_phase = "stream" /\ loop = "drain")

Acked(n) == n \in Window /\ window_packets[n].state = "ACKED"

(* Mutant: an ACK is read as acknowledging everything up to n. *)
RecvAckCumulative(n) ==
  /\ Receiving
  /\ AckPkt(Me, n) \in toSender[Me]
  /\ n \in Window
  /\ base_seq' = n + 1
  /\ window_packets' = [m \in Window \ (base_seq..n) |-> window_packets[m]]
  /\ SenderReads(Me, AckPkt(Me, n))
  /\ loop' = "drain"
  /\ UNCHANGED <<next_seq, sessionVars>>

(* _process_ack for a packet still in the window: marked, and the base      *)
(* slides over the acknowledged run that now starts at it.                  *)
RecvAck(n) ==
  /\ Receiving
  /\ AckPkt(Me, n) \in toSender[Me]
  /\ n \in Window
  /\ \E base \in base_seq..next_seq :
       /\ \A m \in base_seq..(base - 1) : m = n \/ Acked(m)
       /\ base # n /\ ~Acked(base)
       /\ base_seq' = base
       /\ window_packets' =
            [m \in Window \ (base_seq..(base - 1)) |->
               IF m = n THEN [window_packets[m] EXCEPT !.state = "ACKED"]
                        ELSE window_packets[m]]
  /\ SenderReads(Me, AckPkt(Me, n))
  /\ loop' = "drain"
  /\ UNCHANGED <<next_seq, sessionVars>>

(* An ACK of a packet that left the window, another datagram, garbage. *)
RecvIgnored(p) ==
  /\ Receiving
  /\ p \in toSender[Me]
  /\ \A n \in Window : p # AckPkt(Me, n)
  /\ SenderReads(Me, p)
  /\ loop' = "drain"
  /\ UNCHANGED <<base_seq, next_seq, window_packets, sessionVars>>

(* The non-blocking drain finds the socket empty.  setblocking(True) then   *)
(* takes the timeout off the socket: only the next pass of the loop sets it *)
(* again.                                                                   *)
DrainEnds ==
  /\ snd_phase = "stream" /\ loop = "drain"
  /\ loop' = "pipeline"
  /\ timeout_armed' = FALSE
  /\ UNCHANGED <<base_seq, next_seq, window_packets, snd_phase, attempt>>
  /\ UNCHANGED channelVars

RecvTimeout ==
  /\ Streaming("recv") /\ SocketTimesOut
  /\ loop' = "pipeline"
  /\ UNCHANGED <<base_seq, next_seq, window_packets, sessionVars>>
  /\ UNCHANGED channelVars

(* Mutant: the stream ends when everything was sent, acknowledged or not. *)
StreamAllSent ==
  /\ StreamEnds
  /\ next_seq >= NumChunks(Me) /\ loop = "pipeline"
  /\ UNCHANGED <<timeout_armed, engineVars>> /\ UNCHANGED channelVars

StreamDone ==
  /\ StreamEnds
  /\ base_seq >= NumChunks(Me) /\ loop = "pipeline"
  /\ UNCHANGED <<timeout_armed, engineVars>> /\ UNCHANGED channelVars

(* The first chunk is asked for, which an empty file never needs. *)
SourceIsGone ==
  /\ SourceVanishes
  /\ Streaming("pipeline") /\ next_seq = 0 /\ Readable(Me) > 0
  /\ UNCHANGED engineVars

send_file_stream ==
  \/ Pipeline
  \/ \E expired \in SUBSET InFlight : CheckTimers(expired) \/ RetryLimit(expired)
  \/ \E n \in Window : RecvAck(n)
  \/ \E p \in toSender[Me] : RecvIgnored(p)
  \/ DrainEnds \/ RecvTimeout \/ SourceIsGone \/ StreamDone

send_handshake == Handshake /\ UNCHANGED engineVars
send_teardown  == Teardown /\ UNCHANGED engineVars

SenderStep == send_handshake \/ send_file_stream \/ send_teardown
=============================================================================
