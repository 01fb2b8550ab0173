------------------------ MODULE SlidingWindowSender ------------------------
(***************************************************************************)
(* SlidingWindowSender (app/protocol.py).  It differs from selective       *)
(* repeat in its books (a growing set of acknowledged numbers beside the   *)
(* outstanding packets) and in resending only when the wait for an ACK     *)
(* ends in a timeout.  Its chunk_cache never serves a chunk twice and is   *)
(* left out.                                                               *)
(***************************************************************************)
EXTENDS SenderSession

VARIABLES
  loop,
  base_seq,
  next_seq,
  acknowledged_packets,
  outstanding_packets       \* a function from seq_num to retries

engineVars == <<loop, base_seq, next_seq, acknowledged_packets, outstanding_packets>>
senderVars == <<sessionVars, engineVars>>

Outstanding == DOMAIN outstanding_packets

EngineTypeOK ==
  /\ loop \in {"pipeline", "recv", "drain"}
  /\ base_seq \in Nat /\ next_seq \in Nat
  /\ acknowledged_packets \subseteq Nat
  /\ Outstanding \subseteq Nat
  /\ \A n \in Outstanding : outstanding_packets[n] \in 0..MaxRetries

EngineInit ==
  /\ loop = "pipeline"
  /\ base_seq = 0 /\ next_seq = 0
  /\ acknowledged_packets = {}
  /\ outstanding_packets = <<>>

SenderInit == SessionInit /\ EngineInit

-----------------------------------------------------------------------------
Streaming(step) ==
  snd_phase = "stream" /\ base_seq < NumChunks(Me) /\ loop = step

SendLimit == Smallest({base_seq + WindowSize[Me], NumChunks(Me), Readable(Me)})

(* New packets up to the limit, then the socket gets its timeout. *)
Pipeline ==
  /\ Streaming("pipeline")
  /\ LET fresh == next_seq..(SendLimit - 1) IN
     /\ outstanding_packets' =
          [n \in Outstanding \cup fresh |->
             IF n \in fresh THEN 0 ELSE outstanding_packets[n]]
     /\ next_seq' = next_seq + Cardinality(fresh)
     /\ SenderSends({DataPkt(Me, n) : n \in fresh})
  /\ loop' = "recv" /\ timeout_armed' = TRUE
  /\ UNCHANGED <<base_seq, acknowledged_packets, snd_phase, attempt>>

(* Mutant: the oldest packet is not resent when no timer was up. *)
OnlyExpired(expired) == expired

(* What a timeout resends: the packets whose time is up, or else the oldest.*)
Overdue(expired) ==
  IF expired = {} /\ Outstanding # {} THEN {Smallest(Outstanding)} ELSE expired

RetriesLeft(n) == outstanding_packets[n] < MaxRetries

RecvTimeout(expired) ==
  /\ Streaming("recv") /\ SocketTimesOut
  /\ \A n \in Overdue(expired) : RetriesLeft(n)
  /\ outstanding_packets' =
       [n \in Outstanding |->
          IF n \in Overdue(expired) THEN outstanding_packets[n] + 1
                                    ELSE outstanding_packets[n]]
  /\ SenderSends({DataPkt(Me, n) : n \in Overdue(expired)})
  /\ loop' = "pipeline"
  /\ UNCHANGED <<base_seq, next_seq, acknowledged_packets, sessionVars>>

(* RetransmissionLimitExceeded, after the packets before it were resent. *)
RetryLimit(expired) ==
  /\ Streaming("recv") /\ SocketTimesOut
  /\ LET spent == {n \in Overdue(expired) : ~RetriesLeft(n)} IN
     /\ spent # {}
     /\ SenderSends({DataPkt(Me, n) :
                       n \in {m \in Overdue(expired) : m < Smallest(spent)}})
  /\ snd_phase' = "failed"
  /\ UNCHANGED <<attempt, timeout_armed, engineVars>>

-----------------------------------------------------------------------------
Receiving == Streaming("recv") \/ (snd_phase = "stream" /\ loop = "drain")

Acked(n) == n \in acknowledged_packets

(* Mutants: an ACK is read as acknowledging everything up to n; the packet  *)
(* acknowledged stays outstanding.                                          *)
RecvAckWith(n, numbers, popped) ==
  /\ Receiving
  /\ AckPkt(Me, n) \in toSender[Me]
  /\ ~Acked(n)
  /\ acknowledged_packets' = acknowledged_packets \cup numbers
  /\ outstanding_packets' = [m \in Outstanding \ popped |-> outstanding_packets[m]]
  /\ \E base \in base_seq..(base_seq + Cardinality(acknowledged_packets') + 1) :
       /\ base_seq..(base - 1) \subseteq acknowledged_packets'
       /\ base \notin acknowledged_packets'
       /\ base_seq' = base
  /\ SenderReads(Me, AckPkt(Me, n))
  /\ loop' = "drain"
  /\ UNCHANGED <<next_seq, sessionVars>>

RecvAckCumulative(n)       == RecvAckWith(n, 0..n, 0..n)
RecvAckKeepsOutstanding(n) == RecvAckWith(n, {n}, {})

(* _process_ack for a number not seen before. *)
RecvAck(n) ==
  /\ Receiving
  /\ AckPkt(Me, n) \in toSender[Me]
  /\ ~Acked(n)
  /\ acknowledged_packets' = acknowledged_packets \cup {n}
  /\ outstanding_packets' = [m \in Outstanding \ {n} |-> outstanding_packets[m]]
  /\ \E base \in base_seq..(base_seq + Cardinality(acknowledged_packets) + 1) :
       /\ base_seq..(base - 1) \subseteq acknowledged_packets'
       /\ base \notin acknowledged_packets'
       /\ base_seq' = base
  /\ SenderReads(Me, AckPkt(Me, n))
  /\ loop' = "drain"
  /\ UNCHANGED <<next_seq, sessionVars>>

RecvIgnored(p) ==
  /\ Receiving
  /\ p \in toSender[Me]
  /\ p.type = "ACK" /\ p.session = Me => Acked(p.ack_num)
  /\ SenderReads(Me, p)
  /\ loop' = "drain"
  /\ UNCHANGED <<base_seq, next_seq, acknowledged_packets, outstanding_packets, sessionVars>>

(* The socket is empty; setblocking(True) takes its timeout off. *)
DrainEnds ==
  /\ snd_phase = "stream" /\ loop = "drain"
  /\ loop' = "pipeline"
  /\ timeout_armed' = FALSE
  /\ UNCHANGED <<base_seq, next_seq, acknowledged_packets, outstanding_packets, snd_phase, attempt>>
  /\ UNCHANGED channelVars

StreamDone ==
  /\ StreamEnds
  /\ base_seq >= NumChunks(Me) /\ loop = "pipeline"
  /\ UNCHANGED <<timeout_armed, engineVars>> /\ UNCHANGED channelVars

(* The first chunk is asked for, which an empty file never needs. *)
SourceIsGone ==
  /\ SourceVanishes
  /\ Streaming("pipeline") /\ next_seq = 0 /\ Readable(Me) > 0
  /\ UNCHANGED engineVars

send_file_stream ==
  \/ Pipeline
  \/ \E expired \in SUBSET Outstanding : RecvTimeout(expired) \/ RetryLimit(expired)
  \/ \E p \in {q \in toSender[Me] : q.type = "ACK"} : RecvAck(p.ack_num)
  \/ \E p \in toSender[Me] : RecvIgnored(p)
  \/ DrainEnds \/ SourceIsGone \/ StreamDone

send_handshake == Handshake /\ UNCHANGED engineVars
send_teardown  == Teardown /\ UNCHANGED engineVars

SenderStep == send_handshake \/ send_file_stream \/ send_teardown
=============================================================================
