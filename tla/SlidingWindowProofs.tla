------------------------ MODULE SlidingWindowProofs ------------------------
(***************************************************************************)
(* What the runs of SlidingWindowTransfer check on four chunks, for every  *)
(* file, window, retry limit and network.                                  *)
(***************************************************************************)
EXTENDS SlidingWindowTransfer, TransferProofs

(* What the books say in any network: what is outstanding was sent, and the *)
(* base is the first number that is not acknowledged; everything sent       *)
(* exists, and is no further from the base than the window is long.         *)
BooksInv ==
  /\ EngineTypeOK
  /\ IsFiniteSet(acknowledged_packets)
  /\ Outstanding \subseteq 0..(next_seq - 1)
  /\ 0..(base_seq - 1) \subseteq acknowledged_packets
  /\ base_seq \notin acknowledged_packets
  /\ 0..(next_seq - 1) \subseteq Sendable(Me)
  /\ next_seq <= base_seq + WindowSize[Me] /\ next_seq <= NumChunks(Me)

(* And if nobody else uses the session_id: everything sent is in exactly    *)
(* one of the two books, nothing else is acknowledged or on its way, and    *)
(* FIN is not sent before the last chunk.                                   *)
FlightInv ==
  FreshSession =>
    /\ Outstanding = (0..(next_seq - 1)) \ acknowledged_packets
    /\ acknowledged_packets \subseteq 0..(next_seq - 1)
    /\ MyDataBelow(next_seq) /\ MyAcksBelow(next_seq)
    /\ session = Me => Buffered \subseteq 0..(next_seq - 1)
    /\ Tearing => NumChunks(Me) <= base_seq

(* A sender that is not served has sent nothing.                            *)
HeldInv ==
  /\ Once /\ session # Me => next_seq = 0
  /\ Once /\ RoomFor(Me) /\ FreshSession => RetiredIsHeld

IInv == SharedInv /\ BooksInv /\ FlightInv /\ HeldInv

-----------------------------------------------------------------------------
(* What the pipeline may send next are chunks that exist, behind each other *)
(* and inside the window.                                                   *)
LEMMA FreshChunks ==
  ASSUME BooksInv
  PROVE  LET fresh == next_seq..(SendLimit - 1)
             next  == next_seq + Cardinality(fresh)
         IN
         /\ fresh \subseteq Sendable(Me) /\ fresh \subseteq Nat
         /\ next \in Nat /\ next_seq <= next
         /\ next <= base_seq + WindowSize[Me] /\ next <= NumChunks(Me)
         /\ (0..(next_seq - 1)) \cup fresh = 0..(next - 1)
<1> DEFINE fresh == next_seq..(SendLimit - 1)
           bound == base_seq + WindowSize[Me]
<1>1. /\ next_seq \in Nat /\ base_seq \in Nat /\ bound \in Int
      /\ next_seq <= bound /\ next_seq <= NumChunks(Me)
  BY SizeAssumption, SenderAssumption DEF BooksInv, EngineTypeOK
<1> HIDE DEF bound
<1>2. /\ SendLimit \in Int /\ SendLimit <= bound /\ SendLimit <= NumChunks(Me)
      /\ fresh \subseteq Sendable(Me)
      /\ Cardinality(fresh) = IF next_seq < SendLimit THEN SendLimit - next_seq ELSE 0
  BY <1>1, ChunksBelowLimit DEF SendLimit, bound
<1>3. NumChunks(Me) \in Nat
  BY NumChunksType, SenderAssumption
<1>4. CASE next_seq < SendLimit
  <2>1. next_seq + Cardinality(fresh) = SendLimit
    BY <1>1, <1>2, <1>4
  <2> QED
    BY <1>1, <1>2, <1>3, <1>4, <2>1 DEF bound
<1>5. CASE ~(next_seq < SendLimit)
  <2>1. next_seq + Cardinality(fresh) = next_seq /\ fresh = {}
    BY <1>1, <1>2, <1>5
  <2> QED
    BY <1>1, <1>2, <1>3, <2>1 DEF bound
<1> QED
  BY <1>4, <1>5

LEMMA PipelineStep ==
  ASSUME ChannelTypeOK, SessionTypeOK, BooksInv, Pipeline
  PROVE  SenderKeepsBounds /\ BooksInv'
<1> DEFINE fresh == next_seq..(SendLimit - 1)
           sent  == {DataPkt(Me, n) : n \in fresh}
<1>1. /\ fresh \subseteq Sendable(Me) /\ fresh \subseteq Nat
      /\ next_seq' \in Nat
      /\ next_seq' <= base_seq + WindowSize[Me] /\ next_seq' <= NumChunks(Me)
      /\ (0..(next_seq - 1)) \cup fresh = 0..(next_seq' - 1)
  BY FreshChunks DEF Pipeline
<1>2. sent \in SUBSET Requests /\ SenderSends(sent)
  BY <1>1, SendersDatagrams DEF Pipeline
<1>3. PhaseMoves
  BY DEF Pipeline, SessionTypeOK, PhaseMoves, Streamed, Finished
<1>4. SenderKeepsBounds
  BY <1>2, <1>3, SendTypes DEF SenderKeepsBounds
<1>5. Outstanding' = Outstanding \cup fresh
  BY DEF Pipeline, Outstanding
<1>6. \A n \in Outstanding' : outstanding_packets'[n] \in 0..MaxRetries
  <2>1. \A n \in Outstanding' :
          outstanding_packets'[n] = IF n \in fresh THEN 0 ELSE outstanding_packets[n]
    BY <1>5 DEF Pipeline
  <2> QED
    BY <1>5, <2>1, SenderAssumption DEF BooksInv, EngineTypeOK
<1>7. UNCHANGED <<base_seq, acknowledged_packets>> /\ loop' = "recv"
  BY DEF Pipeline
<1>8. EngineTypeOK'
  BY <1>1, <1>5, <1>6, <1>7 DEF BooksInv, EngineTypeOK
<1> QED
  BY <1>1, <1>4, <1>5, <1>7, <1>8 DEF BooksInv

LEMMA OverdueIsOutstanding ==
  ASSUME BooksInv, NEW expired \in SUBSET Outstanding
  PROVE  Overdue(expired) \subseteq Outstanding
BY SmallestExists DEF Overdue, BooksInv, EngineTypeOK

LEMMA RecvTimeoutStep ==
  ASSUME ChannelTypeOK, SessionTypeOK, BooksInv,
         NEW expired \in SUBSET Outstanding, RecvTimeout(expired)
  PROVE  SenderKeepsBounds /\ BooksInv'
<1> DEFINE sent == {DataPkt(Me, n) : n \in Overdue(expired)}
<1>1. Overdue(expired) \subseteq Sendable(Me)
  BY OverdueIsOutstanding DEF BooksInv
<1>2. sent \in SUBSET Requests /\ SenderSends(sent)
  BY <1>1, SendersDatagrams DEF RecvTimeout
<1>3. PhaseMoves
  BY DEF RecvTimeout, SessionTypeOK, sessionVars, PhaseMoves, Streamed, Finished
<1>4. SenderKeepsBounds
  BY <1>2, <1>3, SendTypes DEF SenderKeepsBounds
<1>5. Outstanding' = Outstanding
  BY DEF RecvTimeout, Outstanding
<1>6. ASSUME NEW n \in Outstanding PROVE outstanding_packets'[n] \in 0..MaxRetries
  BY SenderAssumption DEF RecvTimeout, RetriesLeft, BooksInv, EngineTypeOK
<1> QED
  BY <1>4, <1>5, <1>6 DEF RecvTimeout, BooksInv, EngineTypeOK

LEMMA RetryLimitStep ==
  ASSUME ChannelTypeOK, SessionTypeOK, BooksInv,
         NEW expired \in SUBSET Outstanding, RetryLimit(expired)
  PROVE  SenderKeepsBounds /\ BooksInv'
<1>1. Overdue(expired) \subseteq Sendable(Me)
  BY OverdueIsOutstanding DEF BooksInv
<1>2. PICK before \in SUBSET Overdue(expired) : SenderSends({DataPkt(Me, n) : n \in before})
  BY DEF RetryLimit
<1>3. {DataPkt(Me, n) : n \in before} \in SUBSET Requests
  BY <1>1, <1>2, SendersDatagrams
<1>4. PhaseMoves
  BY DEF RetryLimit, Streaming, SessionTypeOK, SndPhases, PhaseMoves, Streamed, Finished
<1>5. SenderKeepsBounds
  BY <1>2, <1>3, <1>4, SendTypes DEF SenderKeepsBounds
<1>6. BooksInv'
  BY DEF RetryLimit, engineVars, BooksInv, EngineTypeOK, Outstanding
<1> QED
  BY <1>5, <1>6

LEMMA RecvAckStep ==
  ASSUME ChannelTypeOK, SessionTypeOK, BooksInv,
         NEW k, AckPkt(Me, k) \in toSender[Me], RecvAck(k)
  PROVE  SenderKeepsBounds /\ BooksInv' /\ base_seq <= base_seq'
<1>1. SenderKeepsBounds
  <2>1. SenderReads(Me, AckPkt(Me, k)) /\ UNCHANGED sessionVars
    BY DEF RecvAck
  <2>2. PhaseMoves
    BY <2>1 DEF sessionVars, SessionTypeOK, PhaseMoves, Streamed, Finished
  <2> QED
    BY <2>1, <2>2, SenderReadTypes DEF SenderKeepsBounds
<1>2. PICK base \in base_seq..(base_seq + Cardinality(acknowledged_packets) + 1) :
        /\ base_seq..(base - 1) \subseteq acknowledged_packets'
        /\ base \notin acknowledged_packets'
        /\ base_seq' = base
  BY DEF RecvAck
<1>3. /\ acknowledged_packets' = acknowledged_packets \cup {k}
      /\ outstanding_packets' = [m \in Outstanding \ {k} |-> outstanding_packets[m]]
      /\ loop' = "drain" /\ UNCHANGED next_seq
  BY DEF RecvAck
<1>4. Outstanding' = Outstanding \ {k}
  BY <1>3 DEF Outstanding
<1>5. base_seq \in Nat /\ next_seq \in Nat /\ k \in Nat /\ WindowSize[Me] \in Nat
  <2>1. AckPkt(Me, k) \in Replies
    BY SenderAssumption DEF ChannelTypeOK
  <2>2. k \in Nat
    BY <2>1 DEF Replies, AckPkt, Garbage
  <2> QED
    BY <2>2, SizeAssumption, SenderAssumption DEF BooksInv, EngineTypeOK
<1>6. Cardinality(acknowledged_packets) \in Nat /\ IsFiniteSet(acknowledged_packets')
  BY <1>3, FS_CardinalityType, FS_AddElement DEF BooksInv
<1>7. base \in Nat /\ base_seq <= base
  BY <1>2, <1>5, <1>6
<1>8. 0..(base - 1) \subseteq acknowledged_packets'
  BY <1>2, <1>3, <1>5, <1>7 DEF BooksInv
<1>9. \A n \in Outstanding' : outstanding_packets'[n] \in 0..MaxRetries
  BY <1>3, <1>4 DEF BooksInv, EngineTypeOK
<1>10. EngineTypeOK'
  BY <1>2, <1>3, <1>4, <1>5, <1>7, <1>9 DEF BooksInv, EngineTypeOK
<1>11. next_seq' <= base_seq' + WindowSize[Me]
  BY <1>2, <1>3, <1>5, <1>7 DEF BooksInv
<1> QED
  BY <1>1, <1>2, <1>3, <1>4, <1>6, <1>7, <1>8, <1>10, <1>11 DEF BooksInv

LEMMA OtherStreamStep ==
  ASSUME ChannelTypeOK, SessionTypeOK, BooksInv,
         \/ \E p \in toSender[Me] : RecvIgnored(p)
         \/ DrainEnds \/ SourceIsGone \/ StreamDone
  PROVE  SenderKeepsBounds /\ BooksInv'
<1>1. /\ UNCHANGED <<base_seq, next_seq, acknowledged_packets, outstanding_packets>>
      /\ loop' \in {"pipeline", "recv", "drain"}
  BY DEF RecvIgnored, DrainEnds, SourceIsGone, StreamDone, engineVars, BooksInv, EngineTypeOK
<1>2. BooksInv'
  BY <1>1 DEF BooksInv, EngineTypeOK, Outstanding
<1>3. ASSUME NEW p \in toSender[Me], RecvIgnored(p) PROVE SenderKeepsBounds
  <2>1. SenderReads(Me, p) /\ UNCHANGED sessionVars
    BY <1>3 DEF RecvIgnored
  <2>2. PhaseMoves
    BY <2>1 DEF sessionVars, SessionTypeOK, PhaseMoves, Streamed, Finished
  <2> QED
    BY <2>1, <2>2, SenderReadTypes DEF SenderKeepsBounds
<1>4. ASSUME DrainEnds PROVE SenderKeepsBounds
  <2>1. PhaseMoves
    BY <1>4 DEF DrainEnds, SessionTypeOK, PhaseMoves, Streamed, Finished
  <2> QED
    BY <1>4, <2>1, StillTypes DEF DrainEnds, SenderKeepsBounds
<1>5. ASSUME StreamDone PROVE SenderKeepsBounds
  BY <1>5, StreamEndsStep DEF StreamDone
<1>6. ASSUME SourceIsGone PROVE SenderKeepsBounds
  BY <1>6, SourceVanishesStep DEF SourceIsGone
<1> QED
  BY <1>2, <1>3, <1>4, <1>5, <1>6

LEMMA SenderStepKeepsBounds ==
  ASSUME ChannelTypeOK, SessionTypeOK, BooksInv, SenderStep
  PROVE  SenderKeepsBounds /\ BooksInv'
<1>1. CASE send_handshake \/ send_teardown
  <2>1. SenderKeepsBounds
    BY <1>1, HandshakeStep, TeardownStep DEF send_handshake, send_teardown
  <2>2. BooksInv'
    BY <1>1 DEF send_handshake, send_teardown, engineVars, BooksInv, EngineTypeOK, Outstanding
  <2> QED
    BY <2>1, <2>2
<1>2. CASE send_file_stream
  <2>1. ASSUME NEW p \in toSender[Me], RecvAck(p.ack_num)
        PROVE  SenderKeepsBounds /\ BooksInv'
    BY <2>1, RecvAckStep DEF RecvAck
  <2> QED
    BY <1>2, <2>1, PipelineStep, RecvTimeoutStep, RetryLimitStep, OtherStreamStep
       DEF send_file_stream
<1> QED
  BY <1>1, <1>2 DEF SenderStep

-----------------------------------------------------------------------------
LEMMA EngineStutter ==
  ASSUME BooksInv, UNCHANGED senderVars
  PROVE  BooksInv'
BY DEF senderVars, engineVars, BooksInv, EngineTypeOK, Outstanding

(* The stream sends only chunks below next_seq, and takes an ACK only of    *)
(* those.                                                                   *)
LEMMA SenderStepKeepsFlight ==
  ASSUME SharedInv, BooksInv, FlightInv, SenderStep, UNCHANGED rcvVars
  PROVE  FlightInv'
<1> SUFFICES ASSUME FreshSession
             PROVE  /\ Outstanding' = (0..(next_seq' - 1)) \ acknowledged_packets'
                    /\ acknowledged_packets' \subseteq 0..(next_seq' - 1)
                    /\ \A p \in toReceiver' : p.type = "DATA" /\ p.session = Me =>
                         p.seq_num < next_seq'
                    /\ \A p \in toSender'[Me] : p.type = "ACK" /\ p.session = Me =>
                         p.ack_num < next_seq'
                    /\ session' = Me => Buffered' \subseteq 0..(next_seq' - 1)
                    /\ Tearing' => NumChunks(Me) <= base_seq'
  BY DEF FlightInv, MyDataBelow, MyAcksBelow
<1>1. /\ Outstanding = (0..(next_seq - 1)) \ acknowledged_packets
      /\ acknowledged_packets \subseteq 0..(next_seq - 1)
      /\ MyDataBelow(next_seq) /\ MyAcksBelow(next_seq)
      /\ session = Me => Buffered \subseteq 0..(next_seq - 1)
      /\ Tearing => NumChunks(Me) <= base_seq
  BY DEF FlightInv
<1>2. /\ base_seq \in Nat /\ next_seq \in Nat
      /\ toReceiver \subseteq Requests /\ toSender \in [Sessions -> SUBSET Replies]
      /\ Me \in Sessions
  BY SenderAssumption DEF BooksInv, EngineTypeOK, SharedInv, ChannelTypeOK
<1>3. /\ toSender'[Me] \subseteq toSender[Me]
      /\ \A p \in toSender'[Me] : p.type = "ACK" /\ p.session = Me => p.ack_num < next_seq
  <2>1. toSender'[Me] \subseteq toSender[Me]
    BY <1>2, SenderStepKeepsBounds DEF SharedInv, SenderKeepsBounds
  <2> QED
    BY <1>1, <2>1 DEF MyAcksBelow
<1>4. session' = session /\ Buffered' = Buffered
  BY DEF rcvVars, Buffered
<1>5. CASE send_handshake \/ send_teardown
  <2>1. UNCHANGED engineVars /\ (Handshake \/ Teardown)
    BY <1>5 DEF send_handshake, send_teardown
  <2>2. Outstanding' = Outstanding
    BY <2>1 DEF engineVars, Outstanding
  <2> QED
    BY <1>1, <1>3, <1>4, <2>1, <2>2, SessionStepsSendNoData, MyDataStaysBelow DEF engineVars
<1>6. CASE Pipeline
  <2> DEFINE fresh == next_seq..(SendLimit - 1)
  <2>1. /\ next_seq' \in Nat /\ next_seq <= next_seq' /\ fresh \subseteq Nat
        /\ (0..(next_seq - 1)) \cup fresh = 0..(next_seq' - 1)
    BY <1>6, FreshChunks DEF Pipeline
  <2>2. /\ SenderSends({DataPkt(Me, n) : n \in fresh}) /\ snd_phase' = "stream"
        /\ UNCHANGED <<base_seq, acknowledged_packets>>
    BY <1>6 DEF Pipeline, Streaming
  <2>3. Outstanding' = Outstanding \cup fresh
    BY <1>6 DEF Pipeline, Outstanding
  <2>4. \A n \in fresh : n < next_seq'
    <3>1. \A n \in fresh : n \in 0..(next_seq' - 1)
      BY <2>1
    <3> QED
      BY <2>1, <3>1
  <2>5. MyDataBelow(next_seq')
    BY <1>1, <1>2, <2>1, HigherLimit
  <2>6. \A p \in toReceiver' : p.type = "DATA" /\ p.session = Me => p.seq_num < next_seq'
    BY <2>2, <2>4, <2>5, MyDataWithMoreSent
  <2>7. \A p \in toSender'[Me] : p.type = "ACK" /\ p.session = Me => p.ack_num < next_seq'
    <3>1. \A p \in toSender'[Me] : p.type = "ACK" => p.ack_num \in Nat
      BY <1>2, <1>3 DEF Replies, Garbage
    <3> QED
      BY <1>2, <1>3, <2>1, <3>1
  <2>8. Tearing' => NumChunks(Me) <= base_seq'
    BY <1>1, <2>2, DataIsNoFin DEF Tearing
  <2>9. fresh \cap acknowledged_packets = {}
    BY <1>1, <1>2
  <2> QED
    BY <1>1, <1>4, <2>1, <2>2, <2>3, <2>6, <2>7, <2>8, <2>9
<1>7. ASSUME NEW expired \in SUBSET Outstanding, RecvTimeout(expired) \/ RetryLimit(expired)
      PROVE  /\ Outstanding' = Outstanding
             /\ UNCHANGED <<base_seq, next_seq, acknowledged_packets>>
             /\ \A p \in toReceiver' : p.type = "DATA" /\ p.session = Me =>
                  p.seq_num < next_seq
             /\ Tearing' => NumChunks(Me) <= base_seq
  <2>1. /\ Outstanding' = Outstanding /\ snd_phase' \in {"stream", "failed"}
        /\ UNCHANGED <<base_seq, next_seq, acknowledged_packets>>
    BY <1>7 DEF RecvTimeout, RetryLimit, Streaming, engineVars, sessionVars, Outstanding
  <2>2. PICK sent \in SUBSET Overdue(expired) : SenderSends({DataPkt(Me, n) : n \in sent})
    BY <1>7 DEF RecvTimeout, RetryLimit
  <2>3. \A n \in sent : n < next_seq
    <3>1. Overdue(expired) \subseteq 0..(next_seq - 1)
      BY OverdueIsOutstanding DEF BooksInv
    <3>2. ASSUME NEW n \in sent PROVE n < next_seq
      <4>1. n \in 0..(next_seq - 1)
        BY <2>2, <3>1
      <4> QED
        BY <1>2, <4>1
    <3> QED
      BY <3>2
  <2>4. \A p \in toReceiver' : p.type = "DATA" /\ p.session = Me => p.seq_num < next_seq
    BY <1>1, <2>2, <2>3, MyDataWithMoreSent
  <2>5. FinPkt(Me) \in toReceiver' => FinPkt(Me) \in toReceiver
    BY <2>2, DataIsNoFin
  <2>6. Tearing' => NumChunks(Me) <= base_seq
    BY <1>1, <2>1, <2>5 DEF Tearing
  <2> QED
    BY <2>1, <2>4, <2>6
<1>8. ASSUME NEW p \in toSender[Me], RecvAck(p.ack_num)
      PROVE  /\ Outstanding' = Outstanding \ {p.ack_num}
             /\ acknowledged_packets' = acknowledged_packets \cup {p.ack_num}
             /\ p.ack_num \in 0..(next_seq - 1)
             /\ UNCHANGED <<next_seq, toReceiver>> /\ (Tearing' => Tearing)
             /\ base_seq <= base_seq' /\ base_seq' \in Nat
  <2> DEFINE k == p.ack_num
  <2>1. AckPkt(Me, k) \in toSender[Me] /\ AckPkt(Me, k).type = "ACK"
        /\ AckPkt(Me, k).session = Me /\ AckPkt(Me, k).ack_num = k
    BY <1>8 DEF RecvAck, AckPkt
  <2>2. k \in Nat /\ k < next_seq
    <3>1. AckPkt(Me, k) \in Replies
      BY <1>2, <2>1
    <3> QED
      BY <1>1, <2>1, <3>1 DEF MyAcksBelow, Replies, Garbage
  <2>3. base_seq <= base_seq' /\ base_seq' \in Nat
    BY <1>8, <2>1, RecvAckStep DEF SharedInv, BooksInv, EngineTypeOK
  <2>4. Outstanding' = Outstanding \ {k}
    BY <1>8 DEF RecvAck, Outstanding
  <2>5. UNCHANGED <<next_seq, toReceiver, snd_phase>>
        /\ acknowledged_packets' = acknowledged_packets \cup {k}
    BY <1>8 DEF RecvAck, SenderReads, sessionVars
  <2> QED
    BY <1>2, <2>2, <2>3, <2>4, <2>5 DEF Tearing
<1>9. CASE (\E p \in toSender[Me] : RecvIgnored(p)) \/ DrainEnds \/ SourceIsGone
  <2>1. /\ UNCHANGED <<toReceiver, base_seq, next_seq, acknowledged_packets>>
        /\ Outstanding' = Outstanding /\ snd_phase' \in {"stream", "failed"}
    BY <1>9 DEF RecvIgnored, DrainEnds, SourceIsGone, SourceVanishes, SenderReads,
                engineVars, channelVars, sessionVars, Receiving, Streaming, Outstanding
  <2> QED
    BY <1>1, <1>3, <1>4, <2>1 DEF Tearing, MyDataBelow
<1>10. CASE StreamDone
  <2>1. /\ UNCHANGED <<toReceiver, base_seq, next_seq, acknowledged_packets>>
        /\ Outstanding' = Outstanding /\ NumChunks(Me) <= base_seq
    BY <1>2, <1>10, NumChunksType, SenderAssumption
       DEF StreamDone, engineVars, channelVars, Outstanding
  <2> QED
    BY <1>1, <1>3, <1>4, <2>1 DEF MyDataBelow
<1> QED
  <2>1. CASE \E expired \in SUBSET Outstanding : RecvTimeout(expired) \/ RetryLimit(expired)
    BY <1>1, <1>3, <1>4, <1>7, <2>1
  <2>2. CASE \E p \in toSender[Me] : RecvAck(p.ack_num)
    <3>1. PICK p \in toSender[Me] : RecvAck(p.ack_num)
      BY <2>2
    <3>2. Tearing' => NumChunks(Me) <= base_seq'
      BY <1>1, <1>2, <1>8, <3>1, NumChunksType
    <3> QED
      BY <1>1, <1>3, <1>4, <1>8, <3>1, <3>2 DEF MyDataBelow
  <2> QED
    BY <1>5, <1>6, <1>9, <1>10, <2>1, <2>2 DEF SenderStep, send_file_stream

LEMMA ReceiverStepKeepsFlight ==
  ASSUME SharedInv, BooksInv, FlightInv, ReceiverStep \/ InactivityTimeout,
         UNCHANGED senderVars
  PROVE  FlightInv'
<1> SUFFICES ASSUME FreshSession PROVE FlightInv'
  BY DEF FlightInv
<1>1. UNCHANGED <<base_seq, next_seq, acknowledged_packets, outstanding_packets, snd_phase>>
  BY DEF senderVars, engineVars, sessionVars
<1>2. next_seq \in Nat /\ ChannelTypeOK /\ ReceiverInv
  BY DEF BooksInv, EngineTypeOK, SharedInv
<1>3. /\ \A p \in toReceiver' : p.type = "DATA" /\ p.session = Me => p.seq_num < next_seq
      /\ \A p \in toSender'[Me] : p.type = "ACK" /\ p.session = Me => p.ack_num < next_seq
      /\ session' = Me => Buffered' \subseteq 0..(next_seq - 1)
  BY <1>2, ReceiverStaysBelow DEF FlightInv
<1>4. Tearing' => Tearing
  BY <1>1, ReceiverAddsNoRequest DEF Tearing
<1> QED
  BY <1>1, <1>3, <1>4 DEF FlightInv, MyDataBelow, MyAcksBelow, Outstanding

LEMMA NetworkKeepsFlight ==
  ASSUME ChannelTypeOK, FlightInv, Impair \/ UNCHANGED channelVars,
         UNCHANGED senderVars, UNCHANGED rcvVars
  PROVE  FlightInv'
<1> SUFFICES ASSUME FreshSession PROVE FlightInv'
  BY DEF FlightInv
<1>1. UNCHANGED <<base_seq, next_seq, acknowledged_packets, outstanding_packets, snd_phase,
                  session, out_of_order_buffer>>
  BY DEF senderVars, engineVars, sessionVars, rcvVars
<1>2. toReceiver' \subseteq toReceiver \cup {Garbage}
  BY ImpairAddsOnlyGarbage DEF channelVars
<1>3. \A p \in toReceiver' : p.type = "DATA" /\ p.session = Me => p.seq_num < next_seq
  BY <1>2, MyDataStaysBelow DEF FlightInv
<1>4. \A p \in toSender'[Me] : p.type = "ACK" /\ p.session = Me => p.ack_num < next_seq
  BY ImpairSendsNoAck DEF FlightInv, MyAcksBelow, channelVars
<1>5. FinPkt(Me) # Garbage
  BY DEF FinPkt, Garbage
<1> QED
  BY <1>1, <1>2, <1>3, <1>4, <1>5
     DEF FlightInv, MyDataBelow, MyAcksBelow, Outstanding, Buffered, Tearing

(* The sender streams to a receiver that serves it, and retires only what   *)
(* it was told to be held.                                                  *)
LEMMA SenderStepKeepsHeld ==
  ASSUME SharedInv, BooksInv, FlightInv, HeldInv, SenderStep, UNCHANGED rcvVars
  PROVE  HeldInv'
<1>1. UNCHANGED <<session, expected_seq, out_of_order_buffer, rcv_phase>>
  BY DEF rcvVars
<1>2. ASSUME Once, session' # Me PROVE next_seq' = 0
  <2>1. snd_phase # "stream" /\ next_seq = 0
    BY <1>1, <1>2 DEF SharedInv, StartedInv, Streamed, HeldInv
  <2> QED
    BY <2>1 DEF SenderStep, send_handshake, send_teardown, engineVars, send_file_stream,
                Pipeline, RecvTimeout, RetryLimit, RecvAck, RecvIgnored, DrainEnds,
                SourceIsGone, SourceVanishes, StreamDone, StreamEnds, Receiving, Streaming
<1>3. ASSUME Once, RoomFor(Me), FreshSession, ServingMe, NEW n \in acknowledged_packets'
      PROVE  Held(n)
  <2>1. \A m \in acknowledged_packets : Held(m)
    BY <1>3 DEF HeldInv, RetiredIsHeld, Held
  <2>2. CASE acknowledged_packets' = acknowledged_packets
    BY <1>3, <2>1, <2>2
  <2>3. ASSUME NEW p \in toSender[Me], RecvAck(p.ack_num)
        PROVE  Held(n)
    <3> DEFINE k == p.ack_num
    <3>1. AckPkt(Me, k) \in toSender[Me] /\ acknowledged_packets' = acknowledged_packets \cup {k}
      BY <2>3 DEF RecvAck
    <3>2. k \in Nat /\ k < NumChunks(Me)
      <4>1. AckPkt(Me, k) \in Replies
        BY <3>1, SenderAssumption DEF SharedInv, ChannelTypeOK
      <4>2. k \in Nat
        BY <4>1 DEF Replies, AckPkt, Garbage
      <4>3. k < next_seq
        <5>1. /\ AckPkt(Me, k).type = "ACK" /\ AckPkt(Me, k).session = Me
              /\ AckPkt(Me, k).ack_num = k
          BY DEF AckPkt
        <5> QED
          BY <1>3, <3>1, <5>1 DEF FlightInv, MyAcksBelow
      <4>4. next_seq \in Nat /\ next_seq <= NumChunks(Me) /\ NumChunks(Me) \in Nat
        BY NumChunksType, SenderAssumption DEF BooksInv, EngineTypeOK
      <4> QED
        BY <4>2, <4>3, <4>4
    <3>3. Held(k)
      BY <1>3, <3>1, <3>2, AckTakenIsHeld
    <3> QED
      BY <1>3, <2>1, <3>1, <3>3
  <2> QED
    BY <2>2, <2>3
       DEF SenderStep, send_handshake, send_teardown, engineVars, send_file_stream,
           Pipeline, RecvTimeout, RetryLimit, RecvIgnored, DrainEnds, SourceIsGone, StreamDone
<1>4. Once /\ RoomFor(Me) /\ FreshSession => RetiredIsHeld'
  BY <1>1, <1>3 DEF RetiredIsHeld, Held, Buffered, ServingMe, Writing
<1> QED
  BY <1>2, <1>4 DEF HeldInv

LEMMA ReceiverStepKeepsHeld ==
  ASSUME SharedInv, BooksInv, FlightInv, HeldInv, ReceiverStep \/ InactivityTimeout,
         UNCHANGED senderVars
  PROVE  HeldInv'
<1>1. UNCHANGED <<next_seq, acknowledged_packets>>
  BY DEF senderVars, engineVars
<1>2. Once => /\ session = Me => session' = Me
              /\ session # Me => next_seq = 0
  BY MyServiceLasts DEF HeldInv, SharedInv, ServiceInv
<1>3. ASSUME Once, RoomFor(Me), FreshSession, ServingMe', NEW n \in acknowledged_packets
      PROVE  Held(n)'
  <2>1. n \in 0..(next_seq - 1) /\ next_seq \in Nat
    BY <1>3 DEF FlightInv, BooksInv, EngineTypeOK
  <2>2. session = Me /\ Writing' /\ n \in Nat
    BY <1>2, <1>3, <2>1 DEF ServingMe
  <2>3. Writing /\ (Held(n) => Held(n)')
    BY <1>3, <2>2, MyHeldLasts
  <2> QED
    BY <1>3, <2>2, <2>3 DEF HeldInv, RetiredIsHeld, ServingMe, Held
<1>4. Once /\ RoomFor(Me) /\ FreshSession => RetiredIsHeld'
  BY <1>1, <1>3 DEF RetiredIsHeld, Held
<1> QED
  BY <1>1, <1>2, <1>4 DEF HeldInv

LEMMA HeldStutter ==
  ASSUME HeldInv, UNCHANGED senderVars, UNCHANGED rcvVars
  PROVE  HeldInv'
BY DEF HeldInv, senderVars, engineVars, rcvVars, RetiredIsHeld, ServingMe, Writing, Buffered

-----------------------------------------------------------------------------
LEMMA InitIInv == Init => IInv
<1> SUFFICES ASSUME Init PROVE IInv
  OBVIOUS
<1>1. ChannelInit /\ SessionInit /\ EngineInit /\ ReceiverInit
  BY DEF Init, SenderInit
<1>2. Outstanding = {} /\ 0..(0 - 1) = {} /\ Buffered = {}
  BY <1>1 DEF EngineInit, Outstanding, ReceiverInit, Buffered
<1>3. BooksInv
  BY <1>1, <1>2, FS_EmptySet, SizeAssumption, SenderAssumption, NumChunksType
     DEF EngineInit, EngineTypeOK, BooksInv
<1>4. FlightInv
  <2>1. toSender[Me] = {}
    BY <1>1, SenderAssumption DEF ChannelInit
  <2> QED
    BY <1>1, <1>2, <2>1, FreshStart DEF FlightInv, MyAcksBelow, EngineInit
<1>5. HeldInv
  BY <1>1, SessionAssumption, SenderAssumption
     DEF HeldInv, EngineInit, RetiredIsHeld, ServingMe, ReceiverInit
<1> QED
  BY <1>1, <1>3, <1>4, <1>5, SharedStarts DEF IInv

LEMMA NextIInv == IInv /\ [Next]_vars => IInv'
<1> SUFFICES ASSUME IInv, [Next]_vars PROVE IInv'
  OBVIOUS
<1> USE DEF IInv
<1>1. CASE SenderMoves
  <2>1. UNCHANGED rcvVars /\ SenderStep
    BY <1>1 DEF SenderMoves
  <2>2. SenderKeepsBounds /\ BooksInv'
    BY <2>1, SenderStepKeepsBounds DEF SharedInv
  <2> QED
    BY <2>1, <2>2, SharedSenderStep, SenderStepKeepsFlight, SenderStepKeepsHeld
<1>2. CASE ReceiverMoves \/ GivesUp
  <2>1. (ReceiverStep \/ InactivityTimeout) /\ UNCHANGED senderVars
    BY <1>2 DEF ReceiverMoves, GivesUp, ReceiverGivesUp
  <2>2. SharedInv'
    BY <2>1, SharedReceiverStep DEF senderVars
  <2> QED
    BY <2>1, <2>2, EngineStutter, ReceiverStepKeepsFlight, ReceiverStepKeepsHeld
<1>3. CASE NetworkMoves
  <2>1. Impair /\ UNCHANGED senderVars /\ UNCHANGED rcvVars
    BY <1>3 DEF NetworkMoves
  <2>2. SharedInv'
    BY <2>1, SharedImpairStep DEF senderVars
  <2> QED
    BY <2>1, <2>2, NetworkKeepsFlight, EngineStutter, HeldStutter DEF SharedInv
<1>4. CASE UNCHANGED vars
  <2>1. UNCHANGED channelVars /\ UNCHANGED senderVars /\ UNCHANGED rcvVars
    BY <1>4 DEF vars
  <2>2. SharedInv'
    BY <2>1, SharedStutter DEF senderVars
  <2> QED
    BY <2>1, <2>2, NetworkKeepsFlight, EngineStutter, HeldStutter DEF SharedInv
<1> QED
  BY <1>1, <1>2, <1>3, <1>4 DEF Next

LEMMA SpecIInv == Spec => []IInv
BY InitIInv, NextIInv, PTL DEF Spec

(* Type correctness of both parties and of all datagrams in flight; in      *)
(* particular no packet is retried more than MaxRetries times.              *)
THEOREM TransferTypeCorrect == Spec => []TypeOK
<1>1. IInv => TypeOK
  BY DEF IInv, SharedInv, BooksInv, ReceiverInv, TypeOK
<1> QED
  BY <1>1, SpecIInv, PTL

LEMMA FlightInvMeansAgree ==
  ASSUME FreshSession, BooksInv, FlightInv
  PROVE  BooksAgree
<1> SUFFICES ASSUME base_seq < next_seq
             PROVE  base_seq = Smallest(Outstanding)
  BY DEF BooksAgree, FlightInv
<1>1. /\ base_seq \in Nat /\ next_seq \in Nat
      /\ Outstanding = (0..(next_seq - 1)) \ acknowledged_packets
      /\ 0..(base_seq - 1) \subseteq acknowledged_packets
      /\ base_seq \notin acknowledged_packets
  BY DEF BooksInv, EngineTypeOK, FlightInv
<1>2. base_seq \in Outstanding /\ \A n \in Outstanding : n \in Nat /\ base_seq <= n
  BY <1>1
<1>3. Smallest(Outstanding) \in Outstanding /\ Smallest(Outstanding) <= base_seq
  BY <1>2, SmallestExists
<1>4. base_seq <= Smallest(Outstanding) /\ Smallest(Outstanding) \in Nat
  BY <1>2, <1>3
<1> QED
  BY <1>1, <1>3, <1>4

(* A timeout can resend every number that was sent and is not acknowledged, *)
(* and the base is the oldest of them, if no older datagram bears this      *)
(* sender's session_id.                                                     *)
THEOREM NothingIsForgotten == FreshSession /\ Spec => []BooksAgree
<1>1. CASE FreshSession
  <2>1. IInv => BooksAgree
    BY <1>1, FlightInvMeansAgree DEF IInv
  <2> QED
    BY <2>1, SpecIInv, PTL
<1>2. CASE ~FreshSession
  BY <1>2
<1> QED
  BY <1>1, <1>2

(* send_file returns success only for a file that the receiver holds, equal *)
(* to the source as it was hashed, however the network behaves and whatever *)
(* became of the source in between (a receiver started with --once).        *)
THEOREM SuccessIsDelivery == Once /\ Spec => []SuccessMeansDelivered
<1>1. Once /\ IInv => SuccessMeansDelivered
  BY SuccessInvMeansDelivered DEF IInv, SharedInv
<1>2. CASE Once
  <2>1. IInv => SuccessMeansDelivered
    BY <1>1, <1>2
  <2> QED
    BY <2>1, SpecIInv, PTL
<1>3. CASE ~Once
  BY <1>3
<1> QED
  BY <1>2, <1>3

(* What the sender counts as acknowledged the receiver has in its file or   *)
(* its buffer, whatever the network does to data and ACKs, if the buffer    *)
(* has room for a window and no older datagram bears the session_id.        *)
THEOREM RetiredChunksAreHeld ==
  Once /\ RoomFor(Me) /\ FreshSession /\ Spec => []RetiredIsHeld
<1>1. CASE Once /\ RoomFor(Me) /\ FreshSession
  <2>1. IInv => RetiredIsHeld
    BY <1>1 DEF IInv, HeldInv
  <2> QED
    BY <2>1, SpecIInv, PTL
<1>2. CASE ~(Once /\ RoomFor(Me) /\ FreshSession)
  BY <1>2
<1> QED
  BY <1>1, <1>2

LEMMA InvMeetsReceiver ==
  Once /\ RoomFor(Me) /\ FreshSession /\ IInv => NeverOutOfWindow /\ FinFindsDataComplete
<1> SUFFICES ASSUME Once, RoomFor(Me), FreshSession, IInv
             PROVE  NeverOutOfWindow /\ FinFindsDataComplete
  OBVIOUS
<1>1. /\ SharedInv /\ base_seq \in Nat /\ next_seq \in Nat /\ WindowSize[Me] \in Nat
      /\ next_seq <= base_seq + WindowSize[Me]
      /\ MyDataBelow(next_seq)
      /\ Tearing => NumChunks(Me) <= base_seq
      /\ 0..(base_seq - 1) \subseteq acknowledged_packets
  BY SizeAssumption, SenderAssumption DEF IInv, FlightInv, BooksInv, EngineTypeOK
<1>2. MyDataBelow(base_seq + WindowSize[Me])
  BY <1>1, HigherLimit DEF SharedInv, ChannelTypeOK
<1>3. ASSUME ServingMe, NEW n \in 0..(base_seq - 1) PROVE Held(n)
  BY <1>1, <1>3 DEF IInv, HeldInv, RetiredIsHeld, Held
<1> QED
  BY <1>1, <1>2, <1>3, WindowMeetsReceiver

(* No chunk in flight is beyond the window of the receiver that serves the  *)
(* sender, also after a resend of all that is unacknowledged, if no older   *)
(* datagram bears this sender's session_id (protocol.py:1165).              *)
THEOREM WindowIsShared == Once /\ RoomFor(Me) /\ FreshSession /\ Spec => []NeverOutOfWindow
<1>1. CASE Once /\ RoomFor(Me) /\ FreshSession
  <2>1. IInv => NeverOutOfWindow
    BY <1>1, InvMeetsReceiver
  <2> QED
    BY <2>1, SpecIInv, PTL
<1>2. CASE ~(Once /\ RoomFor(Me) /\ FreshSession)
  BY <1>2
<1> QED
  BY <1>1, <1>2

(* FIN never finds the receiver short of data, under the same conditions.   *)
THEOREM FinComesLast == Once /\ RoomFor(Me) /\ FreshSession /\ Spec => []FinFindsDataComplete
<1>1. CASE Once /\ RoomFor(Me) /\ FreshSession
  <2>1. IInv => FinFindsDataComplete
    BY <1>1, InvMeetsReceiver
  <2> QED
    BY <2>1, SpecIInv, PTL
<1>2. CASE ~(Once /\ RoomFor(Me) /\ FreshSession)
  BY <1>2
<1> QED
  BY <1>1, <1>2

-----------------------------------------------------------------------------
(* No new copy of an acknowledged chunk enters the network: a timeout that  *)
(* finds no overdue packet resends the oldest OUTSTANDING one.              *)
NoAckedResent ==
  \A n \in acknowledged_packets :
    DataPkt(Me, n) \notin toReceiver => DataPkt(Me, n) \notin toReceiver'

LEMMA StepResendsNoAcked == FreshSession /\ IInv /\ [Next]_vars => NoAckedResent
<1> SUFFICES ASSUME FreshSession, IInv, [Next]_vars,
                    NEW n \in acknowledged_packets, DataPkt(Me, n) \notin toReceiver
             PROVE  DataPkt(Me, n) \notin toReceiver'
  BY DEF NoAckedResent
<1>1. BooksInv /\ n \in 0..(next_seq - 1) /\ n \notin Outstanding /\ next_seq \in Nat
  BY DEF IInv, FlightInv, BooksInv, EngineTypeOK
<1>2. DataPkt(Me, n) \notin {StartPkt(Me), FinPkt(Me), Garbage}
  BY DEF DataPkt, StartPkt, FinPkt, Garbage
<1>3. CASE SenderStep
  <2>1. CASE send_handshake \/ send_teardown
    BY <1>2, <2>1, SessionStepsSendNoData DEF send_handshake, send_teardown
  <2>2. CASE Pipeline
    <3>1. n \notin next_seq..(SendLimit - 1)
      BY <1>1
    <3> QED
      BY <2>2, <3>1, DataOfOtherChunks DEF Pipeline
  <2>3. ASSUME NEW expired \in SUBSET Outstanding, RecvTimeout(expired) \/ RetryLimit(expired)
        PROVE  DataPkt(Me, n) \notin toReceiver'
    <3>1. PICK sent \in SUBSET Overdue(expired) : SenderSends({DataPkt(Me, m) : m \in sent})
      BY <2>3 DEF RecvTimeout, RetryLimit
    <3>2. n \notin sent
      BY <1>1, <3>1, OverdueIsOutstanding
    <3> QED
      BY <3>1, <3>2, DataOfOtherChunks
  <2>4. CASE UNCHANGED toReceiver
    BY <2>4
  <2> QED
    BY <1>3, <2>1, <2>2, <2>3, <2>4
       DEF SenderStep, send_file_stream, RecvAck, RecvIgnored, SenderReads, DrainEnds,
           SourceIsGone, SourceVanishes, StreamDone, channelVars
<1>4. CASE ReceiverStep \/ InactivityTimeout
  BY <1>4, ReceiverAddsNoRequest
<1>5. CASE Impair
  BY <1>2, <1>5, ImpairAddsOnlyGarbage
<1>6. CASE UNCHANGED vars
  BY <1>6 DEF vars, channelVars
<1> QED
  BY <1>3, <1>4, <1>5, <1>6
     DEF Next, SenderMoves, ReceiverMoves, GivesUp, ReceiverGivesUp, NetworkMoves

(* No packet is retransmitted once its acknowledgement was processed, if no *)
(* older datagram bears the session_id: an ACK for a number not yet sent    *)
(* would be booked, and the packet still be resent (protocol.py:553-567).   *)
THEOREM OnlyUnacknowledgedAreResent == FreshSession /\ Spec => [][NoAckedResent]_vars
<1>1. CASE FreshSession
  <2>1. IInv /\ [Next]_vars => NoAckedResent
    BY <1>1, StepResendsNoAcked
  <2> QED
    BY <2>1, SpecIInv, PTL DEF Spec
<1>2. CASE ~FreshSession
  BY <1>2
<1> QED
  BY <1>1, <1>2

LEMMA StepKeepsPromise == Once /\ IInv /\ [Next]_vars => [Promise!Next]_(Promise!vars)
<1> SUFFICES ASSUME Once, IInv, [Next]_vars PROVE [Promise!Next]_(Promise!vars)
  OBVIOUS
<1> USE DEF IInv
<1>1. CASE SenderMoves
  <2>1. UNCHANGED rcvVars /\ SenderStep
    BY <1>1 DEF SenderMoves
  <2> QED
    BY <2>1, SenderStepKeepsBounds, SenderKeepsPromise DEF SharedInv
<1>2. CASE ReceiverMoves \/ GivesUp
  <2>1. (ReceiverStep \/ InactivityTimeout) /\ UNCHANGED snd_phase
    BY <1>2 DEF ReceiverMoves, GivesUp, ReceiverGivesUp, senderVars, sessionVars
  <2> QED
    BY <2>1, ReceiverKeepsPromise
<1>3. CASE NetworkMoves \/ UNCHANGED vars
  <2>1. UNCHANGED snd_phase /\ UNCHANGED rcvVars
    BY <1>3 DEF NetworkMoves, vars, senderVars, sessionVars
  <2> QED
    BY <2>1, PromiseStutter
<1> QED
  BY <1>1, <1>2, <1>3 DEF Next

(* The engine and the receiver implement ReliableTransfer: the copy only    *)
(* grows, chunk by chunk of the file that is read, is discarded or kept,    *)
(* and success is reported of a kept copy only.                             *)
THEOREM TransferKeepsPromise == Once /\ Spec => ImplementsPromise
<1>1. CASE Once
  <2>1. Init => Promise!Init
    BY InitIInv, PromiseStarts DEF Init, SenderInit
  <2>2. IInv /\ [Next]_vars => [Promise!Next]_(Promise!vars)
    BY <1>1, StepKeepsPromise
  <2>3. Spec => Promise!Init /\ [][Promise!Next]_(Promise!vars)
    BY <2>1, <2>2, SpecIInv, PTL DEF Spec
  <2> QED
    BY <2>3 DEF ImplementsPromise, Promise!Spec
<1>2. CASE ~Once
  BY <1>2
<1> QED
  BY <1>1, <1>2

-----------------------------------------------------------------------------
(* Without --once too, send_file never returns success unless the file has  *)
(* lain whole on disk in its own session: in a run in which that never      *)
(* happens there is no success.  (Spec being a safety property, this says   *)
(* that delivery comes first.)  Later sessions may have replaced the file.  *)
THEOREM NoSuccessWithoutDelivery ==
  Spec => ([]~DeliveredNow => [](snd_phase # "success"))
<1>1. Init => Untold
  BY UntoldAtFirst DEF Init, SenderInit
<1>2. IInv /\ Untold /\ ~DeliveredNow /\ [Next]_vars => Untold'
  <2> SUFFICES ASSUME IInv, Untold, ~DeliveredNow, [Next]_vars PROVE Untold'
    OBVIOUS
  <2> USE DEF IInv, SharedInv
  <2>1. CASE SenderMoves
    BY <2>1, SenderStepKeepsBounds, SenderStaysUntold DEF SenderMoves
  <2>2. CASE ReceiverMoves \/ GivesUp
    <3>1. (ReceiverStep \/ InactivityTimeout) /\ UNCHANGED snd_phase
      BY <2>2 DEF ReceiverMoves, GivesUp, ReceiverGivesUp, senderVars, sessionVars
    <3> QED
      BY <3>1, ReceiverTellsTheDelivered
  <2>3. CASE NetworkMoves
    BY <2>3, NetworkTellsNothing DEF NetworkMoves, senderVars, sessionVars
  <2>4. CASE UNCHANGED vars
    BY <2>4 DEF vars, channelVars, senderVars, sessionVars, Untold
  <2> QED
    BY <2>1, <2>2, <2>3, <2>4 DEF Next
<1>3. Untold => snd_phase # "success"
  BY DEF Untold
<1> QED
  BY <1>1, <1>2, <1>3, SpecIInv, PTL DEF Spec
=============================================================================
