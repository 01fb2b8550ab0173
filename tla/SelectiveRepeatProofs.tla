------------------------ MODULE SelectiveRepeatProofs ------------------------
(***************************************************************************)
(* What the runs of SelectiveRepeatTransfer check on four chunks, for      *)
(* every file, window, retry limit and network.                            *)
(***************************************************************************)
EXTENDS SelectiveRepeatTransfer, TransferProofs

(* The window is the numbers from base to next, no longer than announced,   *)
(* and holds only chunks that exist: announced, and in the file as it is    *)
(* read.                                                                    *)
WindowInv ==
  /\ EngineTypeOK
  /\ Window = base_seq..(next_seq - 1)
  /\ base_seq <= next_seq
  /\ next_seq <= base_seq + WindowSize[Me] /\ next_seq <= NumChunks(Me)
  /\ Window \subseteq Sendable(Me)

(* What is in flight never outruns the window, FIN not the last chunk.      *)
FlightInv ==
  FreshSession =>
    /\ MyDataBelow(base_seq + WindowSize[Me])
    /\ Tearing => NumChunks(Me) <= base_seq

(* A sender that is not served has sent nothing.                            *)
HeldInv ==
  /\ Once /\ session # Me => next_seq = 0
  /\ Once /\ RoomFor(Me) => RetiredIsHeld

IInv == SharedInv /\ WindowInv /\ FlightInv /\ HeldInv

-----------------------------------------------------------------------------
(* The steps of the engine: what they may do, and their books *)

(* What the pipeline may send next are chunks that exist, behind each other *)
(* and inside the window.                                                   *)
LEMMA FreshChunks ==
  ASSUME WindowInv
  PROVE  LET fresh == next_seq..(SendLimit - 1)
             next  == next_seq + Cardinality(fresh)
         IN
         /\ fresh \subseteq Sendable(Me)
         /\ \A n \in fresh : n \in Nat /\ next_seq <= n /\ n < base_seq + WindowSize[Me]
         /\ next \in Nat /\ next_seq <= next
         /\ next <= base_seq + WindowSize[Me] /\ next <= NumChunks(Me)
         /\ (base_seq..(next_seq - 1)) \cup fresh = base_seq..(next - 1)
<1> DEFINE fresh == next_seq..(SendLimit - 1)
           bound == base_seq + WindowSize[Me]
<1>1. /\ next_seq \in Nat /\ base_seq \in Nat /\ bound \in Int
      /\ base_seq <= next_seq /\ next_seq <= bound /\ next_seq <= NumChunks(Me)
  BY SizeAssumption, SenderAssumption DEF WindowInv, EngineTypeOK
<1> HIDE DEF bound
<1>2. /\ SendLimit \in Int /\ SendLimit <= bound /\ SendLimit <= NumChunks(Me)
      /\ fresh \subseteq Sendable(Me)
      /\ Cardinality(fresh) = IF next_seq < SendLimit THEN SendLimit - next_seq ELSE 0
  BY <1>1, ChunksBelowLimit DEF SendLimit, bound
<1>3. NumChunks(Me) \in Nat
  BY NumChunksType, SenderAssumption
<1>4. CASE next_seq < SendLimit
  <2>1. next_seq + Cardinality(fresh) = SendLimit
    BY <1>1, <1>2, <1>4
  <2> QED
    BY <1>1, <1>2, <1>3, <1>4, <2>1 DEF bound
<1>5. CASE ~(next_seq < SendLimit)
  <2>1. next_seq + Cardinality(fresh) = next_seq /\ fresh = {}
    BY <1>1, <1>2, <1>5
  <2> QED
    BY <1>1, <1>2, <1>3, <2>1 DEF bound
<1> QED
  BY <1>4, <1>5

LEMMA PipelineStep ==
  ASSUME ChannelTypeOK, SessionTypeOK, WindowInv, Pipeline
  PROVE  SenderKeepsBounds /\ WindowInv'
<1> DEFINE fresh == next_seq..(SendLimit - 1)
           sent  == {DataPkt(Me, n) : n \in fresh}
<1>1. /\ fresh \subseteq Sendable(Me)
      /\ next_seq' \in Nat /\ next_seq <= next_seq'
      /\ next_seq' <= base_seq + WindowSize[Me] /\ next_seq' <= NumChunks(Me)
      /\ (base_seq..(next_seq - 1)) \cup fresh = base_seq..(next_seq' - 1)
  BY FreshChunks DEF Pipeline
<1>2. sent \in SUBSET Requests /\ SenderSends(sent)
  BY <1>1, SendersDatagrams DEF Pipeline
<1>3. PhaseMoves
  BY DEF Pipeline, SessionTypeOK, sessionVars, PhaseMoves, Streamed, Finished
<1>4. SenderKeepsBounds
  BY <1>2, <1>3, SendTypes DEF SenderKeepsBounds
<1>5. Window' = Window \cup fresh
  BY DEF Pipeline, Window
<1>6. \A n \in Window' : window_packets'[n] \in WindowPackets
  <2>1. \A n \in Window' :
          window_packets'[n] = IF n \in fresh THEN [state |-> "IN_FLIGHT", retry_count |-> 0]
                                              ELSE window_packets[n]
    BY <1>5 DEF Pipeline
  <2>2. [state |-> "IN_FLIGHT", retry_count |-> 0] \in WindowPackets
    BY SenderAssumption DEF WindowPackets
  <2> QED
    BY <1>5, <2>1, <2>2 DEF WindowInv, EngineTypeOK
<1>7. base_seq' = base_seq /\ base_seq \in Nat /\ next_seq \in Nat /\ loop' \in LoopSteps
  BY DEF Pipeline, WindowInv, EngineTypeOK, LoopSteps
<1>8. Window' = base_seq'..(next_seq' - 1) /\ Window' \subseteq Sendable(Me)
  BY <1>1, <1>5, <1>7 DEF WindowInv
<1>9. Window' \subseteq Nat
  BY <1>8 DEF Sendable
<1>10. base_seq' <= next_seq'
  BY <1>1, <1>7 DEF WindowInv
<1> QED
  BY <1>1, <1>4, <1>6, <1>7, <1>8, <1>9, <1>10 DEF WindowInv, EngineTypeOK

LEMMA CheckTimersStep ==
  ASSUME ChannelTypeOK, SessionTypeOK, WindowInv,
         NEW expired \in SUBSET InFlight, CheckTimers(expired)
  PROVE  SenderKeepsBounds /\ WindowInv'
<1> DEFINE sent == {DataPkt(Me, n) : n \in expired}
<1>1. expired \subseteq Sendable(Me)
  BY DEF InFlight, WindowInv
<1>2. sent \in SUBSET Requests /\ SenderSends(sent)
  BY <1>1, SendersDatagrams DEF CheckTimers
<1>3. PhaseMoves
  BY DEF CheckTimers, SessionTypeOK, PhaseMoves, Streamed, Finished
<1>4. SenderKeepsBounds
  BY <1>2, <1>3, SendTypes DEF SenderKeepsBounds
<1>5. Window' = Window
  BY DEF CheckTimers, Window
<1>6. ASSUME NEW n \in Window PROVE window_packets'[n] \in WindowPackets
  <2>1. /\ window_packets[n].state \in {"IN_FLIGHT", "ACKED"}
        /\ window_packets[n].retry_count \in 0..MaxRetries
        /\ window_packets[n] \in WindowPackets
    BY DEF WindowInv, EngineTypeOK, WindowPackets
  <2>2. window_packets'[n] = IF n \in expired
                             THEN [window_packets[n] EXCEPT !.retry_count = @ + 1]
                             ELSE window_packets[n]
    BY DEF CheckTimers
  <2>3. CASE n \in expired
    <3>1. window_packets[n].retry_count + 1 \in 0..MaxRetries
      BY <2>1, <2>3, SenderAssumption DEF CheckTimers, RetriesLeft
    <3> QED
      BY <2>1, <2>2, <2>3, <3>1 DEF WindowPackets
  <2>4. CASE n \notin expired
    BY <2>1, <2>2, <2>4
  <2> QED
    BY <2>3, <2>4
<1>7. UNCHANGED <<base_seq, next_seq>> /\ loop' \in LoopSteps
  BY DEF CheckTimers, LoopSteps
<1> QED
  BY <1>4, <1>5, <1>6, <1>7 DEF WindowInv, EngineTypeOK

LEMMA RetryLimitStep ==
  ASSUME ChannelTypeOK, SessionTypeOK, WindowInv,
         NEW expired \in SUBSET InFlight, RetryLimit(expired)
  PROVE  SenderKeepsBounds /\ WindowInv'
<1>1. expired \subseteq Sendable(Me)
  BY DEF InFlight, WindowInv
<1>2. PICK before \in SUBSET expired : SenderSends({DataPkt(Me, n) : n \in before})
  BY DEF RetryLimit
<1>3. {DataPkt(Me, n) : n \in before} \in SUBSET Requests
  BY <1>1, <1>2, SendersDatagrams
<1>4. PhaseMoves
  BY DEF RetryLimit, Streaming, SessionTypeOK, SndPhases, PhaseMoves, Streamed, Finished
<1>5. SenderKeepsBounds
  BY <1>2, <1>3, <1>4, SendTypes DEF SenderKeepsBounds
<1>6. WindowInv'
  BY DEF RetryLimit, engineVars, WindowInv, EngineTypeOK, Window
<1> QED
  BY <1>5, <1>6

LEMMA RecvAckStep ==
  ASSUME ChannelTypeOK, SessionTypeOK, WindowInv, NEW k \in Window, RecvAck(k)
  PROVE  SenderKeepsBounds /\ WindowInv'
<1>1. SenderKeepsBounds
  <2>1. SenderReads(Me, AckPkt(Me, k)) /\ UNCHANGED sessionVars
    BY DEF RecvAck
  <2>2. PhaseMoves
    BY <2>1 DEF sessionVars, SessionTypeOK, PhaseMoves, Streamed, Finished
  <2> QED
    BY <2>1, <2>2, SenderReadTypes DEF SenderKeepsBounds
<1>2. PICK base \in base_seq..next_seq :
        /\ base_seq' = base
        /\ window_packets' =
             [m \in Window \ (base_seq..(base - 1)) |->
                IF m = k THEN [window_packets[m] EXCEPT !.state = "ACKED"]
                         ELSE window_packets[m]]
  BY DEF RecvAck
<1>3. Window' = Window \ (base_seq..(base - 1))
  BY <1>2 DEF Window
<1>4. ASSUME NEW m \in Window' PROVE window_packets'[m] \in WindowPackets
  <2>1. window_packets[m] \in WindowPackets
    BY <1>3 DEF WindowInv, EngineTypeOK
  <2>2. [window_packets[m] EXCEPT !.state = "ACKED"] \in WindowPackets
    BY <2>1 DEF WindowPackets
  <2> QED
    BY <1>2, <1>3, <2>1, <2>2
<1>5. /\ base_seq' \in Nat /\ UNCHANGED next_seq /\ loop' \in LoopSteps
      /\ base_seq \in Nat /\ next_seq \in Nat /\ base_seq <= base_seq' /\ base_seq' <= next_seq
  BY <1>2 DEF RecvAck, LoopSteps, WindowInv, EngineTypeOK
<1>6. Window' = base_seq'..(next_seq' - 1)
  BY <1>2, <1>3, <1>5 DEF WindowInv
<1>7. next_seq' <= base_seq' + WindowSize[Me]
  BY <1>5, SizeAssumption, SenderAssumption DEF WindowInv
<1>8. EngineTypeOK'
  BY <1>3, <1>4, <1>5 DEF WindowInv, EngineTypeOK
<1> QED
  BY <1>1, <1>3, <1>5, <1>6, <1>7, <1>8 DEF WindowInv

(* The remaining steps of the loop leave the window alone.                  *)
LEMMA OtherStreamStep ==
  ASSUME ChannelTypeOK, SessionTypeOK, WindowInv,
         \/ \E p \in toSender[Me] : RecvIgnored(p)
         \/ DrainEnds \/ RecvTimeout \/ SourceIsGone \/ StreamDone
  PROVE  SenderKeepsBounds /\ WindowInv'
<1>1. UNCHANGED <<base_seq, next_seq, window_packets>> /\ loop' \in LoopSteps
  BY DEF RecvIgnored, DrainEnds, RecvTimeout, SourceIsGone, StreamDone, LoopSteps,
         engineVars, WindowInv, EngineTypeOK
<1>2. WindowInv'
  BY <1>1 DEF WindowInv, EngineTypeOK, Window
<1>3. ASSUME NEW p \in toSender[Me], RecvIgnored(p) PROVE SenderKeepsBounds
  <2>1. SenderReads(Me, p) /\ UNCHANGED sessionVars
    BY <1>3 DEF RecvIgnored
  <2>2. PhaseMoves
    BY <2>1 DEF sessionVars, SessionTypeOK, PhaseMoves, Streamed, Finished
  <2> QED
    BY <2>1, <2>2, SenderReadTypes DEF SenderKeepsBounds
<1>4. ASSUME DrainEnds \/ RecvTimeout PROVE SenderKeepsBounds
  <2>1. PhaseMoves
    BY <1>4 DEF DrainEnds, RecvTimeout, sessionVars, SessionTypeOK, PhaseMoves, Streamed, Finished
  <2>2. UNCHANGED channelVars
    BY <1>4 DEF DrainEnds, RecvTimeout
  <2> QED
    BY <2>1, <2>2, StillTypes DEF SenderKeepsBounds
<1>5. ASSUME StreamDone PROVE SenderKeepsBounds
  BY <1>5, StreamEndsStep DEF StreamDone
<1>6. ASSUME SourceIsGone PROVE SenderKeepsBounds
  BY <1>6, SourceVanishesStep DEF SourceIsGone
<1> QED
  BY <1>2, <1>3, <1>4, <1>5, <1>6

LEMMA SenderStepKeepsBounds ==
  ASSUME ChannelTypeOK, SessionTypeOK, WindowInv, SenderStep
  PROVE  SenderKeepsBounds /\ WindowInv'
<1>1. CASE send_handshake \/ send_teardown
  <2>1. SenderKeepsBounds
    BY <1>1, HandshakeStep, TeardownStep DEF send_handshake, send_teardown
  <2>2. WindowInv'
    BY <1>1 DEF send_handshake, send_teardown, engineVars, WindowInv, EngineTypeOK, Window
  <2> QED
    BY <2>1, <2>2
<1>2. CASE send_file_stream
  BY <1>2, PipelineStep, CheckTimersStep, RetryLimitStep, RecvAckStep, OtherStreamStep
     DEF send_file_stream
<1> QED
  BY <1>1, <1>2 DEF SenderStep

(* What the engine leaves alone in the steps of others.                     *)
LEMMA EngineStutter ==
  ASSUME WindowInv, UNCHANGED senderVars
  PROVE  WindowInv'
BY DEF senderVars, engineVars, WindowInv, EngineTypeOK, Window

(* The steps of the stream in which no chunk leaves the window: the new     *)
(* ones are below its end, the retired ones stay retired.                   *)
LEMMA SenderStepKeepsFlight ==
  ASSUME SharedInv, WindowInv, FlightInv, SenderStep
  PROVE  FlightInv'
<1> SUFFICES ASSUME FreshSession
             PROVE  /\ \A p \in toReceiver' : p.type = "DATA" /\ p.session = Me =>
                         p.seq_num < base_seq' + WindowSize[Me]
                    /\ Tearing' => NumChunks(Me) <= base_seq'
  BY DEF FlightInv, MyDataBelow
<1> DEFINE bound == base_seq + WindowSize[Me]
<1>1. MyDataBelow(bound) /\ (Tearing => NumChunks(Me) <= base_seq)
  BY DEF FlightInv
<1>2. base_seq \in Nat /\ next_seq \in Nat /\ bound \in Nat /\ WindowSize[Me] \in Nat
  BY SizeAssumption, SenderAssumption DEF WindowInv, EngineTypeOK
<1>3. CASE send_handshake \/ send_teardown
  <2>1. UNCHANGED base_seq /\ (Handshake \/ Teardown)
    BY <1>3 DEF send_handshake, send_teardown, engineVars
  <2> QED
    BY <1>1, <2>1, SessionStepsSendNoData, MyDataStaysBelow
<1>4. ASSUME NEW sent, SenderSends({DataPkt(Me, n) : n \in sent}),
             \A n \in sent : n < bound,
             UNCHANGED base_seq, snd_phase' \in {"stream", "failed"}
      PROVE  /\ \A p \in toReceiver' : p.type = "DATA" /\ p.session = Me => p.seq_num < bound
             /\ Tearing' => NumChunks(Me) <= base_seq
  <2>1. FinPkt(Me) \in toReceiver' => FinPkt(Me) \in toReceiver
    BY <1>4, DataIsNoFin
  <2> QED
    BY <1>1, <1>4, <2>1, MyDataWithMoreSent DEF Tearing
<1>5. CASE Pipeline
  <2>1. \A n \in next_seq..(SendLimit - 1) : n < bound
    BY FreshChunks
  <2>2. /\ SenderSends({DataPkt(Me, n) : n \in next_seq..(SendLimit - 1)})
        /\ UNCHANGED base_seq /\ snd_phase' = "stream"
    BY <1>5 DEF Pipeline, Streaming, sessionVars
  <2> QED
    BY <1>4, <2>1, <2>2
<1>6. ASSUME NEW expired \in SUBSET InFlight, CheckTimers(expired) \/ RetryLimit(expired)
      PROVE  /\ \A p \in toReceiver' : p.type = "DATA" /\ p.session = Me =>
                  p.seq_num < base_seq' + WindowSize[Me]
             /\ Tearing' => NumChunks(Me) <= base_seq'
  <2>1. \A n \in expired : n < bound
    BY <1>2 DEF InFlight, WindowInv
  <2>2. PICK sent \in SUBSET expired : SenderSends({DataPkt(Me, n) : n \in sent})
    BY <1>6 DEF CheckTimers, RetryLimit
  <2>3. UNCHANGED base_seq /\ snd_phase' \in {"stream", "failed"}
    BY <1>6 DEF CheckTimers, RetryLimit, Streaming, engineVars
  <2> QED
    BY <1>4, <2>1, <2>2, <2>3
<1>7. ASSUME NEW k \in Window, RecvAck(k)
      PROVE  /\ MyDataBelow(base_seq' + WindowSize[Me])
             /\ UNCHANGED toReceiver /\ (Tearing' => Tearing) /\ base_seq <= base_seq'
             /\ base_seq' \in Nat
  <2>1. UNCHANGED <<toReceiver, snd_phase>>
    BY <1>7 DEF RecvAck, SenderReads, sessionVars
  <2>2. base_seq <= base_seq' /\ base_seq' \in Nat
    BY <1>2, <1>7 DEF RecvAck
  <2>3. MyDataBelow(base_seq' + WindowSize[Me])
    BY <1>1, <1>2, <2>2, HigherLimit DEF SharedInv, ChannelTypeOK
  <2> QED
    BY <2>1, <2>2, <2>3 DEF Tearing
<1>8. CASE \/ \E p \in toSender[Me] : RecvIgnored(p)
           \/ DrainEnds \/ RecvTimeout \/ SourceIsGone
  <2>1. UNCHANGED <<toReceiver, base_seq>> /\ snd_phase' \in {"stream", "failed"}
    BY <1>8 DEF RecvIgnored, DrainEnds, RecvTimeout, SourceIsGone, SourceVanishes, SenderReads,
                engineVars, channelVars, sessionVars, Receiving, Streaming
  <2> QED
    BY <1>1, <2>1 DEF Tearing, MyDataBelow
<1>9. CASE StreamDone
  <2>1. UNCHANGED <<toReceiver, base_seq>> /\ NumChunks(Me) <= base_seq
    BY <1>2, <1>9, NumChunksType, SenderAssumption DEF StreamDone, engineVars, channelVars
  <2> QED
    BY <1>1, <2>1 DEF MyDataBelow
<1> QED
  <2>1. \A k \in Window : RecvAck(k) =>
          /\ \A p \in toReceiver' : p.type = "DATA" /\ p.session = Me =>
               p.seq_num < base_seq' + WindowSize[Me]
          /\ Tearing' => NumChunks(Me) <= base_seq'
    BY <1>1, <1>2, <1>7, NumChunksType, SenderAssumption DEF MyDataBelow
  <2> QED
    BY <1>3, <1>5, <1>6, <1>8, <1>9, <2>1 DEF SenderStep, send_file_stream

LEMMA OthersKeepFlight ==
  ASSUME FlightInv, UNCHANGED senderVars,
         toReceiver' \subseteq toReceiver \cup {Garbage}
  PROVE  FlightInv'
<1>1. UNCHANGED <<base_seq, snd_phase>> /\ FinPkt(Me) # Garbage
  BY DEF senderVars, engineVars, sessionVars, FinPkt, Garbage
<1>2. \A p \in toReceiver' : p \in toReceiver \/ p.type # "DATA"
  BY DEF Garbage
<1> QED
  BY <1>1, <1>2 DEF FlightInv, MyDataBelow, Tearing

(* The sender streams to a receiver that serves it, and retires only what   *)
(* it was told to be held.                                                  *)
LEMMA SenderStepKeepsHeld ==
  ASSUME SharedInv, WindowInv, HeldInv, SenderStep, UNCHANGED rcvVars
  PROVE  HeldInv'
<1>1. Window = base_seq..(next_seq - 1) /\ base_seq \in Nat /\ next_seq \in Nat
  BY DEF WindowInv, EngineTypeOK
<1>2. Window' = base_seq'..(next_seq' - 1) /\ base_seq' \in Nat /\ next_seq' \in Nat
  BY SenderStepKeepsBounds DEF SharedInv, WindowInv, EngineTypeOK
<1>3. UNCHANGED <<session, expected_seq, out_of_order_buffer, rcv_phase>>
  BY DEF rcvVars
<1>4. (ServingMe' <=> ServingMe) /\ \A n : Held(n)' <=> Held(n)
  BY <1>3 DEF ServingMe, Writing, Held, Buffered
<1>5. ASSUME Once, session' # Me PROVE next_seq' = 0
  <2>1. snd_phase # "stream" /\ next_seq = 0
    BY <1>3, <1>5 DEF SharedInv, StartedInv, Streamed, HeldInv
  <2> QED
    BY <2>1 DEF SenderStep, send_handshake, send_teardown, engineVars, send_file_stream,
                Pipeline, CheckTimers, RetryLimit, RecvAck, RecvIgnored, DrainEnds,
                RecvTimeout, SourceIsGone, SourceVanishes, StreamDone, StreamEnds,
                Receiving, Streaming
<1>6. ASSUME Once, RoomFor(Me), ServingMe,
             NEW n \in 0..(next_seq' - 1), n < base_seq' \/ Acked(n)'
      PROVE  Held(n)
  <2>1. \A m \in 0..(next_seq - 1) : m < base_seq \/ Acked(m) => Held(m)
    BY <1>6 DEF HeldInv, RetiredIsHeld, Held
  <2>2. CASE UNCHANGED <<base_seq, next_seq, window_packets>>
    BY <1>6, <2>1, <2>2 DEF Acked, Window
  <2>3. CASE Pipeline
    <3>1. base_seq' = base_seq /\ (Acked(n)' => Acked(n))
      BY <2>3 DEF Pipeline, Acked, Window
    <3>2. n \in 0..(next_seq - 1)
      BY <1>1, <1>6, <3>1 DEF Acked, WindowInv
    <3> QED
      BY <1>6, <2>1, <3>1, <3>2
  <2>4. ASSUME NEW expired \in SUBSET InFlight, CheckTimers(expired)
        PROVE  Held(n)
    <3>1. UNCHANGED <<base_seq, next_seq>> /\ Window' = Window
      BY <2>4 DEF CheckTimers, Window
    <3>2. n \in Window => window_packets'[n].state = window_packets[n].state
      BY <2>4 DEF CheckTimers, WindowInv, EngineTypeOK, WindowPackets
    <3> QED
      BY <1>6, <2>1, <3>1, <3>2 DEF Acked
  <2>5. ASSUME NEW k \in Window, RecvAck(k)
        PROVE  Held(n)
    <3>1. Held(k)
      <4>1. k \in Nat /\ k < NumChunks(Me) /\ AckPkt(Me, k) \in toSender[Me]
        BY <1>1, <2>5, NumChunksType, SenderAssumption DEF RecvAck, WindowInv
      <4> QED
        BY <1>6, <4>1, AckTakenIsHeld
    <3>2. PICK base \in base_seq..next_seq :
            /\ \A m \in base_seq..(base - 1) : m = k \/ Acked(m)
            /\ base_seq' = base
            /\ window_packets' =
                 [m \in Window \ (base_seq..(base - 1)) |->
                    IF m = k THEN [window_packets[m] EXCEPT !.state = "ACKED"]
                             ELSE window_packets[m]]
      BY <2>5 DEF RecvAck
    <3>3. next_seq' = next_seq
      BY <2>5 DEF RecvAck
    <3>4. n = k \/ n < base_seq \/ Acked(n)
      <4>1. CASE n < base_seq'
        BY <1>1, <1>6, <3>2, <4>1
      <4>2. CASE Acked(n)'
        <5>1. n \in Window \ (base_seq..(base - 1)) /\ window_packets'[n].state = "ACKED"
          BY <3>2, <4>2 DEF Acked, Window
        <5> QED
          BY <3>2, <5>1 DEF Acked
      <4> QED
        BY <1>6, <4>1, <4>2
    <3> QED
      BY <1>6, <2>1, <3>1, <3>3, <3>4
  <2> QED
    BY <2>2, <2>3, <2>4, <2>5
       DEF SenderStep, send_handshake, send_teardown, engineVars, send_file_stream,
           RetryLimit, RecvIgnored, DrainEnds, RecvTimeout, SourceIsGone, StreamDone
<1>7. Once /\ RoomFor(Me) => RetiredIsHeld'
  BY <1>3, <1>4, <1>6 DEF RetiredIsHeld, Held, Buffered
<1> QED
  BY <1>5, <1>7 DEF HeldInv

LEMMA ReceiverStepKeepsHeld ==
  ASSUME SharedInv, WindowInv, HeldInv, ReceiverStep \/ InactivityTimeout,
         UNCHANGED senderVars
  PROVE  HeldInv'
<1>1. UNCHANGED <<base_seq, next_seq, window_packets>>
  BY DEF senderVars, engineVars
<1>2. Once => /\ session = Me => session' = Me
              /\ session # Me => next_seq = 0
  BY MyServiceLasts DEF HeldInv, SharedInv, ServiceInv
<1>3. ASSUME Once, RoomFor(Me), ServingMe',
             NEW n \in 0..(next_seq - 1), n < base_seq \/ Acked(n)
      PROVE  Held(n)'
  <2>1. session = Me /\ Writing' /\ n \in Nat
    BY <1>2, <1>3 DEF ServingMe, WindowInv, EngineTypeOK
  <2>2. Writing /\ (Held(n) => Held(n)')
    BY <1>3, <2>1, MyHeldLasts
  <2> QED
    BY <1>3, <2>1, <2>2 DEF HeldInv, RetiredIsHeld, ServingMe, Held
<1>4. Once /\ RoomFor(Me) => RetiredIsHeld'
  BY <1>1, <1>3 DEF RetiredIsHeld, Held, Acked, Window
<1> QED
  BY <1>1, <1>2, <1>4 DEF HeldInv

LEMMA HeldStutter ==
  ASSUME HeldInv, UNCHANGED senderVars, UNCHANGED rcvVars
  PROVE  HeldInv'
BY DEF HeldInv, senderVars, engineVars, rcvVars, RetiredIsHeld, ServingMe, Writing, Acked,
       Window, Buffered

-----------------------------------------------------------------------------
LEMMA InitIInv == Init => IInv
<1> SUFFICES ASSUME Init PROVE IInv
  OBVIOUS
<1>1. ChannelInit /\ SessionInit /\ EngineInit /\ ReceiverInit
  BY DEF Init, SenderInit
<1>2. WindowInv
  <2>1. Window = {} /\ base_seq..(next_seq - 1) = {}
    BY <1>1 DEF EngineInit, Window
  <2> QED
    BY <1>1, <2>1, SizeAssumption, SenderAssumption, NumChunksType
       DEF EngineInit, WindowInv, EngineTypeOK, LoopSteps
<1>3. FlightInv
  BY <1>1, FreshStart DEF FlightInv
<1>4. HeldInv
  BY <1>1, SessionAssumption, SenderAssumption
     DEF HeldInv, EngineInit, RetiredIsHeld, ServingMe, ReceiverInit
<1> QED
  BY <1>1, <1>2, <1>3, <1>4, SharedStarts DEF IInv

LEMMA NextIInv == IInv /\ [Next]_vars => IInv'
<1> SUFFICES ASSUME IInv, [Next]_vars PROVE IInv'
  OBVIOUS
<1> USE DEF IInv
<1>1. CASE SenderMoves
  <2>1. UNCHANGED rcvVars /\ SenderStep
    BY <1>1 DEF SenderMoves
  <2>2. SenderKeepsBounds /\ WindowInv'
    BY <2>1, SenderStepKeepsBounds DEF SharedInv
  <2> QED
    BY <2>1, <2>2, SharedSenderStep, SenderStepKeepsFlight, SenderStepKeepsHeld
<1>2. CASE ReceiverMoves \/ GivesUp
  <2>1. (ReceiverStep \/ InactivityTimeout) /\ UNCHANGED senderVars
    BY <1>2 DEF ReceiverMoves, GivesUp, ReceiverGivesUp
  <2>2. SharedInv'
    BY <2>1, SharedReceiverStep DEF senderVars
  <2>3. FlightInv'
    BY <2>1, ReceiverAddsNoRequest, OthersKeepFlight
  <2> QED
    BY <2>1, <2>2, <2>3, EngineStutter, ReceiverStepKeepsHeld
<1>3. CASE NetworkMoves
  <2>1. Impair /\ UNCHANGED senderVars /\ UNCHANGED rcvVars
    BY <1>3 DEF NetworkMoves
  <2>2. SharedInv'
    BY <2>1, SharedImpairStep DEF senderVars
  <2> QED
    BY <2>1, <2>2, ImpairAddsOnlyGarbage, OthersKeepFlight, EngineStutter, HeldStutter
<1>4. CASE UNCHANGED vars
  <2>1. UNCHANGED channelVars /\ UNCHANGED senderVars /\ UNCHANGED rcvVars
    BY <1>4 DEF vars
  <2>2. SharedInv' /\ UNCHANGED toReceiver
    BY <2>1, SharedStutter DEF senderVars, channelVars
  <2> QED
    BY <2>1, <2>2, OthersKeepFlight, EngineStutter, HeldStutter
<1> QED
  BY <1>1, <1>2, <1>3, <1>4 DEF Next

LEMMA SpecIInv == Spec => []IInv
BY InitIInv, NextIInv, PTL DEF Spec

-----------------------------------------------------------------------------
(* Type correctness of both parties and of all datagrams in flight; in      *)
(* particular no packet is retried more than MaxRetries times.              *)
THEOREM TransferTypeCorrect == Spec => []TypeOK
<1>1. IInv => TypeOK
  BY DEF IInv, SharedInv, WindowInv, ReceiverInv, TypeOK
<1> QED
  BY <1>1, SpecIInv, PTL

(* send_file returns success only for a file that the receiver holds, equal *)
(* to the source as it was hashed, however the network behaves and whatever *)
(* became of the source in between (a receiver started with --once).        *)
THEOREM SuccessIsDelivery == Once /\ Spec => []SuccessMeansDelivered
<1>1. Once /\ IInv => SuccessMeansDelivered
  BY SuccessInvMeansDelivered DEF IInv, SharedInv
<1>2. CASE Once
  <2>1. IInv => SuccessMeansDelivered
    BY <1>1, <1>2
  <2> QED
    BY <2>1, SpecIInv, PTL
<1>3. CASE ~Once
  BY <1>3
<1> QED
  BY <1>2, <1>3

(* What the window has retired or marked ACKED the receiver has in its file *)
(* or its buffer, whatever the network does to data and ACKs, if the buffer *)
(* has room for a window.                                                   *)
THEOREM RetiredChunksAreHeld == Once /\ RoomFor(Me) /\ Spec => []RetiredIsHeld
<1>1. Once /\ RoomFor(Me) /\ IInv => RetiredIsHeld
  BY DEF IInv, HeldInv
<1>2. CASE Once /\ RoomFor(Me)
  <2>1. IInv => RetiredIsHeld
    BY <1>1, <1>2
  <2> QED
    BY <2>1, SpecIInv, PTL
<1>3. CASE ~(Once /\ RoomFor(Me))
  BY <1>3
<1> QED
  BY <1>2, <1>3

LEMMA InvMeetsReceiver ==
  Once /\ RoomFor(Me) /\ FreshSession /\ IInv => NeverOutOfWindow /\ FinFindsDataComplete
<1> SUFFICES ASSUME Once, RoomFor(Me), FreshSession, IInv
             PROVE  NeverOutOfWindow /\ FinFindsDataComplete
  OBVIOUS
<1>1. /\ SharedInv /\ base_seq \in Nat /\ next_seq \in Nat /\ base_seq <= next_seq
      /\ MyDataBelow(base_seq + WindowSize[Me])
      /\ Tearing => NumChunks(Me) <= base_seq
  BY DEF IInv, FlightInv, WindowInv, EngineTypeOK
<1>2. ASSUME ServingMe, NEW n \in 0..(base_seq - 1) PROVE Held(n)
  BY <1>1, <1>2 DEF IInv, HeldInv, RetiredIsHeld, Held
<1> QED
  BY <1>1, <1>2, WindowMeetsReceiver

(* No chunk in flight is beyond the window of the receiver that serves the  *)
(* sender, though the two advance by different books, if no older datagram  *)
(* bears this sender's session_id: the out-of-window branch                 *)
(* (protocol.py:1165) costs no correct sender a retry.                      *)
THEOREM WindowIsShared == Once /\ RoomFor(Me) /\ FreshSession /\ Spec => []NeverOutOfWindow
<1>1. CASE Once /\ RoomFor(Me) /\ FreshSession
  <2>1. IInv => NeverOutOfWindow
    BY <1>1, InvMeetsReceiver
  <2> QED
    BY <2>1, SpecIInv, PTL
<1>2. CASE ~(Once /\ RoomFor(Me) /\ FreshSession)
  BY <1>2
<1> QED
  BY <1>1, <1>2

(* FIN never finds the receiver short of data, under the same conditions.   *)
THEOREM FinComesLast == Once /\ RoomFor(Me) /\ FreshSession /\ Spec => []FinFindsDataComplete
<1>1. CASE Once /\ RoomFor(Me) /\ FreshSession
  <2>1. IInv => FinFindsDataComplete
    BY <1>1, InvMeetsReceiver
  <2> QED
    BY <2>1, SpecIInv, PTL
<1>2. CASE ~(Once /\ RoomFor(Me) /\ FreshSession)
  BY <1>2
<1> QED
  BY <1>1, <1>2

-----------------------------------------------------------------------------
(* Steps *)

NoAckedResent ==
  \A n \in 0..(next_seq - 1) :
    (n < base_seq \/ Acked(n)) /\ DataPkt(Me, n) \notin toReceiver
      => DataPkt(Me, n) \notin toReceiver'

LEMMA StepResendsNoAcked == IInv /\ [Next]_vars => NoAckedResent
<1> SUFFICES ASSUME IInv, [Next]_vars, NEW n \in 0..(next_seq - 1),
                    n < base_seq \/ Acked(n), DataPkt(Me, n) \notin toReceiver
             PROVE  DataPkt(Me, n) \notin toReceiver'
  BY DEF NoAckedResent
<1>1. Window = base_seq..(next_seq - 1) /\ base_seq \in Nat /\ next_seq \in Nat
  BY DEF IInv, WindowInv, EngineTypeOK
<1>2. DataPkt(Me, n) \notin {StartPkt(Me), FinPkt(Me), Garbage}
  BY DEF DataPkt, StartPkt, FinPkt, Garbage
<1>3. n \notin InFlight
  BY <1>1 DEF InFlight, Acked
<1>4. CASE SenderStep
  <2>1. CASE send_handshake \/ send_teardown
    BY <1>2, <2>1, SessionStepsSendNoData DEF send_handshake, send_teardown
  <2>2. CASE Pipeline
    <3>1. n \notin next_seq..(SendLimit - 1)
      BY <1>1
    <3> QED
      BY <2>2, <3>1, DataOfOtherChunks DEF Pipeline
  <2>3. ASSUME NEW expired \in SUBSET InFlight, CheckTimers(expired) \/ RetryLimit(expired)
        PROVE  DataPkt(Me, n) \notin toReceiver'
    <3>1. PICK sent \in SUBSET expired : SenderSends({DataPkt(Me, m) : m \in sent})
      BY <2>3 DEF CheckTimers, RetryLimit
    <3> QED
      BY <1>3, <3>1, DataOfOtherChunks
  <2>4. CASE UNCHANGED toReceiver
    BY <2>4
  <2> QED
    BY <1>4, <2>1, <2>2, <2>3, <2>4
       DEF SenderStep, send_file_stream, RecvAck, RecvIgnored, SenderReads, DrainEnds,
           RecvTimeout, SourceIsGone, SourceVanishes, StreamDone, channelVars
<1>5. CASE ReceiverStep \/ InactivityTimeout
  BY <1>5, ReceiverAddsNoRequest
<1>6. CASE Impair
  BY <1>2, <1>6, ImpairAddsOnlyGarbage
<1>7. CASE UNCHANGED vars
  BY <1>7 DEF vars, channelVars
<1> QED
  BY <1>4, <1>5, <1>6, <1>7
     DEF Next, SenderMoves, ReceiverMoves, GivesUp, ReceiverGivesUp, NetworkMoves

(* No packet is retransmitted once its acknowledgement was processed        *)
(* (protocol.py:648), in any network.                                       *)
THEOREM OnlyUnacknowledgedAreResent == Spec => AckedNeverResent
<1>1. IInv /\ [Next]_vars => [NoAckedResent]_vars
  BY StepResendsNoAcked
<1>2. Spec => [][NoAckedResent]_vars
  BY <1>1, SpecIInv, PTL DEF Spec
<1> QED
  BY <1>2 DEF AckedNeverResent, NoAckedResent

LEMMA StepKeepsPromise == Once /\ IInv /\ [Next]_vars => [Promise!Next]_(Promise!vars)
<1> SUFFICES ASSUME Once, IInv, [Next]_vars PROVE [Promise!Next]_(Promise!vars)
  OBVIOUS
<1> USE DEF IInv
<1>1. CASE SenderMoves
  <2>1. UNCHANGED rcvVars /\ SenderStep
    BY <1>1 DEF SenderMoves
  <2> QED
    BY <2>1, SenderStepKeepsBounds, SenderKeepsPromise DEF SharedInv
<1>2. CASE ReceiverMoves \/ GivesUp
  <2>1. (ReceiverStep \/ InactivityTimeout) /\ UNCHANGED snd_phase
    BY <1>2 DEF ReceiverMoves, GivesUp, ReceiverGivesUp, senderVars, sessionVars
  <2> QED
    BY <2>1, ReceiverKeepsPromise
<1>3. CASE NetworkMoves \/ UNCHANGED vars
  <2>1. UNCHANGED snd_phase /\ UNCHANGED rcvVars
    BY <1>3 DEF NetworkMoves, vars, senderVars, sessionVars
  <2> QED
    BY <2>1, PromiseStutter
<1> QED
  BY <1>1, <1>2, <1>3 DEF Next

(* The engine and the receiver implement ReliableTransfer: the copy only    *)
(* grows, chunk by chunk of the file that is read, is discarded or kept,    *)
(* and success is reported of a kept copy only.                             *)
THEOREM TransferKeepsPromise == Once /\ Spec => ImplementsPromise
<1>1. CASE Once
  <2>1. Init => Promise!Init
    BY InitIInv, PromiseStarts DEF Init, SenderInit
  <2>2. IInv /\ [Next]_vars => [Promise!Next]_(Promise!vars)
    BY <1>1, StepKeepsPromise
  <2>3. Spec => Promise!Init /\ [][Promise!Next]_(Promise!vars)
    BY <2>1, <2>2, SpecIInv, PTL DEF Spec
  <2> QED
    BY <2>3 DEF ImplementsPromise, Promise!Spec
<1>2. CASE ~Once
  BY <1>2
<1> QED
  BY <1>1, <1>2

-----------------------------------------------------------------------------
(* Without --once too, send_file never returns success unless the file has  *)
(* lain whole on disk in its own session: in a run in which that never      *)
(* happens there is no success.  (Spec being a safety property, this says   *)
(* that delivery comes first.)  Later sessions may have replaced the file.  *)
THEOREM NoSuccessWithoutDelivery ==
  Spec => ([]~DeliveredNow => [](snd_phase # "success"))
<1>1. Init => Untold
  BY UntoldAtFirst DEF Init, SenderInit
<1>2. IInv /\ Untold /\ ~DeliveredNow /\ [Next]_vars => Untold'
  <2> SUFFICES ASSUME IInv, Untold, ~DeliveredNow, [Next]_vars PROVE Untold'
    OBVIOUS
  <2> USE DEF IInv, SharedInv
  <2>1. CASE SenderMoves
    BY <2>1, SenderStepKeepsBounds, SenderStaysUntold DEF SenderMoves
  <2>2. CASE ReceiverMoves \/ GivesUp
    <3>1. (ReceiverStep \/ InactivityTimeout) /\ UNCHANGED snd_phase
      BY <2>2 DEF ReceiverMoves, GivesUp, ReceiverGivesUp, senderVars, sessionVars
    <3> QED
      BY <3>1, ReceiverTellsTheDelivered
  <2>3. CASE NetworkMoves
    BY <2>3, NetworkTellsNothing DEF NetworkMoves, senderVars, sessionVars
  <2>4. CASE UNCHANGED vars
    BY <2>4 DEF vars, channelVars, senderVars, sessionVars, Untold
  <2> QED
    BY <2>1, <2>2, <2>3, <2>4 DEF Next
<1>3. Untold => snd_phase # "success"
  BY DEF Untold
<1> QED
  BY <1>1, <1>2, <1>3, SpecIInv, PTL DEF Spec
=============================================================================
