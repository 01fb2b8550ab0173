------------------------- MODULE StopAndWaitProofs -------------------------
(***************************************************************************)
(* What the runs of StopAndWaitTransfer check on three chunks, for every   *)
(* file, attempt limit and network.                                        *)
(***************************************************************************)
EXTENDS StopAndWaitTransfer, TransferProofs

(* The chunk being sent is the last that is in flight.                      *)
FlightInv == FreshSession => MyDataBelow(seq_num + 1)

(* A sender that is not served is at its first chunk; one that is, is in    *)
(* step with its receiver, from the handshake on.                           *)
LockInv ==
  /\ Once /\ session # Me => seq_num = 0
  /\ Once /\ FreshSession /\ ServingMe =>
       /\ expected_seq <= seq_num + 1
       /\ seq_num <= expected_seq \/ NumChunks(Me) <= expected_seq

(* FIN follows the last chunk that can be read.                             *)
TearInv == FreshSession /\ Tearing => Readable(Me) <= seq_num

IInv == SharedInv /\ EngineTypeOK /\ FlightInv /\ LockInv /\ TearInv

-----------------------------------------------------------------------------
(* Window 1 is what allows stop-and-wait to send every chunk it reads.      *)
LEMMA SendDataStep ==
  ASSUME ChannelTypeOK, SessionTypeOK, EngineTypeOK, SendData
  PROVE  SenderKeepsBounds /\ EngineTypeOK'
<1>1. ReadSize[Me] \in Nat /\ PayloadSize \in Nat \ {0}
  BY SizeAssumption, SenderAssumption
<1>2. Readable(Me) \in Int
  BY <1>1 DEF Readable, calculate_total_chunks
<1>3. seq_num \in Sendable(Me)
  BY <1>2, StopAndWaitAssumption DEF SendData, SendingChunk, EngineTypeOK, Sendable
<1>4. {DataPkt(Me, seq_num)} \in SUBSET Requests /\ SenderSends({DataPkt(Me, seq_num)})
  BY <1>3, SendersDatagrams DEF SendData
<1>5. PhaseMoves
  BY DEF SendData, SessionTypeOK, sessionVars, PhaseMoves, Streamed, Finished
<1>6. SenderKeepsBounds
  BY <1>4, <1>5, SendTypes DEF SenderKeepsBounds
<1>7. EngineTypeOK'
  BY SenderAssumption DEF SendData, EngineTypeOK
<1> QED
  BY <1>6, <1>7

LEMMA ReadStep ==
  ASSUME ChannelTypeOK, SessionTypeOK, EngineTypeOK,
         \/ RecvAck \/ RecvGarbage
         \/ \E p \in toSender[Me] : RecvIgnored(p)
  PROVE  SenderKeepsBounds /\ EngineTypeOK'
<1>1. PICK p : SenderReads(Me, p)
  BY DEF RecvAck, RecvGarbage, RecvIgnored
<1>2. UNCHANGED sessionVars
  BY DEF RecvAck, RecvGarbage, RecvIgnored, senderVars
<1>3. PhaseMoves
  BY <1>2 DEF SessionTypeOK, sessionVars, PhaseMoves, Streamed, Finished
<1>4. EngineTypeOK'
  <2>1. seq_num' \in Nat /\ tries' \in 0..MaxRetries
    <3>1. MaxRetries \in Nat /\ seq_num \in Nat /\ tries \in 0..MaxRetries
      BY SenderAssumption DEF EngineTypeOK
    <3>2. \/ seq_num' = seq_num + 1 /\ tries' = 0
          \/ seq_num' = seq_num /\ tries' = tries
      BY DEF RecvAck, RecvGarbage, RecvIgnored, senderVars, engineVars
    <3> QED
      BY <3>1, <3>2
  <2>2. waiting' = FALSE \/ waiting' = waiting
    BY DEF RecvAck, RecvGarbage, RecvIgnored, senderVars, engineVars
  <2> QED
    BY <2>1, <2>2 DEF EngineTypeOK
<1> QED
  BY <1>1, <1>3, <1>4, SenderReadTypes DEF SenderKeepsBounds

LEMMA SilentStep ==
  ASSUME ChannelTypeOK, SessionTypeOK, EngineTypeOK, RetryLimit \/ RecvTimeout
  PROVE  SenderKeepsBounds /\ EngineTypeOK'
<1>1. UNCHANGED channelVars
  BY DEF RetryLimit, RecvTimeout
<1>2. PhaseMoves
  BY DEF RetryLimit, RecvTimeout, SendingChunk, SessionTypeOK, sessionVars, SndPhases, PhaseMoves, Streamed, Finished
<1>3. EngineTypeOK'
  BY DEF RetryLimit, RecvTimeout, engineVars, EngineTypeOK
<1> QED
  BY <1>1, <1>2, <1>3, StillTypes DEF SenderKeepsBounds

LEMMA SenderStepKeepsBounds ==
  ASSUME ChannelTypeOK, SessionTypeOK, EngineTypeOK, SenderStep
  PROVE  SenderKeepsBounds /\ EngineTypeOK'
<1>1. CASE send_handshake \/ send_teardown
  <2>1. SenderKeepsBounds
    BY <1>1, HandshakeStep, TeardownStep DEF send_handshake, send_teardown
  <2>2. EngineTypeOK'
    BY <1>1 DEF send_handshake, send_teardown, engineVars, EngineTypeOK
  <2> QED
    BY <2>1, <2>2
<1>2. CASE send_chunk
  BY <1>2, SendDataStep, ReadStep, SilentStep DEF send_chunk
<1>3. CASE StreamDone
  <2>1. SenderKeepsBounds
    BY <1>3, StreamEndsStep DEF StreamDone
  <2>2. EngineTypeOK'
    BY <1>3 DEF StreamDone, engineVars, EngineTypeOK
  <2> QED
    BY <2>1, <2>2
<1>4. CASE SourceIsGone
  <2>1. SenderKeepsBounds
    BY <1>4, SourceVanishesStep DEF SourceIsGone
  <2>2. EngineTypeOK'
    BY <1>4 DEF SourceIsGone, engineVars, EngineTypeOK
  <2> QED
    BY <2>1, <2>2
<1> QED
  BY <1>1, <1>2, <1>3, <1>4 DEF SenderStep

-----------------------------------------------------------------------------
LEMMA EngineStutter ==
  ASSUME EngineTypeOK, UNCHANGED senderVars
  PROVE  EngineTypeOK'
BY DEF senderVars, engineVars, EngineTypeOK

LEMMA SenderStepKeepsFlight ==
  ASSUME SharedInv, EngineTypeOK, FlightInv, SenderStep
  PROVE  FlightInv'
<1> SUFFICES ASSUME FreshSession
             PROVE  \A p \in toReceiver' : p.type = "DATA" /\ p.session = Me =>
                      p.seq_num < seq_num' + 1
  BY DEF FlightInv, MyDataBelow
<1>1. MyDataBelow(seq_num + 1) /\ seq_num \in Nat /\ toReceiver \subseteq Requests
  BY DEF FlightInv, EngineTypeOK, SharedInv, ChannelTypeOK
<1>2. CASE send_handshake \/ send_teardown
  <2>1. UNCHANGED seq_num /\ (Handshake \/ Teardown)
    BY <1>2 DEF send_handshake, send_teardown, engineVars
  <2> QED
    BY <1>1, <2>1, SessionStepsSendNoData, MyDataStaysBelow
<1>3. CASE SendData
  <2> DEFINE sent == {seq_num}
  <2>1. {DataPkt(Me, n) : n \in sent} = {DataPkt(Me, seq_num)}
    OBVIOUS
  <2>2. SenderSends({DataPkt(Me, n) : n \in sent}) /\ UNCHANGED seq_num
    BY <1>3, <2>1 DEF SendData
  <2>3. \A n \in sent : n < seq_num + 1
    BY <1>1
  <2> HIDE DEF sent
  <2>4. \A p \in toReceiver' : p.type = "DATA" /\ p.session = Me => p.seq_num < seq_num + 1
    BY <1>1, <2>2, <2>3, MyDataWithMoreSent
  <2> QED
    BY <2>2, <2>4
<1>4. CASE RecvAck
  <2>1. UNCHANGED toReceiver /\ seq_num' = seq_num + 1
    BY <1>4 DEF RecvAck, SenderReads
  <2>2. MyDataBelow(seq_num' + 1)
    BY <1>1, <2>1, HigherLimit
  <2> QED
    BY <2>1, <2>2 DEF MyDataBelow
<1>5. CASE UNCHANGED <<toReceiver, seq_num>>
  BY <1>1, <1>5 DEF MyDataBelow
<1> QED
  BY <1>2, <1>3, <1>4, <1>5
     DEF SenderStep, send_chunk, RetryLimit, RecvIgnored, RecvGarbage, RecvTimeout,
         SenderReads, StreamDone, SourceIsGone, SourceVanishes, channelVars, senderVars,
         engineVars

LEMMA OthersKeepFlight ==
  ASSUME FlightInv, UNCHANGED senderVars,
         toReceiver' \subseteq toReceiver \cup {Garbage}
  PROVE  FlightInv'
<1>1. UNCHANGED seq_num
  BY DEF senderVars, engineVars
<1>2. \A p \in toReceiver' : p \in toReceiver \/ p.type # "DATA"
  BY DEF Garbage
<1> QED
  BY <1>1, <1>2 DEF FlightInv, MyDataBelow

(* The sender counts on, also while it tears down, and begins to tear down  *)
(* behind the last chunk.                                                   *)
LEMMA SenderStepKeepsTear ==
  ASSUME EngineTypeOK, TearInv, SenderStep
  PROVE  TearInv'
<1>1. seq_num \in Nat /\ Readable(Me) \in Nat
  BY NumChunksType, SenderAssumption DEF EngineTypeOK
<1>2. seq_num' = seq_num \/ seq_num' = seq_num + 1
  BY DEF SenderStep, send_handshake, send_teardown, send_chunk, SendData, RetryLimit,
         RecvAck, RecvIgnored, RecvGarbage, RecvTimeout, StreamDone, SourceIsGone,
         senderVars, engineVars
<1>3. Tearing' => Tearing \/ Readable(Me) <= seq_num
  <2>1. CASE send_handshake \/ send_teardown
    BY <2>1, SessionStepsSendNoData DEF send_handshake, send_teardown
  <2>2. CASE StreamDone
    BY <1>1, <2>2 DEF StreamDone
  <2>3. CASE SendData
    <3>1. {DataPkt(Me, n) : n \in {seq_num}} = {DataPkt(Me, seq_num)}
      OBVIOUS
    <3>2. /\ SenderSends({DataPkt(Me, n) : n \in {seq_num}})
          /\ UNCHANGED snd_phase
      BY <2>3, <3>1 DEF SendData, sessionVars
    <3> QED
      BY <3>2, DataIsNoFin DEF Tearing
  <2>4. CASE \/ RetryLimit \/ RecvAck \/ RecvGarbage \/ RecvTimeout \/ SourceIsGone
             \/ \E p \in toSender[Me] : RecvIgnored(p)
    <3>1. UNCHANGED toReceiver
      BY <2>4 DEF RetryLimit, RecvAck, RecvIgnored, RecvGarbage, RecvTimeout, SourceIsGone,
                  SourceVanishes, SenderReads, channelVars
    <3>2. snd_phase' = snd_phase \/ snd_phase' = "failed"
      BY <2>4 DEF RetryLimit, RecvAck, RecvIgnored, RecvGarbage, RecvTimeout, SourceIsGone,
                  SourceVanishes, senderVars, sessionVars
    <3> QED
      BY <3>1, <3>2 DEF Tearing
  <2> QED
    BY <2>1, <2>2, <2>3, <2>4 DEF SenderStep, send_chunk
<1> QED
  BY <1>1, <1>2, <1>3 DEF TearInv

LEMMA OthersKeepTear ==
  ASSUME TearInv, UNCHANGED senderVars,
         toReceiver' \subseteq toReceiver \cup {Garbage}
  PROVE  TearInv'
<1>1. UNCHANGED <<seq_num, snd_phase>>
  BY DEF senderVars, engineVars, sessionVars
<1>2. FinPkt(Me) # Garbage
  BY DEF FinPkt, Garbage
<1> QED
  BY <1>1, <1>2 DEF TearInv, Tearing

(* With a window of one chunk nothing is ever buffered, and the buffer has  *)
(* room for that.                                                           *)
LEMMA NothingIsBuffered ==
  ASSUME SharedInv, ServingMe
  PROVE  Buffered = {} /\ RoomFor(Me)
<1>1. \A n \in Buffered : n \in Nat /\ expected_seq < n /\ n < expected_seq + 1
  BY StopAndWaitAssumption
     DEF SharedInv, ReceiverInv, ReceiverTypeOK, BufferIsAhead, ServingMe
<1>2. expected_seq \in Nat
  BY DEF SharedInv, ReceiverInv, ReceiverTypeOK
<1>3. Buffered = {}
  BY <1>1, <1>2
<1>4. RoomFor(Me)
  BY StopAndWaitAssumption, ReceiverAssumption, SizeAssumption DEF RoomFor
<1> QED
  BY <1>3, <1>4

(* The sender moves on only when the receiver has written the chunk.        *)
LEMMA SenderStepKeepsLock ==
  ASSUME SharedInv, EngineTypeOK, LockInv, SenderStep, UNCHANGED rcvVars
  PROVE  LockInv'
<1>1. UNCHANGED <<session, expected_seq, rcv_phase>>
  BY DEF rcvVars
<1>2. CASE RecvAck
  <2>1. snd_phase = "stream" /\ seq_num' = seq_num + 1 /\ AckPkt(Me, seq_num) \in toSender[Me]
    BY <1>2 DEF RecvAck, SendingChunk
  <2>2. Once => session = Me
    BY <2>1 DEF SharedInv, StartedInv, Streamed
  <2>3. /\ seq_num \in Nat /\ expected_seq \in Nat /\ NumChunks(Me) \in Nat
    BY NumChunksType, SenderAssumption
       DEF EngineTypeOK, SharedInv, ReceiverInv, ReceiverTypeOK
  <2>4. ASSUME Once, FreshSession, ServingMe
        PROVE  /\ expected_seq <= seq_num' + 1
               /\ seq_num' <= expected_seq \/ NumChunks(Me) <= expected_seq
    <3>1. /\ expected_seq <= seq_num + 1
          /\ seq_num <= expected_seq \/ NumChunks(Me) <= expected_seq
      BY <2>4 DEF LockInv
    <3>2. CASE seq_num < NumChunks(Me)
      <4>1. Held(seq_num) /\ Buffered = {}
        BY <2>1, <2>3, <2>4, <3>2, AckTakenIsHeld, NothingIsBuffered
      <4> QED
        BY <2>1, <2>3, <3>1, <4>1 DEF Held
    <3>3. CASE ~(seq_num < NumChunks(Me))
      BY <2>1, <2>3, <3>1, <3>3
    <3> QED
      BY <3>2, <3>3
  <2> QED
    BY <1>1, <2>2, <2>4 DEF LockInv, ServingMe, Writing
<1>3. CASE UNCHANGED seq_num
  BY <1>1, <1>3 DEF LockInv, ServingMe, Writing
<1> QED
  BY <1>2, <1>3
     DEF SenderStep, send_handshake, send_teardown, send_chunk, SendData, RetryLimit,
         RecvIgnored, RecvGarbage, RecvTimeout, StreamDone, SourceIsGone, senderVars,
         engineVars

LEMMA ReceiverStepKeepsLock ==
  ASSUME SharedInv, EngineTypeOK, FlightInv, LockInv, ReceiverStep \/ InactivityTimeout,
         UNCHANGED senderVars
  PROVE  LockInv'
<1>1. UNCHANGED seq_num /\ seq_num \in Nat
  BY DEF senderVars, engineVars, EngineTypeOK
<1>2. Once => /\ session = Me => session' = Me
              /\ session # Me => seq_num = 0
  BY MyServiceLasts DEF LockInv, SharedInv, ServiceInv
<1>3. ASSUME Once, FreshSession, ServingMe'
      PROVE  /\ expected_seq' <= seq_num + 1
             /\ seq_num <= expected_seq' \/ NumChunks(Me) <= expected_seq'
  <2>1. toReceiver \subseteq Requests /\ ReceiverInv /\ ProgressInv /\ expected_seq \in Nat
    BY DEF SharedInv, ServiceInv, ChannelTypeOK, ReceiverInv, ReceiverTypeOK
  <2>2. CASE session # Me
    <3>1. PICK p \in toReceiver : AcceptStart(p)
      BY <1>3, <2>1, <2>2, SessionStays DEF ServingMe
    <3>2. expected_seq' = 0 /\ seq_num = 0
      BY <1>2, <1>3, <2>2, <3>1 DEF AcceptStart
    <3> QED
      BY <3>2
  <2>3. CASE session = Me
    <3>1. Writing
      BY <1>3, <2>3, MyHeldLasts DEF ServingMe
    <3>2. /\ expected_seq <= seq_num + 1
          /\ seq_num <= expected_seq \/ NumChunks(Me) <= expected_seq
      BY <1>3, <2>3, <3>1 DEF LockInv, ServingMe
    <3>3. CASE UNCHANGED expected_seq
      BY <3>2, <3>3
    <3>4. ASSUME NEW p \in toReceiver, AcceptInOrder(p)
          PROVE  /\ expected_seq' <= seq_num + 1
                 /\ seq_num <= expected_seq' \/ NumChunks(Me) <= expected_seq'
      <4>1. expected_seq < seq_num + 1
        BY <1>3, <2>3, <3>4 DEF AcceptInOrder, IsData, FlightInv, MyDataBelow
      <4>2. Buffered = {}
        BY <2>3, <3>1, NothingIsBuffered DEF ServingMe
      <4>3. PICK next \in (expected_seq + 1)..(expected_seq + 1 + Cardinality(Buffered)) :
              DrainsUpTo(next) /\ expected_seq' = next
        BY <3>4 DEF AcceptInOrder
      <4>4. Cardinality(Buffered) = 0
        BY <4>2, FS_EmptySet
      <4>5. expected_seq' = expected_seq + 1
        BY <2>1, <4>3, <4>4
      <4>6. NumChunks(Me) \in Nat
        BY NumChunksType, SenderAssumption
      <4> QED
        BY <1>1, <2>1, <3>2, <4>1, <4>5, <4>6
    <3>5. ASSUME NEW p \in toReceiver, AcceptStart(p) PROVE FALSE
      BY <2>1, <2>3, <3>5, SessionAssumption, SenderAssumption DEF AcceptStart, ProgressInv
    <3> QED
      BY <1>3, <3>1, <3>3, <3>4, <3>5, QuietChangesNothing
         DEF ReceiverStep, Receive, Quiet, BufferOutOfOrder, VerifyFin, DrainCorrupt,
             DrainEmpty, RaiseBlockingIOError, Rebind, InactivityTimeout, rcvVars
  <2> QED
    BY <2>2, <2>3
<1> QED
  BY <1>1, <1>2, <1>3 DEF LockInv

LEMMA LockStutter ==
  ASSUME LockInv, UNCHANGED senderVars, UNCHANGED rcvVars
  PROVE  LockInv'
BY DEF LockInv, senderVars, engineVars, rcvVars, ServingMe, Writing

-----------------------------------------------------------------------------
LEMMA InitIInv == Init => IInv
<1> SUFFICES ASSUME Init PROVE IInv
  OBVIOUS
<1>1. ChannelInit /\ SessionInit /\ EngineInit /\ ReceiverInit
  BY DEF Init, SenderInit
<1>2. EngineTypeOK
  <2>1. seq_num \in Nat /\ tries \in 0..MaxRetries
    BY <1>1, SenderAssumption DEF EngineInit
  <2>2. waiting = FALSE
    BY <1>1 DEF EngineInit
  <2> QED
    BY <2>1, <2>2 DEF EngineTypeOK
<1>3. FlightInv
  BY <1>1, FreshStart DEF FlightInv
<1>4. TearInv
  BY <1>1, FreshStart DEF TearInv
<1>5. LockInv
  BY <1>1, SessionAssumption, SenderAssumption DEF LockInv, EngineInit, ServingMe, ReceiverInit
<1> QED
  BY <1>1, <1>2, <1>3, <1>4, <1>5, SharedStarts DEF IInv

LEMMA NextIInv == IInv /\ [Next]_vars => IInv'
<1> SUFFICES ASSUME IInv, [Next]_vars PROVE IInv'
  OBVIOUS
<1> USE DEF IInv
<1>1. CASE SenderMoves
  <2>1. UNCHANGED rcvVars /\ SenderStep
    BY <1>1 DEF SenderMoves
  <2>2. SenderKeepsBounds /\ EngineTypeOK'
    BY <2>1, SenderStepKeepsBounds DEF SharedInv
  <2> QED
    BY <2>1, <2>2, SharedSenderStep, SenderStepKeepsFlight, SenderStepKeepsLock,
       SenderStepKeepsTear
<1>2. CASE ReceiverMoves \/ GivesUp
  <2>1. (ReceiverStep \/ InactivityTimeout) /\ UNCHANGED senderVars
    BY <1>2 DEF ReceiverMoves, GivesUp, ReceiverGivesUp
  <2>2. SharedInv'
    BY <2>1, SharedReceiverStep DEF senderVars
  <2>3. FlightInv' /\ TearInv'
    BY <2>1, ReceiverAddsNoRequest, OthersKeepFlight, OthersKeepTear
  <2> QED
    BY <2>1, <2>2, <2>3, EngineStutter, ReceiverStepKeepsLock
<1>3. CASE NetworkMoves
  <2>1. Impair /\ UNCHANGED senderVars /\ UNCHANGED rcvVars
    BY <1>3 DEF NetworkMoves
  <2>2. SharedInv'
    BY <2>1, SharedImpairStep DEF senderVars
  <2> QED
    BY <2>1, <2>2, ImpairAddsOnlyGarbage, OthersKeepFlight, OthersKeepTear,
       EngineStutter, LockStutter
<1>4. CASE UNCHANGED vars
  <2>1. UNCHANGED channelVars /\ UNCHANGED senderVars /\ UNCHANGED rcvVars
    BY <1>4 DEF vars
  <2>2. SharedInv' /\ UNCHANGED toReceiver
    BY <2>1, SharedStutter DEF senderVars, channelVars
  <2> QED
    BY <2>1, <2>2, OthersKeepFlight, OthersKeepTear, EngineStutter, LockStutter
<1> QED
  BY <1>1, <1>2, <1>3, <1>4 DEF Next

LEMMA SpecIInv == Spec => []IInv
BY InitIInv, NextIInv, PTL DEF Spec

(* Type correctness of both parties and of all datagrams in flight; in      *)
(* particular no chunk is sent more than MaxRetries times.                  *)
THEOREM TransferTypeCorrect == Spec => []TypeOK
<1>1. IInv => TypeOK
  BY DEF IInv, SharedInv, ReceiverInv, TypeOK
<1> QED
  BY <1>1, SpecIInv, PTL

(* send_file returns success only for a file that the receiver holds, equal *)
(* to the source as it was hashed, also when the file grew and chunks were  *)
(* sent that START did not announce (a receiver started with --once).       *)
THEOREM SuccessIsDelivery == Once /\ Spec => []SuccessMeansDelivered
<1>1. Once /\ IInv => SuccessMeansDelivered
  BY SuccessInvMeansDelivered DEF IInv, SharedInv
<1>2. CASE Once
  <2>1. IInv => SuccessMeansDelivered
    BY <1>1, <1>2
  <2> QED
    BY <2>1, SpecIInv, PTL
<1>3. CASE ~Once
  BY <1>3
<1> QED
  BY <1>2, <1>3

(* Sender and receiver are never more than one chunk apart, in any network, *)
(* if no older datagram bears this sender's session_id.                     *)
THEOREM SendersAreInStep == Once /\ FreshSession /\ Spec => []LockStep
<1>1. Once /\ FreshSession /\ IInv => LockStep
  BY NumChunksType, SenderAssumption
     DEF IInv, LockInv, LockStep, SharedInv, ServiceInv, ProgressInv, ServingMe,
         ReceiverInv, ReceiverTypeOK
<1>2. CASE Once /\ FreshSession
  <2>1. IInv => LockStep
    BY <1>1, <1>2
  <2> QED
    BY <2>1, SpecIInv, PTL
<1>3. CASE ~(Once /\ FreshSession)
  BY <1>3
<1> QED
  BY <1>2, <1>3

(* What stop-and-wait has in flight is the chunk its receiver waits for, or *)
(* an older one: the out-of-window branch (protocol.py:1165) is never taken *)
(* for a chunk of the sender that is served.                                *)
THEOREM WindowIsShared == Once /\ FreshSession /\ Spec => []NeverOutOfWindow
<1>1. ASSUME Once, FreshSession, IInv PROVE NeverOutOfWindow
  <2> SUFFICES ASSUME rcv_phase = "data", session = Me,
                      NEW p \in toReceiver, p.type = "DATA", p.session = Me
               PROVE  p.seq_num < expected_seq + WindowSize[Me]
    BY DEF NeverOutOfWindow
  <2>1. /\ expected_seq \in Nat /\ seq_num \in Nat /\ toReceiver \subseteq Requests
        /\ expected_seq < NumChunks(Me) /\ NumChunks(Me) \in Nat
    BY <1>1, NumChunksType, SenderAssumption
       DEF IInv, EngineTypeOK, SharedInv, ChannelTypeOK, ReceiverInv, ReceiverTypeOK,
           ServiceInv, ProgressInv
  <2>2. p.seq_num \in Nat
    BY <2>1, RequestTypes DEF Garbage
  <2>3. p.seq_num < seq_num + 1
    BY <1>1 DEF IInv, FlightInv, MyDataBelow
  <2>4. seq_num <= expected_seq \/ NumChunks(Me) <= expected_seq
    BY <1>1 DEF IInv, LockInv, ServingMe, Writing
  <2>5. WindowSize[Me] = 1
    BY StopAndWaitAssumption
  <2> QED
    BY <2>1, <2>2, <2>3, <2>4, <2>5
<1>2. CASE Once /\ FreshSession
  <2>1. IInv => NeverOutOfWindow
    BY <1>1, <1>2
  <2> QED
    BY <2>1, SpecIInv, PTL
<1>3. CASE ~(Once /\ FreshSession)
  BY <1>3
<1> QED
  BY <1>2, <1>3

(* The file is read at least as long as it was announced.                   *)
FileKeepsItsLength == NumChunks(Me) <= Readable(Me)

(* FIN never finds the receiver short of data, unless the file shrank after *)
(* it was announced: this engine ends its stream where the file ends, and   *)
(* the receiver, which waits for the announced chunks, ignores the FIN.     *)
THEOREM FinComesLast ==
  Once /\ FreshSession /\ FileKeepsItsLength /\ Spec => []FinFindsDataComplete
<1> DEFINE Given == Once /\ FreshSession /\ FileKeepsItsLength
<1>1. ASSUME Given, IInv PROVE FinFindsDataComplete
  <2> SUFFICES ASSUME FinPkt(Me) \in toReceiver, ServingMe, rcv_phase = "data"
               PROVE  FALSE
    BY DEF FinFindsDataComplete
  <2>1. /\ expected_seq \in Nat /\ seq_num \in Nat /\ Readable(Me) \in Nat
        /\ expected_seq < NumChunks(Me) /\ NumChunks(Me) \in Nat
    BY <1>1, NumChunksType, SenderAssumption
       DEF IInv, EngineTypeOK, SharedInv, ReceiverInv, ReceiverTypeOK, ServiceInv,
           ProgressInv, ServingMe
  <2>2. Readable(Me) <= seq_num
    BY <1>1 DEF IInv, TearInv, Tearing
  <2>3. seq_num <= expected_seq \/ NumChunks(Me) <= expected_seq
    BY <1>1 DEF IInv, LockInv
  <2> QED
    BY <1>1, <2>1, <2>2, <2>3 DEF FileKeepsItsLength
<1>2. CASE Given
  <2>1. IInv => FinFindsDataComplete
    BY <1>1, <1>2
  <2> QED
    BY <2>1, SpecIInv, PTL
<1>3. CASE ~Given
  BY <1>3
<1> QED
  BY <1>2, <1>3

-----------------------------------------------------------------------------
LEMMA StepKeepsPromise == Once /\ IInv /\ [Next]_vars => [Promise!Next]_(Promise!vars)
<1> SUFFICES ASSUME Once, IInv, [Next]_vars PROVE [Promise!Next]_(Promise!vars)
  OBVIOUS
<1> USE DEF IInv
<1>1. CASE SenderMoves
  <2>1. UNCHANGED rcvVars /\ SenderStep
    BY <1>1 DEF SenderMoves
  <2> QED
    BY <2>1, SenderStepKeepsBounds, SenderKeepsPromise DEF SharedInv
<1>2. CASE ReceiverMoves \/ GivesUp
  <2>1. (ReceiverStep \/ InactivityTimeout) /\ UNCHANGED snd_phase
    BY <1>2 DEF ReceiverMoves, GivesUp, ReceiverGivesUp, senderVars, sessionVars
  <2> QED
    BY <2>1, ReceiverKeepsPromise
<1>3. CASE NetworkMoves \/ UNCHANGED vars
  <2>1. UNCHANGED snd_phase /\ UNCHANGED rcvVars
    BY <1>3 DEF NetworkMoves, vars, senderVars, sessionVars
  <2> QED
    BY <2>1, PromiseStutter
<1> QED
  BY <1>1, <1>2, <1>3 DEF Next

(* The engine and the receiver implement ReliableTransfer: the copy only    *)
(* grows, chunk by chunk of the file that is read, is discarded or kept,    *)
(* and success is reported of a kept copy only.                             *)
THEOREM TransferKeepsPromise == Once /\ Spec => ImplementsPromise
<1>1. CASE Once
  <2>1. Init => Promise!Init
    BY InitIInv, PromiseStarts DEF Init, SenderInit
  <2>2. IInv /\ [Next]_vars => [Promise!Next]_(Promise!vars)
    BY <1>1, StepKeepsPromise
  <2>3. Spec => Promise!Init /\ [][Promise!Next]_(Promise!vars)
    BY <2>1, <2>2, SpecIInv, PTL DEF Spec
  <2> QED
    BY <2>3 DEF ImplementsPromise, Promise!Spec
<1>2. CASE ~Once
  BY <1>2
<1> QED
  BY <1>1, <1>2

-----------------------------------------------------------------------------
(* Without --once too, send_file never returns success unless the file has  *)
(* lain whole on disk in its own session: in a run in which that never      *)
(* happens there is no success.  (Spec being a safety property, this says   *)
(* that delivery comes first.)  Later sessions may have replaced the file.  *)
THEOREM NoSuccessWithoutDelivery ==
  Spec => ([]~DeliveredNow => [](snd_phase # "success"))
<1>1. Init => Untold
  BY UntoldAtFirst DEF Init, SenderInit
<1>2. IInv /\ Untold /\ ~DeliveredNow /\ [Next]_vars => Untold'
  <2> SUFFICES ASSUME IInv, Untold, ~DeliveredNow, [Next]_vars PROVE Untold'
    OBVIOUS
  <2> USE DEF IInv, SharedInv
  <2>1. CASE SenderMoves
    BY <2>1, SenderStepKeepsBounds, SenderStaysUntold DEF SenderMoves
  <2>2. CASE ReceiverMoves \/ GivesUp
    <3>1. (ReceiverStep \/ InactivityTimeout) /\ UNCHANGED snd_phase
      BY <2>2 DEF ReceiverMoves, GivesUp, ReceiverGivesUp, senderVars, sessionVars
    <3> QED
      BY <3>1, ReceiverTellsTheDelivered
  <2>3. CASE NetworkMoves
    BY <2>3, NetworkTellsNothing DEF NetworkMoves, senderVars, sessionVars
  <2>4. CASE UNCHANGED vars
    BY <2>4 DEF vars, channelVars, senderVars, sessionVars, Untold
  <2> QED
    BY <2>1, <2>2, <2>3, <2>4 DEF Next
<1>3. Untold => snd_phase # "success"
  BY DEF Untold
<1> QED
  BY <1>1, <1>2, <1>3, SpecIInv, PTL DEF Spec
=============================================================================
