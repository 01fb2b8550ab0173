--------------------------- MODULE ReceiverProofs ---------------------------
(***************************************************************************)
(* The receiver keeps its file and its buffer right, for every file,       *)
(* window, buffer limit and set of sessions.  The lemmas are about a step  *)
(* of Receiver.tla from any state in which the datagrams in flight are     *)
(* requests; the specifications that contain a receiver cite them.         *)
(***************************************************************************)
EXTENDS Receiver, FiniteSetTheorems, TLAPS

(* The invariant of the receiver's own variables.  The buffer is empty when *)
(* a session begins, and the states behind a verified FIN know the file to  *)
(* be the source.                                                           *)
ReceiverInv ==
  /\ ReceiverTypeOK
  /\ OutputIsPrefix
  /\ BufferIsAhead
  /\ FileIsWholeOrGone
  /\ rcv_phase = "listen" => Buffered = {}
  /\ rcv_phase \in {"drain", "fin_nb"} =>
       outcome = "verified" /\ output = Source(session)

LEMMA ReadChunkType ==
  ASSUME NEW s \in Sessions, NEW n \in Nat
  PROVE  ReadChunk(s, n) \in Payloads
<1>1. PayloadSize \in Nat /\ PayloadSize > 0 /\ ReadSize[s] \in Nat
  BY SizeAssumption
<1>2. (n + 1) * PayloadSize = n * PayloadSize + PayloadSize
  BY <1>1
<1>3. n * PayloadSize \in Nat
  BY <1>1
<1>4. ChunkLength(ReadSize[s], n) \in Nat
  BY <1>1, <1>2, <1>3 DEF ChunkLength, Offset
<1> QED
  BY <1>4 DEF ReadChunk, Payloads

(* Chunks k..k+m-1 after the first k chunks are the first k+m chunks.       *)
LEMMA ChunksConcat ==
  ASSUME NEW s \in Sessions, NEW k \in Nat, NEW m \in Nat
  PROVE  FirstChunks(s, k) \o [i \in 1..m |-> ReadChunk(s, k + i - 1)]
           = FirstChunks(s, k + m)
<1> DEFINE front == [i \in 1..k |-> ReadChunk(s, i - 1)]
           back  == [i \in 1..m |-> ReadChunk(s, k + i - 1)]
           whole == [i \in 1..(k + m) |-> ReadChunk(s, i - 1)]
<1>1. front \in Seq(Payloads) /\ Len(front) = k
  BY ReadChunkType
<1>2. back \in Seq(Payloads) /\ Len(back) = m
  BY ReadChunkType
<1>3. whole \in Seq(Payloads) /\ Len(whole) = k + m
  BY ReadChunkType
<1>4. /\ \A i \in 1..k : front[i] = ReadChunk(s, i - 1)
      /\ \A i \in 1..m : back[i] = ReadChunk(s, k + i - 1)
      /\ \A i \in 1..(k + m) : whole[i] = ReadChunk(s, i - 1)
  OBVIOUS
<1> HIDE DEF front, back, whole
<1>5. front \o back \in Seq(Payloads) /\ Len(front \o back) = k + m
  BY <1>1, <1>2
<1>6. ASSUME NEW i \in 1..(k + m)
      PROVE  (front \o back)[i] = whole[i]
  <2>1. CASE i <= k
    BY <2>1, <1>1, <1>2, <1>4
  <2>2. CASE i > k
    <3>1. i - k \in 1..m /\ k + (i - k) - 1 = i - 1
      BY <2>2
    <3>2. (front \o back)[i] = back[i - k]
      BY <2>2, <1>1, <1>2
    <3> QED
      BY <3>1, <3>2, <1>4
  <2>3. i <= k \/ i > k
    OBVIOUS
  <2> QED
    BY <2>1, <2>2, <2>3
<1>7. front \o back = whole
  BY <1>3, <1>5, <1>6
<1> QED
  BY <1>7 DEF front, back, whole, FirstChunks

LEMMA FirstChunksAreSeq ==
  ASSUME NEW s \in Sessions, NEW k \in Nat
  PROVE  FirstChunks(s, k) \in Seq(Payloads) /\ Len(FirstChunks(s, k)) = k
BY ReadChunkType DEF FirstChunks

LEMMA PrefixOfFirstChunks ==
  ASSUME NEW s \in Sessions, NEW m \in Nat, NEW k \in 0..m
  PROVE  SubSeq(FirstChunks(s, m), 1, k) = FirstChunks(s, k)
<1>1. /\ FirstChunks(s, m) \in Seq(Payloads) /\ Len(FirstChunks(s, m)) = m
      /\ FirstChunks(s, k) \in Seq(Payloads) /\ Len(FirstChunks(s, k)) = k
  BY FirstChunksAreSeq
<1>2. /\ \A i \in 1..m : FirstChunks(s, m)[i] = ReadChunk(s, i - 1)
      /\ \A i \in 1..k : FirstChunks(s, k)[i] = ReadChunk(s, i - 1)
  BY DEF FirstChunks
<1>3. /\ SubSeq(FirstChunks(s, m), 1, k) \in Seq(Payloads)
      /\ Len(SubSeq(FirstChunks(s, m), 1, k)) = k
  BY <1>1
<1>4. \A i \in 1..k : SubSeq(FirstChunks(s, m), 1, k)[i] = FirstChunks(s, k)[i]
  BY <1>1, <1>2
<1> QED
  BY <1>1, <1>3, <1>4

LEMMA RequestTypes ==
  ASSUME NEW p \in Requests, p # Garbage
  PROVE  /\ p.session \in Sessions
         /\ p.type \in {"START", "DATA", "FIN"}
         /\ p.type = "DATA" => /\ p.seq_num \in Nat
                               /\ p.payload = ReadChunk(p.session, p.seq_num)
<1>1. CASE \E s \in Sessions : p = StartPkt(s) \/ p = FinPkt(s)
  BY <1>1 DEF StartPkt, FinPkt
<1>2. CASE \E s \in Sessions : \E n \in Sendable(s) : p = DataPkt(s, n)
  <2>1. PICK s \in Sessions : \E n \in Sendable(s) : p = DataPkt(s, n)
    BY <1>2
  <2>2. PICK n \in Sendable(s) : p = DataPkt(s, n)
    BY <2>1
  <2>3. n \in Nat
    BY DEF Sendable
  <2> QED
    BY <2>2, <2>3 DEF DataPkt
<1> QED
  BY <1>1, <1>2 DEF Requests

-----------------------------------------------------------------------------
(* A step that leaves the receiver's variables alone keeps the invariant.   *)
LEMMA ReceiverStartsRight == ReceiverInit => ReceiverInv
<1> SUFFICES ASSUME ReceiverInit PROVE ReceiverInv
  OBVIOUS
<1>1. Buffered = {} /\ output \in Seq(Payloads)
  BY DEF ReceiverInit, Buffered
<1>2. ReceiverTypeOK
  BY <1>1 DEF ReceiverInit, ReceiverTypeOK, Phases, Outcomes
<1> QED
  BY <1>1, <1>2 DEF ReceiverInit, ReceiverInv, OutputIsPrefix, BufferIsAhead,
                    FileIsWholeOrGone, Writing

LEMMA ReceiverStutter ==
  ReceiverInv /\ UNCHANGED rcvVars => ReceiverInv'
BY DEF ReceiverInv, rcvVars, ReceiverTypeOK, OutputIsPrefix, BufferIsAhead,
       FileIsWholeOrGone, Writing, Buffered

LEMMA AcceptStartStep ==
  ASSUME NEW p \in Requests, ReceiverInv, AcceptStart(p)
  PROVE  ReceiverInv'
<1>1. p # Garbage /\ p.session \in Sessions
  BY RequestTypes DEF AcceptStart, Garbage
<1>2. rcv_phase' \in {"data", "fin"}
  BY DEF AcceptStart, PhaseAfter
<1>3. Buffered = {} /\ Buffered' = {}
  BY DEF AcceptStart, ReceiverInv, Buffered
<1>4. ReceiverTypeOK'
  BY <1>1, <1>2, <1>3, SessionAssumption
     DEF AcceptStart, ReceiverInv, ReceiverTypeOK, Phases, Outcomes, Buffered
<1>5. OutputIsPrefix'
  <2>1. FirstChunks(session', 0) = <<>>
    BY DEF FirstChunks
  <2> QED
    BY <2>1 DEF OutputIsPrefix, AcceptStart
<1>6. BufferIsAhead'
  BY <1>3 DEF BufferIsAhead
<1> QED
  BY <1>2, <1>4, <1>5, <1>6 DEF ReceiverInv, FileIsWholeOrGone

LEMMA BufferOutOfOrderStep ==
  ASSUME NEW p \in Requests, ReceiverInv, BufferOutOfOrder(p)
  PROVE  ReceiverInv'
<1> DEFINE n == p.seq_num
<1>1. /\ p.type = "DATA" /\ p.session = session /\ rcv_phase = "data"
      /\ n > expected_seq /\ n < expected_seq + WindowSize[session]
  BY DEF BufferOutOfOrder, IsNewOutOfOrder, IsData, InWindow
<1>2. /\ session \in Sessions /\ n \in Nat
      /\ p.payload = ReadChunk(session, n)
  BY <1>1, RequestTypes DEF Garbage
<1>3. p.payload \in Payloads /\ p.payload.len \in Nat
  BY <1>2, ReadChunkType DEF Payloads
<1>4. Buffered' = Buffered \cup {n}
  BY DEF BufferOutOfOrder, Buffered
<1>5. \A m \in Buffered' :
        out_of_order_buffer'[m] = IF m = n THEN p.payload ELSE out_of_order_buffer[m]
  BY <1>4 DEF BufferOutOfOrder
<1>6. UNCHANGED <<rcv_phase, session, expected_seq, output, output_exists, outcome>>
  BY DEF BufferOutOfOrder
<1>7. ReceiverTypeOK'
  <2>1. current_buffer_bytes' \in Nat
    BY <1>3 DEF BufferOutOfOrder, ReceiverInv, ReceiverTypeOK
  <2> QED
    BY <1>2, <1>3, <1>4, <1>5, <1>6, <2>1 DEF ReceiverInv, ReceiverTypeOK
<1>8. BufferIsAhead'
  BY <1>1, <1>2, <1>4, <1>5, <1>6 DEF ReceiverInv, BufferIsAhead, Writing
<1>9. OutputIsPrefix'
  BY <1>6 DEF ReceiverInv, OutputIsPrefix, Writing
<1> QED
  BY <1>1, <1>6, <1>7, <1>8, <1>9 DEF ReceiverInv, FileIsWholeOrGone

(* The write and the drain: what is appended is exactly the next chunks.    *)
LEMMA AcceptInOrderStep ==
  ASSUME NEW p \in Requests, ReceiverInv, AcceptInOrder(p)
  PROVE  ReceiverInv'
<1>1. PICK next \in (expected_seq + 1)..(expected_seq + 1 + Cardinality(Buffered)) :
        /\ DrainsUpTo(next)
        /\ output' = output \o <<p.payload>>
                        \o [i \in 1..(next - 1 - expected_seq) |->
                              out_of_order_buffer[expected_seq + i]]
        /\ out_of_order_buffer' =
             [n \in Buffered \ ((expected_seq + 1)..(next - 1)) |-> out_of_order_buffer[n]]
        /\ current_buffer_bytes' =
             MaxZero(current_buffer_bytes - BytesOf(expected_seq + 1, next - 1))
        /\ expected_seq' = next
        /\ rcv_phase' = PhaseAfter(session, next)
  BY DEF AcceptInOrder
<1>2. UNCHANGED <<session, output_exists, outcome>>
  BY DEF AcceptInOrder
<1>3. /\ p.type = "DATA" /\ p.session = session /\ rcv_phase = "data"
      /\ p.seq_num = expected_seq
  BY DEF AcceptInOrder, IsData
<1>4. /\ session \in Sessions /\ expected_seq \in Nat
      /\ next \in Nat /\ expected_seq + 1 <= next
      /\ p.payload = ReadChunk(session, expected_seq)
  BY <1>3, RequestTypes DEF Garbage, ReceiverInv, ReceiverTypeOK
<1>5. /\ output_exists /\ output = FirstChunks(session, expected_seq)
      /\ \A n \in Buffered : /\ expected_seq < n
                             /\ n < expected_seq + WindowSize[session]
                             /\ out_of_order_buffer[n] = ReadChunk(session, n)
  BY <1>3 DEF ReceiverInv, OutputIsPrefix, BufferIsAhead, Writing
<1>6. output' = FirstChunks(session, next)
  <2> DEFINE run == [i \in 1..(next - 1 - expected_seq) |->
                       out_of_order_buffer[expected_seq + i]]
             k   == expected_seq + 1
  <2>1. output \o <<p.payload>> = FirstChunks(session, k)
    <3>1. <<p.payload>> = [i \in 1..1 |-> ReadChunk(session, expected_seq + i - 1)]
      BY <1>4
    <3>2. FirstChunks(session, expected_seq)
            \o [i \in 1..1 |-> ReadChunk(session, expected_seq + i - 1)]
          = FirstChunks(session, expected_seq + 1)
      BY <1>4, ChunksConcat
    <3> QED
      BY <1>5, <3>1, <3>2
  <2>2. run = [i \in 1..(next - k) |-> ReadChunk(session, k + i - 1)]
    <3>1. next - 1 - expected_seq = next - k
      BY <1>4
    <3>2. ASSUME NEW i \in 1..(next - k)
          PROVE  out_of_order_buffer[expected_seq + i] = ReadChunk(session, k + i - 1)
      <4>1. expected_seq + i \in (expected_seq + 1)..(next - 1) /\ k + i - 1 = expected_seq + i
        BY <1>4
      <4> QED
        BY <1>1, <1>5, <4>1 DEF DrainsUpTo
    <3> HIDE DEF k
    <3> QED
      BY <3>1, <3>2
  <2>3. next - k \in Nat /\ k \in Nat /\ k + (next - k) = next
    BY <1>4
  <2> HIDE DEF run, k
  <2>4. FirstChunks(session, k) \o run = FirstChunks(session, next)
    BY <1>4, <2>2, <2>3, ChunksConcat
  <2> QED
    BY <1>1, <2>1, <2>4 DEF run
<1>7. /\ Buffered' = Buffered \ ((expected_seq + 1)..(next - 1))
      /\ \A n \in Buffered' : out_of_order_buffer'[n] = out_of_order_buffer[n]
  BY <1>1 DEF Buffered
<1>8. rcv_phase' \in {"data", "fin"}
  BY <1>1 DEF PhaseAfter
<1>9. ReceiverTypeOK'
  <2>1. output' \in Seq(Payloads)
    <3>1. \A i \in 1..next : ReadChunk(session, i - 1) \in Payloads
      BY <1>4, ReadChunkType
    <3> QED
      BY <1>4, <1>6, <3>1 DEF FirstChunks
  <2>2. current_buffer_bytes' \in Nat
    <3>1. BytesOf(expected_seq + 1, next - 1) \in Int
      <4>1. PayloadSize \in Nat /\ ReadSize[session] \in Nat
        BY <1>4, SizeAssumption
      <4>2. \A k \in Nat : k * PayloadSize \in Nat
        BY <4>1
      <4>3. \A k \in Nat : Offset(ReadSize[session], k) \in Int
        BY <4>1, <4>2 DEF Offset
      <4> QED
        BY <1>4, <4>3 DEF BytesOf
    <3> QED
      BY <1>1, <3>1 DEF MaxZero, ReceiverInv, ReceiverTypeOK
  <2> QED
    BY <1>1, <1>2, <1>4, <1>7, <1>8, <2>1, <2>2, SessionAssumption
       DEF ReceiverInv, ReceiverTypeOK, Phases
<1>10. OutputIsPrefix'
  BY <1>1, <1>2, <1>5, <1>6 DEF OutputIsPrefix
<1>11. BufferIsAhead'
  <2> SUFFICES ASSUME NEW n \in Buffered'
               PROVE  /\ next < n /\ n < next + WindowSize[session]
                      /\ out_of_order_buffer'[n] = ReadChunk(session, n)
    BY <1>1, <1>2 DEF BufferIsAhead
  <2>1. n \in Nat /\ WindowSize[session] \in Nat
    BY <1>4, <1>7, SizeAssumption DEF ReceiverInv, ReceiverTypeOK
  <2>2. n \in Buffered /\ n # next /\ n \notin (expected_seq + 1)..(next - 1)
    BY <1>1, <1>7 DEF DrainsUpTo
  <2> QED
    BY <1>4, <1>5, <1>7, <2>1, <2>2
<1> QED
  BY <1>8, <1>9, <1>10, <1>11 DEF ReceiverInv, FileIsWholeOrGone

(* Both ways of giving a file up: the mismatch and the silence.             *)
LEMMA UnlinkStep ==
  ASSUME ReceiverInv, Unlink, session # NoSession,
         rcv_phase' = "closed", outcome' \in {"rejected", "timed_out"},
         UNCHANGED <<session, expected_seq, out_of_order_buffer, current_buffer_bytes>>
  PROVE  ReceiverInv'
<1>1. /\ output' = <<>> /\ output_exists' = FALSE
      /\ Buffered' = Buffered
  BY DEF Unlink, Buffered
<1>2. output' \in Seq(Payloads)
  BY <1>1
<1>3. \A n \in Buffered' : out_of_order_buffer'[n] \in Payloads
  BY <1>1 DEF ReceiverInv, ReceiverTypeOK
<1>4. ReceiverTypeOK'
  BY <1>1, <1>2, <1>3 DEF ReceiverInv, ReceiverTypeOK, Phases, Outcomes
<1> QED
  BY <1>1, <1>4 DEF ReceiverInv, OutputIsPrefix, BufferIsAhead, FileIsWholeOrGone, Writing

LEMMA VerifyFinStep ==
  ASSUME NEW p \in Requests, ReceiverInv, VerifyFin(p)
  PROVE  ReceiverInv'
<1>1. UNCHANGED <<session, expected_seq, out_of_order_buffer, current_buffer_bytes>>
  BY DEF VerifyFin
<1>2. Writing /\ session \in Sessions
  BY RequestTypes DEF VerifyFin, InFinLoop, Writing, Garbage
<1>3. CASE output = Source(session)
  <2>1. /\ rcv_phase' = "drain" /\ outcome' = "verified"
        /\ UNCHANGED <<output, output_exists>>
    BY <1>3 DEF VerifyFin
  <2> QED
    BY <1>1, <1>2, <1>3, <2>1
       DEF ReceiverInv, ReceiverTypeOK, OutputIsPrefix, BufferIsAhead,
           FileIsWholeOrGone, Writing, Buffered, Phases, Outcomes
<1>4. CASE output # Source(session)
  <2>1. rcv_phase' = "closed" /\ outcome' = "rejected" /\ Unlink
    BY <1>4 DEF VerifyFin
  <2> QED
    BY <1>1, <1>2, <2>1, SessionAssumption, UnlinkStep
<1> QED
  BY <1>3, <1>4

(* receive_file ends, or the service loop calls it again.                   *)
LEMMA EndStep ==
  ASSUME ReceiverInv,
         DrainEmpty \/ RaiseBlockingIOError \/ InactivityTimeout \/ Rebind
  PROVE  ReceiverInv'
<1>1. CASE DrainEmpty
  BY <1>1 DEF DrainEmpty, ReceiverInv, ReceiverTypeOK, OutputIsPrefix, BufferIsAhead,
              FileIsWholeOrGone, Writing, Buffered, Phases, Outcomes
<1>2. CASE RaiseBlockingIOError
  BY <1>2 DEF RaiseBlockingIOError, ReceiverInv, ReceiverTypeOK, OutputIsPrefix,
              BufferIsAhead, FileIsWholeOrGone, Writing, Buffered, Phases, Outcomes
<1>3. CASE InactivityTimeout
  <2>1. /\ rcv_phase' = "closed" /\ outcome' = "timed_out"
        /\ UNCHANGED <<session, expected_seq, out_of_order_buffer, current_buffer_bytes>>
        /\ Unlink /\ session # NoSession
    BY <1>3 DEF InactivityTimeout, ReceiverInv, ReceiverTypeOK
  <2> QED
    BY <2>1, UnlinkStep
<1>4. CASE Rebind
  BY <1>4 DEF Rebind, ReceiverInv, ReceiverTypeOK, OutputIsPrefix,
              BufferIsAhead, FileIsWholeOrGone, Writing, Buffered, Phases, Outcomes
<1> QED
  BY <1>1, <1>2, <1>3, <1>4

LEMMA DrainCorruptStep ==
  ASSUME NEW p \in Requests, ReceiverInv, DrainCorrupt(p)
  PROVE  ReceiverInv'
BY DEF DrainCorrupt, ReceiverInv, ReceiverTypeOK, OutputIsPrefix, BufferIsAhead,
       FileIsWholeOrGone, Writing, Buffered, Phases

LEMMA ReceiverStepKeepsInv ==
  ASSUME toReceiver \subseteq Requests, ReceiverInv,
         ReceiverStep \/ InactivityTimeout
  PROVE  ReceiverInv'
<1>1. ASSUME NEW p \in toReceiver, Receive(p)
      PROVE  ReceiverInv'
  <2>1. p \in Requests
    OBVIOUS
  <2>2. CASE \/ IgnoreBeforeStart(p) \/ ReAckDuplicate(p) \/ DropOnOverflow(p)
             \/ ReAckStart(p) \/ IgnoreInData(p) \/ AckLateData(p) \/ IgnoreInFin(p)
             \/ DrainFin(p) \/ DrainIgnore(p) \/ DropAtClosedPort(p)
    <3>1. UNCHANGED rcvVars
      BY <2>2 DEF IgnoreBeforeStart, ReAckDuplicate, DropOnOverflow, ReAckStart,
                  IgnoreInData, AckLateData, IgnoreInFin, DrainFin, DrainIgnore,
                  DropAtClosedPort
    <3> QED
      BY <3>1, ReceiverStutter
  <2>3. CASE AcceptStart(p)
    BY <2>1, <2>3, AcceptStartStep
  <2>4. CASE AcceptInOrder(p)
    BY <2>1, <2>4, AcceptInOrderStep
  <2>5. CASE BufferOutOfOrder(p)
    BY <2>1, <2>5, BufferOutOfOrderStep
  <2>6. CASE VerifyFin(p)
    BY <2>1, <2>6, VerifyFinStep
  <2>7. CASE DrainCorrupt(p)
    BY <2>1, <2>7, DrainCorruptStep
  <2> QED
    BY <1>1, <2>2, <2>3, <2>4, <2>5, <2>6, <2>7 DEF Receive
<1> QED
  BY <1>1, EndStep DEF ReceiverStep

-----------------------------------------------------------------------------
(* Every datagram the receiver sends is a reply, to a session's address.    *)
LEMMA ReplyTypes ==
  ASSUME ChannelTypeOK, NEW p \in toReceiver, p # Garbage,
         NEW answers \in SUBSET Replies, Reply(p, answers)
  PROVE  ChannelTypeOK'
<1>1. p.session \in Sessions
  BY RequestTypes DEF ChannelTypeOK
<1>2. toReceiver' \subseteq Requests
  BY DEF Reply, Delivered, ChannelTypeOK
<1>3. toSender' \in [Sessions -> SUBSET Replies]
  BY <1>1 DEF Reply, ChannelTypeOK
<1> QED
  BY <1>2, <1>3 DEF ChannelTypeOK, Reply

LEMMA ReadTypes ==
  ASSUME ChannelTypeOK, NEW p, ReceiverReads(p)
  PROVE  ChannelTypeOK'
BY DEF ChannelTypeOK, ReceiverReads, Delivered

LEMMA AnswerTypes ==
  /\ \A s \in Sessions : StartAckPkt(s) \in Replies
  /\ \A s \in Sessions, n \in Nat : AckPkt(s, n) \in Replies
  /\ \A s \in Sessions, b \in BOOLEAN : FinAckPkt(s, b) \in Replies
BY DEF StartAckPkt, AckPkt, FinAckPkt, Replies

LEMMA ReceiverKeepsChannelType ==
  ASSUME ChannelTypeOK, ReceiverTypeOK, ReceiverStep \/ InactivityTimeout
  PROVE  ChannelTypeOK'
<1>1. ASSUME UNCHANGED channelVars
      PROVE  ChannelTypeOK'
  BY <1>1 DEF ChannelTypeOK, channelVars
<1>2. ASSUME NEW p \in toReceiver, Receive(p)
      PROVE  ChannelTypeOK'
  <2>1. p \in Requests
    BY DEF ChannelTypeOK
  <2>2. CASE ReceiverReads(p)
    BY <2>2, ReadTypes
  <2>3. CASE AcceptStart(p)
    <3>1. p # Garbage /\ Reply(p, {StartAckPkt(p.session)})
      BY <2>3 DEF AcceptStart, Garbage
    <3> QED
      BY <2>1, <3>1, AnswerTypes, ReplyTypes, RequestTypes
  <2>4. CASE ReAckStart(p)
    <3>1. p # Garbage /\ Reply(p, {StartAckPkt(p.session)})
      BY <2>4 DEF ReAckStart, Garbage
    <3> QED
      BY <2>1, <3>1, AnswerTypes, ReplyTypes, RequestTypes
  <2>5. CASE VerifyFin(p)
    <3> DEFINE verified == output = Source(session)
    <3>1. p # Garbage /\ p.session = session /\ Reply(p, {FinAckPkt(session, verified)})
      BY <2>5 DEF VerifyFin, Garbage
    <3>2. verified \in BOOLEAN
      OBVIOUS
    <3> HIDE DEF verified
    <3>3. {FinAckPkt(session, verified)} \in SUBSET Replies
      BY <2>1, <3>1, <3>2, AnswerTypes, RequestTypes
    <3> QED
      BY <3>1, <3>3, ReplyTypes
  <2>6. CASE DrainFin(p)
    <3>1. p # Garbage /\ Reply(p, {FinAckPkt(p.session, TRUE)})
      BY <2>6 DEF DrainFin, Garbage
    <3>2. {FinAckPkt(p.session, TRUE)} \in SUBSET Replies
      BY <2>1, <3>1, AnswerTypes, RequestTypes
    <3> QED
      BY <3>1, <3>2, ReplyTypes
  <2>7. ASSUME p.type = "DATA", rcv_phase # "listen",
               NEW ns \in SUBSET Nat, Reply(p, Acks(ns))
        PROVE  ChannelTypeOK'
    <3>1. p # Garbage
      BY <2>7 DEF Garbage
    <3>2. session \in Sessions
      BY <2>7 DEF ReceiverTypeOK
    <3>3. Acks(ns) \in SUBSET Replies
      BY <3>2, AnswerTypes DEF Acks
    <3> QED
      BY <2>7, <3>1, <3>3, ReplyTypes
  <2>8. CASE AcceptInOrder(p)
    <3>1. PICK next \in (expected_seq + 1)..(expected_seq + 1 + Cardinality(Buffered)) :
            Reply(p, Acks(expected_seq..(next - 1)))
      BY <2>8 DEF AcceptInOrder
    <3>2. expected_seq..(next - 1) \in SUBSET Nat
      BY DEF ReceiverTypeOK
    <3>3. p.type = "DATA" /\ rcv_phase # "listen"
      BY <2>8 DEF AcceptInOrder, IsData
    <3> QED
      BY <2>7, <3>1, <3>2, <3>3
  <2>9. CASE ReAckDuplicate(p) \/ BufferOutOfOrder(p) \/ DropOnOverflow(p) \/ AckLateData(p)
    <3>1. p.type = "DATA" /\ rcv_phase # "listen" /\ Reply(p, Acks({p.seq_num}))
      BY <2>9 DEF ReAckDuplicate, BufferOutOfOrder, DropOnOverflow, AckLateData,
                  IsDuplicate, IsNewOutOfOrder, IsData, InFinLoop
    <3>2. {p.seq_num} \in SUBSET Nat
      BY <2>1, <3>1, RequestTypes DEF Garbage
    <3> QED
      BY <2>7, <3>1, <3>2
  <2>10. CASE \/ IgnoreBeforeStart(p) \/ IgnoreInData(p) \/ IgnoreInFin(p)
              \/ DrainIgnore(p) \/ DrainCorrupt(p) \/ DropAtClosedPort(p)
    BY <2>2, <2>10 DEF IgnoreBeforeStart, IgnoreInData, IgnoreInFin, DrainIgnore,
                       DrainCorrupt, DropAtClosedPort
  <2> QED
    BY <1>2, <2>3, <2>4, <2>5, <2>6, <2>8, <2>9, <2>10 DEF Receive
<1> QED
  BY <1>1, <1>2 DEF ReceiverStep, DrainEmpty, RaiseBlockingIOError, Rebind,
                    InactivityTimeout

-----------------------------------------------------------------------------
(* Under --once a positive FIN_ACK exists only for the session that was     *)
(* served, and only after its file was found to be the source.              *)
ConfirmInv ==
  Once => \A s \in Sessions : FinAckPkt(s, TRUE) \in toSender[s] =>
            /\ s = session
            /\ rcv_phase \in {"drain", "fin_nb", "closed"}
            /\ outcome \in {"verified", "raised"}

LEMMA ConfirmInvMeansOnDisk ==
  Once /\ ReceiverInv /\ ConfirmInv => ConfirmedIsOnDisk
BY DEF ReceiverInv, ConfirmInv, ConfirmedIsOnDisk, OutputIsPrefix, FileIsWholeOrGone, Writing

(* An answer that is no positive FIN_ACK adds none.                         *)
LEMMA OtherAnswers ==
  ASSUME toSender \in [Sessions -> SUBSET Replies],
         NEW p, NEW answers, Reply(p, answers),
         \A r \in answers : \A s \in Sessions : r # FinAckPkt(s, TRUE),
         NEW s \in Sessions, FinAckPkt(s, TRUE) \in toSender'[s]
  PROVE  FinAckPkt(s, TRUE) \in toSender[s]
BY DEF Reply

LEMMA ReceiverStepKeepsConfirmInv ==
  ASSUME ChannelTypeOK, ReceiverInv, ConfirmInv, ReceiverStep \/ InactivityTimeout
  PROVE  ConfirmInv'
<1> SUFFICES ASSUME Once, NEW s \in Sessions, FinAckPkt(s, TRUE) \in toSender'[s]
             PROVE  /\ s = session'
                    /\ rcv_phase' \in {"drain", "fin_nb", "closed"}
                    /\ outcome' \in {"verified", "raised"}
  BY DEF ConfirmInv
<1>1. toSender \in [Sessions -> SUBSET Replies] /\ toReceiver \subseteq Requests
  BY DEF ChannelTypeOK
<1>2. ASSUME FinAckPkt(s, TRUE) \in toSender[s]
      PROVE  /\ s = session
             /\ rcv_phase \in {"drain", "fin_nb", "closed"}
             /\ outcome \in {"verified", "raised"}
  BY <1>2 DEF ConfirmInv
<1>3. CASE UNCHANGED toSender /\ UNCHANGED rcvVars
  BY <1>2, <1>3 DEF rcvVars
<1>4. CASE DrainEmpty \/ RaiseBlockingIOError
  BY <1>2, <1>4 DEF DrainEmpty, RaiseBlockingIOError, channelVars
<1>5. CASE Rebind
  BY <1>5 DEF Rebind
<1>6. CASE InactivityTimeout
  BY <1>2, <1>6 DEF InactivityTimeout, channelVars
<1>7. ASSUME NEW p \in toReceiver, Receive(p)
      PROVE  /\ s = session'
             /\ rcv_phase' \in {"drain", "fin_nb", "closed"}
             /\ outcome' \in {"verified", "raised"}
  <2>1. CASE \/ IgnoreBeforeStart(p) \/ IgnoreInData(p) \/ IgnoreInFin(p)
             \/ DrainIgnore(p) \/ DropAtClosedPort(p)
    BY <1>3, <2>1 DEF IgnoreBeforeStart, IgnoreInData, IgnoreInFin, DrainIgnore,
                      DropAtClosedPort, ReceiverReads
  <2>2. CASE DrainCorrupt(p)
    BY <1>2, <2>2 DEF DrainCorrupt, ReceiverReads
  <2>3. CASE VerifyFin(p)
    <3>1. CASE output = Source(session)
      <4>1. /\ rcv_phase' = "drain" /\ outcome' = "verified" /\ session' = session
            /\ p.session = session /\ p.session \in Sessions
            /\ toSender' = [toSender EXCEPT ![p.session] = @ \cup {FinAckPkt(session, TRUE)}]
        <5>1. Reply(p, {FinAckPkt(session, output = Source(session))}) /\ p # Garbage
          BY <2>3 DEF VerifyFin, Garbage
        <5>2. (output = Source(session)) = TRUE
          BY <3>1
        <5>3. Reply(p, {FinAckPkt(session, TRUE)})
          BY <5>1, <5>2
        <5>4. /\ rcv_phase' = "drain" /\ outcome' = "verified" /\ session' = session
              /\ p.session = session
          BY <2>3, <3>1 DEF VerifyFin
        <5> QED
          BY <1>1, <5>1, <5>3, <5>4, RequestTypes DEF Reply
      <4>2. CASE s = session
        BY <4>1, <4>2
      <4>3. CASE s # session
        BY <1>1, <1>2, <4>1, <4>3
      <4> QED
        BY <4>2, <4>3
    <3>2. CASE output # Source(session)
      <4>1. Reply(p, {FinAckPkt(session, FALSE)}) /\ rcv_phase \in {"fin", "fin_nb"}
        BY <2>3, <3>2 DEF VerifyFin, InFinLoop
      <4>2. FinAckPkt(s, TRUE) \in toSender[s]
        BY <1>1, <4>1, OtherAnswers DEF FinAckPkt
      <4>3. rcv_phase = "fin_nb" /\ output = Source(session)
        BY <1>2, <4>1, <4>2 DEF ReceiverInv
      <4> QED
        BY <3>2, <4>3
    <3> QED
      BY <3>1, <3>2
  <2>4. CASE DrainFin(p)
    <3>1. /\ rcv_phase = "drain" /\ p.session = session /\ UNCHANGED rcvVars
          /\ Reply(p, {FinAckPkt(session, TRUE)}) /\ p.session \in Sessions
      BY <1>1, <2>4, RequestTypes DEF DrainFin, Garbage
    <3>2. outcome = "verified"
      BY <3>1 DEF ReceiverInv
    <3>3. CASE s = session
      BY <3>1, <3>2, <3>3 DEF rcvVars
    <3>4. CASE s # session
      BY <1>1, <1>2, <3>1, <3>4 DEF Reply
    <3> QED
      BY <3>3, <3>4
  <2>5. CASE \/ AcceptStart(p) \/ ReAckStart(p) \/ AcceptInOrder(p) \/ ReAckDuplicate(p)
             \/ BufferOutOfOrder(p) \/ DropOnOverflow(p) \/ AckLateData(p)
    <3>1. CASE AcceptStart(p) \/ ReAckStart(p)
      <4>1. PICK t : Reply(p, {StartAckPkt(t)})
        BY <3>1 DEF AcceptStart, ReAckStart
      <4>2. FinAckPkt(s, TRUE) \in toSender[s]
        BY <1>1, <4>1, OtherAnswers DEF FinAckPkt, StartAckPkt
      <4>3. rcv_phase \in {"listen", "data"}
        BY <3>1 DEF AcceptStart, ReAckStart
      <4> QED
        BY <1>2, <4>2, <4>3
    <3>2. CASE \/ AcceptInOrder(p) \/ ReAckDuplicate(p) \/ BufferOutOfOrder(p)
               \/ DropOnOverflow(p) \/ AckLateData(p)
      <4>1. PICK ns : Reply(p, Acks(ns))
        BY <3>2 DEF AcceptInOrder, ReAckDuplicate, BufferOutOfOrder, DropOnOverflow,
                    AckLateData
      <4>2. FinAckPkt(s, TRUE) \in toSender[s]
        BY <1>1, <4>1, OtherAnswers DEF FinAckPkt, AckPkt, Acks
      <4>3. UNCHANGED rcvVars \/ rcv_phase = "data"
        BY <3>2 DEF AcceptInOrder, ReAckDuplicate, BufferOutOfOrder, DropOnOverflow,
                    AckLateData, IsNewOutOfOrder, IsData
      <4> QED
        BY <1>2, <4>2, <4>3 DEF rcvVars
    <3> QED
      BY <2>5, <3>1, <3>2
  <2> QED
    BY <1>7, <2>1, <2>2, <2>3, <2>4, <2>5 DEF Receive
<1> QED
  BY <1>4, <1>5, <1>6, <1>7 DEF ReceiverStep

-----------------------------------------------------------------------------
(* The bytes of a file, chunk by chunk.  A chunk is known by the interval    *)
(* of its bytes, so the bytes of many chunks are counted without a sum.     *)

(* The places in the file of the bytes of chunk n of session s.             *)
BytesOfChunk(s, n) ==
  (n * PayloadSize)..(n * PayloadSize + ReadChunk(s, n).len - 1)

LEMMA TimesMonotonic ==
  ASSUME NEW i \in Nat, NEW j \in Nat, NEW k \in Nat, i <= j
  PROVE  i * k <= j * k
<1>1. PICK d \in Nat : j = i + d
  <2>1. j - i \in Nat /\ j = i + (j - i)
    OBVIOUS
  <2> QED
    BY <2>1
<1>2. j * k = i * k + d * k
  BY <1>1
<1>3. d * k \in Nat /\ i * k \in Nat
  OBVIOUS
<1> QED
  BY <1>2, <1>3

LEMMA OffsetBounds ==
  ASSUME NEW size \in Nat, NEW n \in Nat
  PROVE  /\ n * PayloadSize \in Nat
         /\ Offset(size, n) \in Nat
         /\ Offset(size, n) <= size
         /\ Offset(size, n) <= n * PayloadSize
         /\ Offset(size, n) = n * PayloadSize \/ Offset(size, n) = size
         /\ (n + 1) * PayloadSize = n * PayloadSize + PayloadSize
<1>1. PayloadSize \in Nat /\ PayloadSize > 0
  BY SizeAssumption
<1>2. n * PayloadSize \in Nat /\ (n + 1) * PayloadSize = n * PayloadSize + PayloadSize
  BY <1>1
<1> QED
  BY <1>1, <1>2 DEF Offset

LEMMA OffsetMonotonic ==
  ASSUME NEW size \in Nat, NEW i \in Nat, NEW j \in Nat, i <= j
  PROVE  Offset(size, i) <= Offset(size, j)
<1>1. i * PayloadSize <= j * PayloadSize
  BY SizeAssumption, TimesMonotonic
<1> QED
  BY <1>1, OffsetBounds, SizeAssumption DEF Offset

(* In the file as it is read chunk n lies between two offsets.              *)
LEMMA BytesAreInterval ==
  ASSUME NEW s \in Sessions, NEW n \in Nat
  PROVE  /\ ReadChunk(s, n).len \in Nat
         /\ ReadChunk(s, n).len = Offset(ReadSize[s], n + 1) - Offset(ReadSize[s], n)
         /\ ReadChunk(s, n).len <= PayloadSize
         /\ BytesOfChunk(s, n) = Offset(ReadSize[s], n)..(Offset(ReadSize[s], n + 1) - 1)
         /\ IsFiniteSet(BytesOfChunk(s, n))
         /\ Cardinality(BytesOfChunk(s, n)) = ReadChunk(s, n).len
<1> DEFINE size == ReadSize[s]
           a == Offset(size, n)
           b == Offset(size, n + 1)
           w == n * PayloadSize
<1>1. size \in Nat /\ PayloadSize \in Nat /\ PayloadSize > 0
  BY SizeAssumption
<1>2. ReadChunk(s, n).len = b - a
  BY DEF ReadChunk, ChunkLength
<1>3. /\ w \in Nat /\ a \in Nat /\ b \in Nat /\ a <= b /\ a <= size /\ b <= size
      /\ (w <= size /\ a = w) \/ (w > size /\ a = size /\ b = size)
      /\ b <= w + PayloadSize
  <2>1. n + 1 \in Nat /\ n <= n + 1
    OBVIOUS
  <2>2. a <= b
    BY <1>1, <2>1, OffsetMonotonic
  <2>3. w \in Nat /\ a \in Nat /\ a <= size /\ (n + 1) * PayloadSize = w + PayloadSize
    BY <1>1, OffsetBounds
  <2>4. b \in Nat /\ b <= size /\ b <= (n + 1) * PayloadSize
    BY <1>1, <2>1, OffsetBounds
  <2>5. (w <= size /\ a = w) \/ (w > size /\ a = size)
    BY <1>1, <2>3 DEF Offset
  <2> HIDE DEF size, a, b, w
  <2> QED
    BY <1>1, <2>2, <2>3, <2>4, <2>5
<1> HIDE DEF size, a, b
<1>4. b - a \in Nat /\ b - a <= PayloadSize
  BY <1>1, <1>3
<1>5. BytesOfChunk(s, n) = a..(b - 1)
  <2>1. BytesOfChunk(s, n) = w..(w + (b - a) - 1)
    BY <1>2 DEF BytesOfChunk
  <2> HIDE DEF w
  <2>2. w..(w + (b - a) - 1) = a..(b - 1)
    BY <1>1, <1>3
  <2> QED
    BY <2>1, <2>2
<1>6. IsFiniteSet(a..(b - 1)) /\ Cardinality(a..(b - 1)) = b - a
  <2>1. a \in Int /\ b - 1 \in Int
    BY <1>3
  <2>2. /\ IsFiniteSet(a..(b - 1))
        /\ Cardinality(a..(b - 1)) = IF a > b - 1 THEN 0 ELSE (b - 1) - a + 1
    BY <2>1, FS_Interval
  <2> QED
    BY <1>3, <2>2
<1> QED
  BY <1>2, <1>4, <1>5, <1>6 DEF a, b, size

(* Two chunks have no byte in common.                                       *)
LEMMA ChunksAreDisjoint ==
  ASSUME NEW s \in Sessions, NEW i \in Nat, NEW j \in Nat, i < j
  PROVE  BytesOfChunk(s, i) \cap BytesOfChunk(s, j) = {}
<1>1. ReadSize[s] \in Nat /\ i + 1 \in Nat /\ i + 1 <= j /\ j + 1 \in Nat
  BY SizeAssumption
<1>2. Offset(ReadSize[s], i + 1) <= Offset(ReadSize[s], j)
  BY <1>1, OffsetMonotonic
<1>3. /\ Offset(ReadSize[s], i) \in Nat /\ Offset(ReadSize[s], i + 1) \in Nat
      /\ Offset(ReadSize[s], j) \in Nat /\ Offset(ReadSize[s], j + 1) \in Nat
  BY <1>1, OffsetBounds
<1>4. /\ BytesOfChunk(s, i) = Offset(ReadSize[s], i)..(Offset(ReadSize[s], i + 1) - 1)
      /\ BytesOfChunk(s, j) = Offset(ReadSize[s], j)..(Offset(ReadSize[s], j + 1) - 1)
  BY BytesAreInterval
<1> QED
  BY <1>2, <1>3, <1>4

(* The bytes of a run of chunks are those between its ends.                 *)
LEMMA BytesOfRun ==
  ASSUME NEW s \in Sessions, NEW first \in Nat, NEW last \in Int, first <= last + 1
  PROVE  UNION {BytesOfChunk(s, n) : n \in first..last}
           = Offset(ReadSize[s], first)..(Offset(ReadSize[s], last + 1) - 1)
<1> DEFINE size == ReadSize[s]
           P == PayloadSize
<1>1. size \in Nat /\ P \in Nat /\ P > 0 /\ last + 1 \in Nat
  BY SizeAssumption
<1>2. ASSUME NEW n \in first..last
      PROVE  BytesOfChunk(s, n) \subseteq Offset(size, first)..(Offset(size, last + 1) - 1)
  <2>1. n \in Nat /\ first <= n /\ n + 1 \in Nat /\ n + 1 <= last + 1
    OBVIOUS
  <2>2. Offset(size, first) <= Offset(size, n) /\ Offset(size, n + 1) <= Offset(size, last + 1)
    BY <1>1, <2>1, OffsetMonotonic
  <2>3. /\ Offset(size, first) \in Nat /\ Offset(size, n) \in Nat
        /\ Offset(size, n + 1) \in Nat /\ Offset(size, last + 1) \in Nat
    BY <1>1, <2>1, OffsetBounds
  <2>4. BytesOfChunk(s, n) = Offset(size, n)..(Offset(size, n + 1) - 1)
    BY <2>1, BytesAreInterval
  <2> HIDE DEF size
  <2> QED
    BY <2>2, <2>3, <2>4
<1>3. ASSUME NEW b \in Offset(size, first)..(Offset(size, last + 1) - 1)
      PROVE  \E n \in first..last : b \in BytesOfChunk(s, n)
  <2>1. /\ Offset(size, first) \in Nat /\ Offset(size, last + 1) \in Nat
        /\ Offset(size, last + 1) <= size /\ Offset(size, last + 1) <= (last + 1) * P
    BY <1>1, OffsetBounds
  <2>2. b \in Nat /\ b < size /\ b < (last + 1) * P /\ Offset(size, first) <= b
    BY <1>1, <2>1
  <2> DEFINE n == b \div P
  <2>3. n \in Nat /\ n * P <= b /\ b < n * P + P
    BY <1>1, <2>2
  <2>4. Offset(size, first) = first * P
    BY <1>1, <2>2, OffsetBounds DEF Offset
  <2> HIDE DEF n
  <2>5. first <= n
    <3>1. CASE n < first
      <4>1. (n + 1) * P <= first * P
        BY <1>1, <2>3, <3>1, TimesMonotonic
      <4>2. (n + 1) * P = n * P + P
        BY <1>1, <2>3
      <4> QED
        BY <1>1, <2>2, <2>3, <2>4, <4>1, <4>2
    <3> QED
      BY <2>3, <3>1
  <2>6. n <= last
    <3>1. CASE last + 1 <= n
      <4>1. (last + 1) * P <= n * P
        BY <1>1, <2>3, <3>1, TimesMonotonic
      <4> QED
        BY <1>1, <2>2, <2>3, <4>1
    <3> QED
      BY <2>3, <3>1
  <2>7. Offset(size, n) = n * P /\ b < Offset(size, n + 1)
    <3>1. (n + 1) * P = n * P + P
      BY <1>1, <2>3
    <3> QED
      BY <1>1, <2>2, <2>3, <3>1 DEF Offset
  <2>8. BytesOfChunk(s, n) = Offset(size, n)..(Offset(size, n + 1) - 1)
    BY <2>3, BytesAreInterval
  <2>9. Offset(size, n) \in Nat /\ Offset(size, n + 1) \in Nat
    <3>1. n + 1 \in Nat
      BY <2>3
    <3> QED
      BY <1>1, <2>3, <3>1, OffsetBounds
  <2> HIDE DEF size, P
  <2>10. b \in BytesOfChunk(s, n)
    BY <2>2, <2>3, <2>7, <2>8, <2>9
  <2> QED
    BY <2>3, <2>5, <2>6, <2>10
<1> QED
  BY <1>2, <1>3

BytesOfChunks(s, S) == UNION {BytesOfChunk(s, n) : n \in S}

(* One chunk more is so many bytes more, and a run less so many less.       *)
LEMMA BytesWithOneMore ==
  ASSUME NEW s \in Sessions, NEW S \in SUBSET Nat, NEW n \in Nat \ S,
         IsFiniteSet(BytesOfChunks(s, S))
  PROVE  /\ IsFiniteSet(BytesOfChunks(s, S \cup {n}))
         /\ Cardinality(BytesOfChunks(s, S \cup {n}))
              = Cardinality(BytesOfChunks(s, S)) + ReadChunk(s, n).len
<1> DEFINE old == BytesOfChunks(s, S)
           new == BytesOfChunk(s, n)
<1>1. BytesOfChunks(s, S \cup {n}) = old \cup new
  BY DEF BytesOfChunks
<1>2. old \cap new = {}
  <2>1. ASSUME NEW m \in S PROVE BytesOfChunk(s, m) \cap new = {}
    <3>1. m \in Nat /\ n \in Nat /\ (m < n \/ n < m)
      OBVIOUS
    <3>2. CASE m < n
      BY <3>1, <3>2, ChunksAreDisjoint
    <3>3. CASE n < m
      BY <3>1, <3>3, ChunksAreDisjoint
    <3> QED
      BY <3>1, <3>2, <3>3
  <2> QED
    BY <2>1 DEF BytesOfChunks
<1>3. IsFiniteSet(new) /\ Cardinality(new) = ReadChunk(s, n).len /\ ReadChunk(s, n).len \in Nat
  BY BytesAreInterval
<1>4. IsFiniteSet(old) /\ Cardinality(old) \in Nat
  BY FS_CardinalityType
<1> HIDE DEF old, new
<1>5. /\ IsFiniteSet(old \cup new)
      /\ Cardinality(old \cup new) = Cardinality(old) + Cardinality(new) - Cardinality(old \cap new)
  BY <1>3, <1>4, FS_Union
<1>6. Cardinality(old \cap new) = 0
  BY <1>2, FS_EmptySet
<1>7. Cardinality(old \cup new) = Cardinality(old) + ReadChunk(s, n).len
  BY <1>3, <1>4, <1>5, <1>6
<1> QED
  BY <1>1, <1>5, <1>7 DEF old

LEMMA BytesWithoutRun ==
  ASSUME NEW s \in Sessions, NEW S \in SUBSET Nat, IsFiniteSet(BytesOfChunks(s, S)),
         NEW first \in Nat, NEW last \in Int, first <= last + 1, first..last \subseteq S
  PROVE  LET gone == Offset(ReadSize[s], last + 1) - Offset(ReadSize[s], first) IN
         /\ IsFiniteSet(BytesOfChunks(s, S \ (first..last)))
         /\ gone \in Nat
         /\ Cardinality(BytesOfChunks(s, S \ (first..last)))
              = Cardinality(BytesOfChunks(s, S)) - gone
<1> DEFINE a     == Offset(ReadSize[s], first)
           b     == Offset(ReadSize[s], last + 1)
           old   == BytesOfChunks(s, S)
           rest  == BytesOfChunks(s, S \ (first..last))
           run   == BytesOfChunks(s, first..last)
<1>1. a \in Nat /\ b \in Nat /\ a <= b
  <2>1. ReadSize[s] \in Nat /\ last + 1 \in Nat
    BY SizeAssumption
  <2> QED
    BY <2>1, OffsetBounds, OffsetMonotonic
<1>2. run = a..(b - 1)
  BY BytesOfRun DEF BytesOfChunks
<1>3. run \subseteq old /\ rest = old \ run
  <2>1. run \subseteq old /\ old \ run \subseteq rest /\ rest \subseteq old
    BY DEF BytesOfChunks
  <2>2. ASSUME NEW m \in S \ (first..last), NEW n \in first..last
        PROVE  BytesOfChunk(s, m) \cap BytesOfChunk(s, n) = {}
    <3>1. m \in Nat /\ n \in Nat /\ m # n
      OBVIOUS
    <3>2. CASE m < n
      BY <3>1, <3>2, ChunksAreDisjoint
    <3>3. CASE n < m
      BY <3>1, <3>3, ChunksAreDisjoint
    <3> QED
      BY <3>1, <3>2, <3>3
  <2>3. rest \cap run = {}
    BY <2>2 DEF BytesOfChunks
  <2> QED
    BY <2>1, <2>3
<1> HIDE DEF a, b, old, rest, run
<1>4. Cardinality(run) = b - a
  <2>1. a \in Int /\ b - 1 \in Int
    BY <1>1
  <2>2. Cardinality(a..(b - 1)) = IF a > b - 1 THEN 0 ELSE (b - 1) - a + 1
    BY <2>1, FS_Interval
  <2> QED
    BY <1>1, <1>2, <2>2
<1>5. IsFiniteSet(old \ run) /\ Cardinality(old \ run) = Cardinality(old) - Cardinality(old \cap run)
  <2>1. IsFiniteSet(old)
    BY DEF old
  <2> QED
    BY <2>1, FS_Difference
<1>6. old \cap run = run
  BY <1>3
<1>7. b - a \in Nat
  BY <1>1
<1> QED
  BY <1>3, <1>4, <1>5, <1>6, <1>7 DEF a, b, old, rest

-----------------------------------------------------------------------------
(* The limits, and what makes their sizes numbers.                          *)
AccountInv ==
  /\ IsFiniteSet(Buffered) /\ IsFiniteSet(HeldBytes)
  /\ BufferWithinLimits

(* BufferIsAhead makes the bytes held those of the numbers held.            *)
LEMMA HeldAreChunks ==
  ASSUME ReceiverInv, Writing
  PROVE  HeldBytes = BytesOfChunks(session, Buffered)
<1>1. \A n \in Buffered : out_of_order_buffer[n] = ReadChunk(session, n)
  BY DEF ReceiverInv, BufferIsAhead
<1> QED
  BY <1>1 DEF HeldBytes, BytesOfChunks, BytesOfChunk

(* The += of protocol.py:1155.                                              *)
LEMMA BufferOutOfOrderAccounts ==
  ASSUME NEW p \in Requests, ReceiverInv, AccountInv, BufferOutOfOrder(p)
  PROVE  AccountInv'
<1> DEFINE n == p.seq_num
<1>1. /\ p.type = "DATA" /\ p.session = session /\ rcv_phase = "data"
      /\ n \notin Buffered /\ ~BufferIsFull(p)
  BY DEF BufferOutOfOrder, IsNewOutOfOrder, IsData
<1>2. /\ session \in Sessions /\ n \in Nat /\ p.payload = ReadChunk(session, n)
      /\ Buffered \in SUBSET Nat
  BY <1>1, RequestTypes DEF Garbage, ReceiverInv, ReceiverTypeOK
<1>3. Buffered' = Buffered \cup {n} /\ session' = session /\ Writing /\ Writing'
  BY <1>1 DEF BufferOutOfOrder, Buffered, Writing
<1>4. HeldBytes = BytesOfChunks(session, Buffered)
  BY <1>3, HeldAreChunks
<1>5. HeldBytes' = BytesOfChunks(session, Buffered \cup {n})
  <2>1. ReceiverInv'
    BY BufferOutOfOrderStep
  <2>2. \A m \in Buffered' : out_of_order_buffer'[m] = ReadChunk(session, m)
    BY <1>3, <2>1 DEF ReceiverInv, BufferIsAhead
  <2> QED
    BY <1>3, <2>2 DEF HeldBytes, BytesOfChunks, BytesOfChunk
<1>6. /\ IsFiniteSet(HeldBytes')
      /\ Cardinality(HeldBytes') = Cardinality(HeldBytes) + p.payload.len
  BY <1>1, <1>2, <1>4, <1>5, BytesWithOneMore DEF AccountInv
<1>7. IsFiniteSet(Buffered') /\ Cardinality(Buffered') = Cardinality(Buffered) + 1
  BY <1>1, <1>3, FS_AddElement DEF AccountInv
<1>8. /\ Cardinality(Buffered) < MaxBufferedPackets
      /\ current_buffer_bytes + p.payload.len <= MaxBufferBytes
  <2>1. Cardinality(Buffered) \in Nat /\ p.payload.len \in Nat
    BY <1>2, FS_CardinalityType, BytesAreInterval DEF AccountInv
  <2> QED
    BY <1>1, <2>1, ReceiverAssumption DEF BufferIsFull, ReceiverInv, ReceiverTypeOK
<1>9. current_buffer_bytes' = current_buffer_bytes + p.payload.len
  BY DEF BufferOutOfOrder
<1>10. Cardinality(Buffered) \in Nat
  BY FS_CardinalityType DEF AccountInv
<1> QED
  BY <1>6, <1>7, <1>8, <1>9, <1>10, ReceiverAssumption DEF AccountInv, BufferWithinLimits

(* The clamped -= of protocol.py:1114: the clamp never bites.               *)
LEMMA AcceptInOrderAccounts ==
  ASSUME NEW p \in Requests, ReceiverInv, AccountInv, AcceptInOrder(p)
  PROVE  AccountInv'
<1>1. PICK next \in (expected_seq + 1)..(expected_seq + 1 + Cardinality(Buffered)) :
        /\ DrainsUpTo(next)
        /\ out_of_order_buffer' =
             [n \in Buffered \ ((expected_seq + 1)..(next - 1)) |-> out_of_order_buffer[n]]
        /\ current_buffer_bytes' =
             MaxZero(current_buffer_bytes - BytesOf(expected_seq + 1, next - 1))
        /\ rcv_phase' = PhaseAfter(session, next)
  BY DEF AcceptInOrder
<1> DEFINE first == expected_seq + 1
           last  == next - 1
<1>2. /\ rcv_phase = "data" /\ session' = session /\ Writing /\ Writing'
  BY <1>1 DEF AcceptInOrder, IsData, Writing, PhaseAfter
<1>3. /\ session \in Sessions /\ Buffered \in SUBSET Nat
      /\ first \in Nat /\ last \in Int /\ first <= last + 1 /\ last + 1 = next
      /\ expected_seq \in Nat
  BY <1>1, <1>2 DEF ReceiverInv, ReceiverTypeOK
<1>4. first..last \subseteq Buffered /\ Buffered' = Buffered \ (first..last)
  BY <1>1 DEF DrainsUpTo, Buffered
<1>5. HeldBytes = BytesOfChunks(session, Buffered)
  BY <1>2, HeldAreChunks
<1>6. HeldBytes' = BytesOfChunks(session, Buffered \ (first..last))
  <2>1. ReceiverInv'
    BY AcceptInOrderStep
  <2>2. \A m \in Buffered' : out_of_order_buffer'[m] = ReadChunk(session, m)
    BY <1>2, <2>1 DEF ReceiverInv, BufferIsAhead
  <2> QED
    BY <1>2, <1>4, <2>2 DEF HeldBytes, BytesOfChunks, BytesOfChunk
<1>7. /\ IsFiniteSet(HeldBytes')
      /\ BytesOf(first, last) \in Nat
      /\ Cardinality(HeldBytes') = Cardinality(HeldBytes) - BytesOf(first, last)
  <2> HIDE DEF first, last
  <2> QED
    BY <1>3, <1>4, <1>5, <1>6, BytesWithoutRun DEF AccountInv, BytesOf
<1>8. IsFiniteSet(Buffered') /\ Cardinality(Buffered') <= Cardinality(Buffered)
  BY <1>4, FS_Subset DEF AccountInv
<1>9. Cardinality(HeldBytes') \in Nat /\ Cardinality(Buffered') \in Nat /\ Cardinality(Buffered) \in Nat
  BY <1>7, <1>8, FS_CardinalityType DEF AccountInv
<1>10. current_buffer_bytes' = MaxZero(current_buffer_bytes - BytesOf(first, last))
  BY <1>1
<1>11. current_buffer_bytes' = Cardinality(HeldBytes') /\ current_buffer_bytes' <= MaxBufferBytes
  <2>1. /\ current_buffer_bytes = Cardinality(HeldBytes) /\ current_buffer_bytes <= MaxBufferBytes
        /\ current_buffer_bytes \in Nat
    BY DEF AccountInv, BufferWithinLimits, ReceiverInv, ReceiverTypeOK
  <2> HIDE DEF first, last
  <2> QED
    BY <1>7, <1>9, <1>10, <2>1, ReceiverAssumption DEF MaxZero
<1> QED
  BY <1>7, <1>8, <1>9, <1>11, ReceiverAssumption DEF AccountInv, BufferWithinLimits

LEMMA AccountStarts == ReceiverInit => AccountInv
<1> SUFFICES ASSUME ReceiverInit PROVE AccountInv
  OBVIOUS
<1>1. Buffered = {} /\ HeldBytes = {} /\ current_buffer_bytes = 0
  BY DEF ReceiverInit, Buffered, HeldBytes
<1> QED
  BY <1>1, FS_EmptySet, ReceiverAssumption DEF AccountInv, BufferWithinLimits

LEMMA AccountStutter ==
  ASSUME AccountInv, UNCHANGED <<out_of_order_buffer, current_buffer_bytes>>
  PROVE  AccountInv'
BY DEF AccountInv, BufferWithinLimits, HeldBytes, Buffered

LEMMA ReceiverStepKeepsAccount ==
  ASSUME toReceiver \subseteq Requests, ReceiverInv, AccountInv,
         ReceiverStep \/ InactivityTimeout
  PROVE  AccountInv'
<1>1. ASSUME NEW p \in toReceiver, Receive(p)
      PROVE  AccountInv'
  <2>1. p \in Requests
    OBVIOUS
  <2>2. CASE AcceptInOrder(p)
    BY <2>1, <2>2, AcceptInOrderAccounts
  <2>3. CASE BufferOutOfOrder(p)
    BY <2>1, <2>3, BufferOutOfOrderAccounts
  <2>4. CASE UNCHANGED <<out_of_order_buffer, current_buffer_bytes>>
    BY <2>4, AccountStutter
  <2> QED
    BY <1>1, <2>2, <2>3, <2>4
       DEF Receive, AcceptStart, IgnoreBeforeStart, ReAckDuplicate, DropOnOverflow,
           ReAckStart, IgnoreInData, VerifyFin, AckLateData, IgnoreInFin, DrainFin,
           DrainIgnore, DrainCorrupt, DropAtClosedPort, rcvVars
<1>2. CASE Rebind
  <2>1. Buffered' = {} /\ HeldBytes' = {} /\ current_buffer_bytes' = 0
    BY <1>2 DEF Rebind, Buffered, HeldBytes
  <2> QED
    BY <2>1, FS_EmptySet, ReceiverAssumption DEF AccountInv, BufferWithinLimits
<1>3. CASE DrainEmpty \/ RaiseBlockingIOError \/ InactivityTimeout
  BY <1>3, AccountStutter DEF DrainEmpty, RaiseBlockingIOError, InactivityTimeout
<1> QED
  BY <1>1, <1>2, <1>3 DEF ReceiverStep

-----------------------------------------------------------------------------
LEMMA NumChunksType == \A s \in Sessions : NumChunks(s) \in Nat /\ Readable(s) \in Nat
<1> TAKE s \in Sessions
<1>1. /\ PayloadSize \in Nat \ {0}
      /\ FileSize[s] \in Nat /\ ReadSize[s] \in Nat
  BY SizeAssumption
<1> QED
  BY <1>1 DEF NumChunks, Readable, calculate_total_chunks

LEMMA DataIsSendable ==
  ASSUME NEW p \in Requests, p.type = "DATA"
  PROVE  p.seq_num \in Sendable(p.session)
<1>1. p # Garbage
  BY DEF Garbage
<1>2. ~(\E s \in Sessions : p = StartPkt(s) \/ p = FinPkt(s))
  BY DEF StartPkt, FinPkt
<1>3. PICK s \in Sessions : \E n \in Sendable(s) : p = DataPkt(s, n)
  BY <1>1, <1>2 DEF Requests
<1> QED
  BY <1>3 DEF DataPkt

(* Steps of the receiver that answer or drop a datagram and change nothing. *)
Quiet(p) ==
  \/ IgnoreBeforeStart(p) \/ ReAckDuplicate(p) \/ DropOnOverflow(p)
  \/ ReAckStart(p) \/ IgnoreInData(p) \/ AckLateData(p) \/ IgnoreInFin(p)
  \/ DrainFin(p) \/ DrainIgnore(p) \/ DropAtClosedPort(p)

LEMMA QuietChangesNothing ==
  ASSUME NEW p, Quiet(p)
  PROVE  UNCHANGED rcvVars
BY DEF Quiet, IgnoreBeforeStart, ReAckDuplicate, DropOnOverflow, ReAckStart,
       IgnoreInData, AckLateData, IgnoreInFin, DrainFin, DrainIgnore, DropAtClosedPort

-----------------------------------------------------------------------------
(* How far the session is: the phase follows from expected_seq, what waits  *)
(* in the buffer exists, and no verdict precedes FIN (under --once).        *)
ProgressInv ==
  /\ (rcv_phase = "listen") <=> (session = NoSession)
  /\ rcv_phase = "data" => expected_seq < NumChunks(session)
  /\ rcv_phase \in {"fin", "drain", "fin_nb"} => NumChunks(session) <= expected_seq
  /\ Writing => Buffered \subseteq Sendable(session)
  /\ Once /\ rcv_phase \in {"listen", "data", "fin"} => outcome = "none"

LEMMA ProgressStutter == ProgressInv /\ UNCHANGED rcvVars => ProgressInv'
BY DEF ProgressInv, rcvVars, Writing, Buffered

LEMMA ReceiverStepKeepsProgress ==
  ASSUME toReceiver \subseteq Requests, ReceiverInv, ProgressInv,
         ReceiverStep \/ InactivityTimeout
  PROVE  ProgressInv'
<1>1. ASSUME NEW p \in toReceiver, Receive(p)
      PROVE  ProgressInv'
  <2>1. p \in Requests
    OBVIOUS
  <2>2. CASE Quiet(p)
    BY <2>2, QuietChangesNothing, ProgressStutter
  <2>3. CASE AcceptStart(p)
    <3>1. p.session \in Sessions /\ p.session # NoSession
      BY <2>1, <2>3, RequestTypes, SessionAssumption DEF AcceptStart, Garbage
    <3>2. Buffered = {} /\ UNCHANGED <<out_of_order_buffer, outcome>> /\ rcv_phase = "listen"
      BY <2>3 DEF AcceptStart, ReceiverInv
    <3>3. /\ session' = p.session /\ expected_seq' = 0
          /\ rcv_phase' = PhaseAfter(p.session, 0)
      BY <2>3 DEF AcceptStart
    <3>4. NumChunks(p.session) \in Nat
      BY <3>1, NumChunksType
    <3>5. Buffered' = {}
      BY <3>2 DEF Buffered
    <3> QED
      BY <3>1, <3>2, <3>3, <3>4, <3>5 DEF ProgressInv, PhaseAfter
  <2>4. CASE AcceptInOrder(p)
    <3>1. PICK next \in (expected_seq + 1)..(expected_seq + 1 + Cardinality(Buffered)) :
            /\ out_of_order_buffer' =
                 [n \in Buffered \ ((expected_seq + 1)..(next - 1)) |-> out_of_order_buffer[n]]
            /\ expected_seq' = next
            /\ rcv_phase' = PhaseAfter(session, next)
      BY <2>4 DEF AcceptInOrder
    <3>2. rcv_phase = "data" /\ UNCHANGED <<session, outcome>> /\ session # NoSession
      BY <2>4 DEF AcceptInOrder, IsData, ReceiverInv, ReceiverTypeOK
    <3>3. session \in Sessions
      BY <3>2 DEF ReceiverInv, ReceiverTypeOK
    <3>4. NumChunks(session) \in Nat /\ next \in Int
      BY <3>1, <3>3, NumChunksType DEF ReceiverInv, ReceiverTypeOK
    <3>5. Buffered' \subseteq Buffered
      BY <3>1 DEF Buffered
    <3>6. Buffered' \subseteq Sendable(session)
      BY <3>2, <3>5 DEF ProgressInv, Writing
    <3> QED
      BY <3>1, <3>2, <3>4, <3>6 DEF ProgressInv, PhaseAfter
  <2>5. CASE BufferOutOfOrder(p)
    <3>1. /\ p.type = "DATA" /\ p.session = session /\ rcv_phase = "data"
          /\ Buffered' = Buffered \cup {p.seq_num}
          /\ UNCHANGED <<rcv_phase, session, expected_seq, outcome>>
      BY <2>5 DEF BufferOutOfOrder, IsNewOutOfOrder, IsData, Buffered
    <3>2. p.seq_num \in Sendable(session)
      BY <2>1, <3>1, DataIsSendable
    <3> QED
      BY <3>1, <3>2 DEF ProgressInv, Writing
  <2>6. CASE VerifyFin(p)
    BY <2>6 DEF VerifyFin, InFinLoop, ProgressInv, Writing, Buffered, ReceiverInv, ReceiverTypeOK
  <2>7. CASE DrainCorrupt(p)
    BY <2>7 DEF DrainCorrupt, ProgressInv, Writing, Buffered
  <2> QED
    BY <1>1, <2>2, <2>3, <2>4, <2>5, <2>6, <2>7 DEF Receive, Quiet
<1>2. CASE DrainEmpty \/ RaiseBlockingIOError \/ InactivityTimeout
  BY <1>2 DEF DrainEmpty, RaiseBlockingIOError, InactivityTimeout, ProgressInv, Writing
<1>3. CASE Rebind
  BY <1>3 DEF Rebind, ProgressInv, Writing
<1> QED
  BY <1>1, <1>2, <1>3 DEF ReceiverStep

-----------------------------------------------------------------------------
(* What a receiver in the data loop has after a drain: only chunks that are *)
(* announced and in the file as it is read.                                 *)
LEMMA DrainStaysInFile ==
  ASSUME NEW p \in Requests, ReceiverInv, ProgressInv, AcceptInOrder(p)
  PROVE  /\ session \in Sessions
         /\ expected_seq' \in Nat /\ expected_seq < expected_seq'
         /\ expected_seq' <= NumChunks(session) /\ expected_seq' <= Readable(session)
<1>1. PICK next \in (expected_seq + 1)..(expected_seq + 1 + Cardinality(Buffered)) :
        DrainsUpTo(next) /\ expected_seq' = next
  BY DEF AcceptInOrder
<1>2. p.type = "DATA" /\ p.session = session /\ rcv_phase = "data" /\ p.seq_num = expected_seq
  BY DEF AcceptInOrder, IsData
<1>3. session \in Sessions
  BY <1>2 DEF ReceiverInv, ReceiverTypeOK
<1>4. /\ expected_seq \in Nat /\ next \in Nat
      /\ NumChunks(session) \in Nat /\ Readable(session) \in Nat
      /\ expected_seq < NumChunks(session)
      /\ WindowSize[session] \in Nat /\ expected_seq < next
  BY <1>1, <1>2, <1>3, NumChunksType, SizeAssumption
     DEF ReceiverInv, ReceiverTypeOK, ProgressInv
<1>5. expected_seq \in Sendable(session) /\ Buffered \subseteq Sendable(session)
  BY <1>2, DataIsSendable DEF ProgressInv, Writing
<1>6. \A n \in Buffered : n \in Nat /\ n < expected_seq + WindowSize[session] /\ expected_seq < n
  BY <1>2 DEF ReceiverInv, ReceiverTypeOK, BufferIsAhead, Writing
<1>7. next - 1 \in Sendable(session)
  <2>1. CASE next = expected_seq + 1
    <3>1. next - 1 = expected_seq
      BY <1>4, <2>1
    <3> QED
      BY <1>5, <3>1
  <2>2. CASE next # expected_seq + 1
    <3>1. next - 1 \in (expected_seq + 1)..(next - 1)
      BY <1>1, <1>4, <2>2
    <3> QED
      BY <1>1, <1>5, <3>1 DEF DrainsUpTo
  <2> QED
    BY <2>1, <2>2
<1>8. next - 1 < Readable(session) /\ next - 1 < NumChunks(session)
  <2>1. /\ next - 1 < Readable(session)
        /\ next - 1 < NumChunks(session) \/ WindowSize[session] = 1
    BY <1>4, <1>7 DEF Sendable
  <2>2. CASE WindowSize[session] = 1
    <3>1. Buffered = {}
      BY <1>4, <1>6, <2>2
    <3>2. next = expected_seq + 1
      BY <1>1, <1>4, <3>1 DEF DrainsUpTo
    <3> QED
      BY <1>4, <2>1, <3>2
  <2> QED
    BY <2>1, <2>2
<1> QED
  BY <1>1, <1>3, <1>4, <1>8

-----------------------------------------------------------------------------
(* Under --once every answer in flight bears the session that is served.    *)
AnswersInv ==
  Once => \A s \in Sessions : \A r \in toSender[s] \ {Garbage} : r.session = session

LEMMA AnswersInvMeansOnly == AnswersInv => OnlyTheAcceptedAreAnswered
BY DEF AnswersInv, OnlyTheAcceptedAreAnswered

(* Before a START was accepted nothing was answered.                        *)
LEMMA NoAnswersYet ==
  ASSUME Once, ChannelTypeOK, AnswersInv, session = NoSession, NEW s \in Sessions
  PROVE  toSender[s] \subseteq {Garbage}
<1> SUFFICES ASSUME NEW r \in toSender[s], r # Garbage
             PROVE  FALSE
  OBVIOUS
<1>1. r \in Replies
  BY DEF ChannelTypeOK
<1>2. r.session \in Sessions
  BY <1>1 DEF Replies
<1> QED
  BY <1>2, SessionAssumption DEF AnswersInv

(* What the receiver may say, and to whom.                                  *)
LEMMA AnswerOfStep ==
  ASSUME ChannelTypeOK, NEW p \in toReceiver, Receive(p)
  PROVE  \/ UNCHANGED toSender
         \/ \E answers : Reply(p, answers) /\ \A r \in answers : r.session = session'
<1>1. CASE ReceiverReads(p)
  BY <1>1 DEF ReceiverReads
<1>2. CASE AcceptStart(p) \/ ReAckStart(p)
  <2>1. Reply(p, {StartAckPkt(session')})
    BY <1>2 DEF AcceptStart, ReAckStart, rcvVars
  <2>2. \A r \in {StartAckPkt(session')} : r.session = session'
    BY DEF StartAckPkt
  <2> QED
    BY <2>1, <2>2
<1>3. CASE VerifyFin(p) \/ DrainFin(p)
  <2>1. PICK b : Reply(p, {FinAckPkt(session, b)})
    BY <1>3 DEF VerifyFin, DrainFin
  <2>2. session' = session
    BY <1>3 DEF VerifyFin, DrainFin, rcvVars
  <2>3. \A r \in {FinAckPkt(session, b)} : r.session = session'
    BY <2>2 DEF FinAckPkt
  <2> QED
    BY <2>1, <2>3
<1>4. CASE \/ AcceptInOrder(p) \/ ReAckDuplicate(p) \/ BufferOutOfOrder(p)
           \/ DropOnOverflow(p) \/ AckLateData(p)
  <2>1. PICK ns : Reply(p, Acks(ns))
    BY <1>4 DEF AcceptInOrder, ReAckDuplicate, BufferOutOfOrder, DropOnOverflow, AckLateData
  <2>2. session' = session
    BY <1>4 DEF AcceptInOrder, ReAckDuplicate, BufferOutOfOrder, DropOnOverflow,
                AckLateData, rcvVars
  <2>3. \A r \in Acks(ns) : r.session = session'
    BY <2>2 DEF Acks, AckPkt
  <2> QED
    BY <2>1, <2>3
<1> QED
  BY <1>1, <1>2, <1>3, <1>4
     DEF Receive, IgnoreBeforeStart, IgnoreInData, IgnoreInFin, DrainIgnore,
         DrainCorrupt, DropAtClosedPort

(* Under --once the session is chosen once.                                 *)
LEMMA SessionStays ==
  ASSUME Once, ReceiverInv, ReceiverStep \/ InactivityTimeout
  PROVE  session' = session \/ (rcv_phase = "listen" /\ \E p \in toReceiver : AcceptStart(p))
<1>1. ASSUME NEW p \in toReceiver, Receive(p), ~AcceptStart(p)
      PROVE  session' = session
  BY <1>1, QuietChangesNothing
     DEF Receive, Quiet, AcceptInOrder, BufferOutOfOrder, VerifyFin, DrainCorrupt, rcvVars
<1>2. ASSUME NEW p \in toReceiver, AcceptStart(p)
      PROVE  rcv_phase = "listen"
  BY <1>2 DEF AcceptStart
<1> QED
  BY <1>1, <1>2 DEF ReceiverStep, DrainEmpty, RaiseBlockingIOError, Rebind, InactivityTimeout

LEMMA ReceiverStepKeepsAnswers ==
  ASSUME ChannelTypeOK, ReceiverInv, ProgressInv, AnswersInv,
         ReceiverStep \/ InactivityTimeout
  PROVE  AnswersInv'
<1> SUFFICES ASSUME Once, NEW s \in Sessions, NEW r \in toSender'[s], r # Garbage
             PROVE  r.session = session'
  BY DEF AnswersInv
<1>1. r \in toSender[s] => r.session = session'
  <2>1. CASE session' = session
    BY <2>1 DEF AnswersInv
  <2>2. CASE rcv_phase = "listen"
    BY <2>2, NoAnswersYet DEF ProgressInv
  <2> QED
    BY <2>1, <2>2, SessionStays
<1>2. ASSUME NEW p \in toReceiver, Receive(p)
      PROVE  r \in toSender[s] \/ r.session = session'
  <2>1. CASE UNCHANGED toSender
    BY <2>1
  <2>2. ASSUME NEW answers, Reply(p, answers), \A a \in answers : a.session = session'
        PROVE  r \in toSender[s] \/ r.session = session'
    <3>1. r \in toSender[s] \cup answers
      BY <2>2 DEF Reply, ChannelTypeOK
    <3> QED
      BY <2>2, <3>1
  <2> QED
    BY <1>2, <2>1, <2>2, AnswerOfStep
<1>3. CASE UNCHANGED toSender
  BY <1>1, <1>3
<1> QED
  BY <1>1, <1>2, <1>3 DEF ReceiverStep, DrainEmpty, RaiseBlockingIOError, Rebind,
                          InactivityTimeout, channelVars

-----------------------------------------------------------------------------
(* Both limits of the buffer have room for the window of session s, less    *)
(* the chunk that is awaited, which is never buffered.                      *)
RoomFor(s) ==
  /\ WindowSize[s] - 1 <= MaxBufferedPackets
  /\ (WindowSize[s] - 1) * PayloadSize <= MaxBufferBytes

(* In the file or in the buffer.                                            *)
Held(n) == n < expected_seq \/ n \in Buffered

(* What was acknowledged in the session that is served, is held.            *)
AckedInv ==
  Once /\ session \in Sessions /\ RoomFor(session) => AckedIsHeld

(* So many chunks have so many bytes at most.                               *)
LEMMA RunIsShort ==
  ASSUME NEW size \in Nat, NEW i \in Nat, NEW d \in Nat
  PROVE  Offset(size, i + d) - Offset(size, i) <= d * PayloadSize
<1>1. PayloadSize \in Nat /\ i + d \in Nat
  BY SizeAssumption
<1>2. /\ (i + d) * PayloadSize = i * PayloadSize + d * PayloadSize
      /\ i * PayloadSize \in Nat /\ d * PayloadSize \in Nat
  BY <1>1
<1>3. Offset(size, i + d) <= (i + d) * PayloadSize /\ Offset(size, i + d) <= size
  BY <1>1, OffsetBounds
<1>4. Offset(size, i) = i * PayloadSize \/ Offset(size, i) = size
  BY OffsetBounds
<1>5. Offset(size, i) \in Nat /\ Offset(size, i + d) \in Nat
  BY <1>1, OffsetBounds
<1> QED
  BY <1>2, <1>3, <1>4, <1>5

(* A buffer with room for the window never turns a chunk of it away.        *)
LEMMA RoomMeansNotFull ==
  ASSUME NEW p \in Requests, ReceiverInv, AccountInv, RoomFor(session), IsNewOutOfOrder(p)
  PROVE  ~BufferIsFull(p)
<1> DEFINE n     == p.seq_num
           W     == WindowSize[session]
           ahead == (expected_seq + 1)..(expected_seq + W - 1)
           bytes == BytesOfChunks(session, Buffered \cup {n})
<1>1. /\ p.type = "DATA" /\ p.session = session /\ rcv_phase = "data"
      /\ n > expected_seq /\ n < expected_seq + W /\ n \notin Buffered
  BY DEF IsNewOutOfOrder, IsData, InWindow
<1>2. /\ session \in Sessions /\ n \in Nat /\ p.payload = ReadChunk(session, n)
      /\ Buffered \in SUBSET Nat /\ expected_seq \in Nat
  BY <1>1, RequestTypes DEF Garbage, ReceiverInv, ReceiverTypeOK
<1>3. W \in Nat /\ W > 0 /\ PayloadSize \in Nat /\ ReadSize[session] \in Nat
  BY <1>2, SizeAssumption
<1>4. Buffered \cup {n} \subseteq ahead
  <2>1. \A m \in Buffered : m \in Nat /\ expected_seq < m /\ m < expected_seq + W
    BY <1>1, <1>2 DEF ReceiverInv, BufferIsAhead, Writing
  <2> HIDE DEF n, W
  <2> QED
    BY <1>1, <1>2, <1>3, <2>1
<1>5. IsFiniteSet(ahead) /\ Cardinality(ahead) = W - 1
  <2>1. expected_seq + 1 \in Int /\ expected_seq + W - 1 \in Int
    BY <1>2, <1>3
  <2>2. /\ IsFiniteSet(ahead)
        /\ Cardinality(ahead) = IF expected_seq + 1 > expected_seq + W - 1 THEN 0
                                ELSE (expected_seq + W - 1) - (expected_seq + 1) + 1
    BY <2>1, FS_Interval
  <2> QED
    BY <1>2, <1>3, <2>2
<1>6. Cardinality(Buffered) + 1 <= W - 1 /\ Cardinality(Buffered) \in Nat
  <2>1. /\ IsFiniteSet(Buffered \cup {n})
        /\ Cardinality(Buffered \cup {n}) = Cardinality(Buffered) + 1
    BY <1>1, FS_AddElement DEF AccountInv
  <2>2. Cardinality(Buffered \cup {n}) <= Cardinality(ahead)
    BY <1>4, <1>5, FS_Subset
  <2>3. Cardinality(Buffered) \in Nat
    BY FS_CardinalityType DEF AccountInv
  <2> QED
    BY <1>5, <2>1, <2>2, <2>3
<1>7. IsFiniteSet(bytes) /\ Cardinality(bytes) = current_buffer_bytes + p.payload.len
  <2>1. HeldBytes = BytesOfChunks(session, Buffered)
    BY <1>1, HeldAreChunks DEF Writing
  <2> QED
    BY <1>1, <1>2, <2>1, BytesWithOneMore DEF AccountInv, BufferWithinLimits
<1> DEFINE a == Offset(ReadSize[session], expected_seq + 1)
           b == Offset(ReadSize[session], expected_seq + 1 + (W - 1))
<1>8. bytes \subseteq a..(b - 1)
  <2>1. /\ expected_seq + 1 \in Nat /\ expected_seq + W - 1 \in Int
        /\ expected_seq + 1 <= (expected_seq + W - 1) + 1
        /\ (expected_seq + W - 1) + 1 = expected_seq + 1 + (W - 1)
    BY <1>2, <1>3
  <2>2. BytesOfChunks(session, ahead) = a..(b - 1)
    <3> HIDE DEF W
    <3> QED
      BY <1>2, <2>1, BytesOfRun DEF BytesOfChunks
  <2>3. bytes \subseteq BytesOfChunks(session, ahead)
    BY <1>4 DEF BytesOfChunks
  <2> QED
    BY <2>2, <2>3
<1>9. a \in Nat /\ b \in Nat /\ a <= b /\ b - a <= (W - 1) * PayloadSize
  <2>1. /\ expected_seq + 1 \in Nat /\ W - 1 \in Nat /\ expected_seq + 1 + (W - 1) \in Nat
        /\ expected_seq + 1 <= expected_seq + 1 + (W - 1)
    BY <1>2, <1>3
  <2> HIDE DEF W
  <2> QED
    BY <1>3, <2>1, OffsetBounds, OffsetMonotonic, RunIsShort
<1> HIDE DEF a, b, bytes, ahead
<1>10. Cardinality(bytes) <= b - a
  <2>1. a \in Int /\ b - 1 \in Int
    BY <1>9
  <2>2. /\ IsFiniteSet(a..(b - 1))
        /\ Cardinality(a..(b - 1)) = IF a > b - 1 THEN 0 ELSE (b - 1) - a + 1
    BY <2>1, FS_Interval
  <2>3. Cardinality(bytes) <= Cardinality(a..(b - 1))
    BY <1>8, <2>2, FS_Subset
  <2> QED
    BY <1>9, <2>2, <2>3
<1>11. (W - 1) * PayloadSize \in Nat
  BY <1>3
<1>12. current_buffer_bytes + p.payload.len <= MaxBufferBytes
  <2>1. Cardinality(bytes) \in Nat
    BY <1>7, FS_CardinalityType
  <2> QED
    BY <1>7, <1>9, <1>10, <1>11, <2>1, ReceiverAssumption DEF RoomFor
<1>13. Cardinality(Buffered) < MaxBufferedPackets
  BY <1>3, <1>6, ReceiverAssumption DEF RoomFor
<1>14. p.payload.len \in Nat /\ current_buffer_bytes \in Nat
  BY <1>2, BytesAreInterval DEF ReceiverInv, ReceiverTypeOK
<1> QED
  BY <1>6, <1>12, <1>13, <1>14, ReceiverAssumption DEF BufferIsFull

(* A chunk the receiver holds it holds until the session ends.              *)
LEMMA HeldStays ==
  ASSUME toReceiver \subseteq Requests, ReceiverInv, Writing, Writing',
         ReceiverStep \/ InactivityTimeout
  PROVE  /\ session' = session
         /\ \A n \in Nat : Held(n) => Held(n)'
<1>1. ASSUME NEW p \in toReceiver, Receive(p)
      PROVE  session' = session /\ \A n \in Nat : Held(n) => Held(n)'
  <2>1. p \in Requests
    OBVIOUS
  <2>2. CASE Quiet(p)
    BY <2>2, QuietChangesNothing DEF rcvVars, Held, Buffered
  <2>3. CASE AcceptStart(p)
    BY <2>3 DEF AcceptStart, Writing
  <2>4. CASE AcceptInOrder(p)
    <3>1. PICK next \in (expected_seq + 1)..(expected_seq + 1 + Cardinality(Buffered)) :
            /\ out_of_order_buffer' =
                 [n \in Buffered \ ((expected_seq + 1)..(next - 1)) |-> out_of_order_buffer[n]]
            /\ expected_seq' = next
      BY <2>4 DEF AcceptInOrder
    <3>2. Buffered' = Buffered \ ((expected_seq + 1)..(next - 1))
      BY <3>1 DEF Buffered
    <3>3. expected_seq \in Nat /\ next \in Nat /\ expected_seq < next
      BY <3>1 DEF ReceiverInv, ReceiverTypeOK
    <3>4. ASSUME NEW n \in Nat, Held(n) PROVE Held(n)'
      BY <3>1, <3>2, <3>3, <3>4 DEF Held
    <3> QED
      BY <2>4, <3>4 DEF AcceptInOrder
  <2>5. CASE BufferOutOfOrder(p)
    BY <2>5 DEF BufferOutOfOrder, Held, Buffered
  <2>6. CASE VerifyFin(p) \/ DrainCorrupt(p)
    BY <2>6 DEF VerifyFin, DrainCorrupt, Held, Buffered
  <2> QED
    BY <1>1, <2>2, <2>3, <2>4, <2>5, <2>6 DEF Receive, Quiet
<1>2. CASE DrainEmpty \/ RaiseBlockingIOError \/ InactivityTimeout \/ Rebind
  BY <1>2 DEF DrainEmpty, RaiseBlockingIOError, InactivityTimeout, Rebind, Writing
<1> QED
  BY <1>1, <1>2 DEF ReceiverStep

(* What is acknowledged in a step, to whomever, is held after it.           *)
LEMMA AcksAreHeld ==
  ASSUME ChannelTypeOK, ReceiverInv, AccountInv, ProgressInv,
         session \in Sessions, RoomFor(session),
         NEW p \in toReceiver, Receive(p), Writing, Writing',
         NEW s \in Sessions, NEW r \in toSender'[s], r \notin toSender[s],
         r.type = "ACK", r.ack_num < NumChunks(session)
  PROVE  Held(r.ack_num)'
<1>1. p \in Requests /\ toSender \in [Sessions -> SUBSET Replies]
  BY DEF ChannelTypeOK
<1>2. ASSUME NEW answers, Reply(p, answers)
      PROVE  r \in answers
  BY <1>1, <1>2 DEF Reply
<1>3. CASE UNCHANGED toSender
  BY <1>3
<1>4. CASE AcceptStart(p) \/ ReAckStart(p)
  <2>1. PICK t : Reply(p, {StartAckPkt(t)})
    BY <1>4 DEF AcceptStart, ReAckStart
  <2> QED
    BY <1>2, <2>1 DEF StartAckPkt
<1>5. CASE VerifyFin(p) \/ DrainFin(p)
  <2>1. PICK b : Reply(p, {FinAckPkt(session, b)})
    BY <1>5 DEF VerifyFin, DrainFin
  <2> QED
    BY <1>2, <2>1 DEF FinAckPkt
<1>6. CASE AcceptInOrder(p)
  <2>1. PICK next \in (expected_seq + 1)..(expected_seq + 1 + Cardinality(Buffered)) :
          expected_seq' = next /\ Reply(p, Acks(expected_seq..(next - 1)))
    BY <1>6 DEF AcceptInOrder
  <2>2. r \in Acks(expected_seq..(next - 1))
    BY <1>2, <2>1
  <2>3. r.ack_num \in expected_seq..(next - 1)
    BY <2>2 DEF Acks, AckPkt
  <2> QED
    BY <2>1, <2>3 DEF Held, ReceiverInv, ReceiverTypeOK
<1>7. CASE ReAckDuplicate(p) \/ BufferOutOfOrder(p) \/ DropOnOverflow(p) \/ AckLateData(p)
  <2>1. r \in Acks({p.seq_num})
    BY <1>2, <1>7 DEF ReAckDuplicate, BufferOutOfOrder, DropOnOverflow, AckLateData
  <2>2. r.ack_num = p.seq_num
    BY <2>1 DEF Acks, AckPkt
  <2>3. CASE ReAckDuplicate(p)
    BY <2>2, <2>3 DEF ReAckDuplicate, IsDuplicate, Held, rcvVars, Buffered
  <2>4. CASE BufferOutOfOrder(p)
    BY <2>2, <2>4 DEF BufferOutOfOrder, Held, Buffered
  <2>5. CASE DropOnOverflow(p)
    BY <1>1, <2>5, RoomMeansNotFull DEF DropOnOverflow
  <2>6. CASE AckLateData(p)
    <3>1. NumChunks(session) <= expected_seq /\ expected_seq' = expected_seq
      BY <2>6 DEF AckLateData, InFinLoop, ProgressInv, rcvVars
    <3>2. p.type = "DATA" /\ p # Garbage
      BY <2>6 DEF AckLateData, Garbage
    <3>3. r.ack_num \in Nat /\ NumChunks(session) \in Nat /\ expected_seq \in Nat
      BY <1>1, <2>2, <3>2, NumChunksType, RequestTypes DEF ReceiverInv, ReceiverTypeOK
    <3> QED
      BY <3>1, <3>3 DEF Held
  <2> QED
    BY <1>7, <2>3, <2>4, <2>5, <2>6
<1> QED
  BY <1>3, <1>4, <1>5, <1>6, <1>7
     DEF Receive, IgnoreBeforeStart, IgnoreInData, IgnoreInFin, DrainIgnore,
         DrainCorrupt, DropAtClosedPort, ReceiverReads

LEMMA ReceiverStepKeepsAcked ==
  ASSUME ChannelTypeOK, ReceiverInv, AccountInv, ProgressInv, AnswersInv, AckedInv,
         ReceiverStep \/ InactivityTimeout
  PROVE  AckedInv'
<1> SUFFICES ASSUME Once, session' \in Sessions, RoomFor(session'), Writing',
                    NEW r \in toSender'[session'],
                    r.type = "ACK", r.ack_num < NumChunks(session')
             PROVE  Held(r.ack_num)'
  BY DEF AckedInv, AckedIsHeld, Held, RoomFor
<1>1. toReceiver \subseteq Requests /\ ChannelTypeOK'
  BY ReceiverKeepsChannelType DEF ChannelTypeOK, ReceiverInv
<1>2. r.ack_num \in Nat
  <2>1. r \in Replies
    BY <1>1 DEF ChannelTypeOK
  <2> QED
    BY <2>1 DEF Replies, Garbage
<1>3. CASE Writing
  <2>1. session' = session /\ (Held(r.ack_num) => Held(r.ack_num)')
    BY <1>1, <1>2, <1>3, HeldStays
  <2>2. CASE r \in toSender[session]
    BY <1>3, <2>1, <2>2 DEF AckedInv, AckedIsHeld, Held
  <2>3. CASE r \notin toSender[session]
    <3>1. PICK p \in toReceiver : Receive(p)
      BY <2>1, <2>3 DEF ReceiverStep, DrainEmpty, RaiseBlockingIOError, Rebind,
                        InactivityTimeout, channelVars
    <3>2. session \in Sessions /\ RoomFor(session)
      BY <2>1
    <3>3. r \in toSender'[session] /\ r.ack_num < NumChunks(session)
      BY <2>1
    <3> QED
      BY <1>3, <2>3, <3>1, <3>2, <3>3, AcksAreHeld
  <2> QED
    BY <2>2, <2>3
<1>4. CASE ~Writing
  <2>1. PICK p \in toReceiver : AcceptStart(p)
    BY <1>4, QuietChangesNothing
       DEF ReceiverStep, Receive, Quiet, AcceptInOrder, IsData, BufferOutOfOrder,
           IsNewOutOfOrder, VerifyFin, InFinLoop, DrainCorrupt, DrainEmpty,
           RaiseBlockingIOError, Rebind, InactivityTimeout, Writing, rcvVars
  <2>2. toSender[session'] \subseteq {Garbage}
    BY <2>1, NoAnswersYet DEF AcceptStart, ProgressInv
  <2>3. r \in toSender[session'] \/ r = StartAckPkt(p.session)
    BY <2>1 DEF AcceptStart, Reply, ChannelTypeOK
  <2> QED
    BY <2>2, <2>3 DEF Garbage, StartAckPkt
<1> QED
  BY <1>3, <1>4

-----------------------------------------------------------------------------
(* What the steps of a receiver keep beside ReceiverInv, and every step of  *)
(* another that adds no answer but garbage.                                 *)
ServiceInv == AccountInv /\ ProgressInv /\ AnswersInv /\ AckedInv

LEMMA ServiceStarts ==
  ASSUME ReceiverInit, ChannelInit
  PROVE  ServiceInv
<1>1. AccountInv
  BY AccountStarts
<1>2. ProgressInv
  BY SessionAssumption DEF ReceiverInit, ProgressInv, Writing
<1>3. AnswersInv /\ AckedInv
  BY SessionAssumption DEF ChannelInit, ReceiverInit, AnswersInv, AckedInv
<1> QED
  BY <1>1, <1>2, <1>3 DEF ServiceInv

LEMMA ReceiverStepKeepsService ==
  ASSUME ChannelTypeOK, ReceiverInv, ServiceInv, ReceiverStep \/ InactivityTimeout
  PROVE  ServiceInv'
<1>1. toReceiver \subseteq Requests
  BY DEF ChannelTypeOK
<1> QED
  BY <1>1, ReceiverStepKeepsAccount, ReceiverStepKeepsProgress,
     ReceiverStepKeepsAnswers, ReceiverStepKeepsAcked DEF ServiceInv

LEMMA ServiceStutter ==
  ASSUME ServiceInv, UNCHANGED rcvVars,
         \A s \in Sessions : toSender'[s] \subseteq toSender[s] \cup {Garbage}
  PROVE  ServiceInv'
<1>1. AccountInv' /\ ProgressInv'
  BY AccountStutter, ProgressStutter DEF ServiceInv, rcvVars
<1>2. AnswersInv'
  BY DEF ServiceInv, AnswersInv, rcvVars
<1>3. AckedInv'
  BY DEF ServiceInv, AckedInv, AckedIsHeld, Writing, Buffered, RoomFor, Garbage, rcvVars
<1> QED
  BY <1>1, <1>2, <1>3 DEF ServiceInv
=============================================================================
