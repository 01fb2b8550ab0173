------------------------------ MODULE Receiver ------------------------------
(***************************************************************************)
(* StopAndWaitReceiver, also the receiver of the two windowed engines      *)
(* (app/protocol.py), inside FileReceiver.receive_file (app/transfer.py)   *)
(* and the service loop of app/receiver.py.                                *)
(*                                                                         *)
(* rcv_phase says which recvfrom the thread is blocked in:                 *)
(*   listen   wait_for_handshake                                           *)
(*   data     the loop of receive_file_data that writes chunks             *)
(*   fin      the loop that waits for FIN                                  *)
(*   drain    the non-blocking loop that absorbs duplicate FINs            *)
(*   fin_nb   the FIN loop again, its socket still non-blocking, after a   *)
(*            corrupt datagram threw it out of the drain                   *)
(*   closed   receive_file returned or raised, the socket is closed        *)
(*                                                                         *)
(* All sessions carry the same file name: there is one output path.        *)
(***************************************************************************)
EXTENDS Channel

CONSTANTS
  MaxBufferedPackets,   \* MAX_BUFFERED_PACKETS
  MaxBufferBytes,       \* MAX_BUFFER_BYTES
  Once                  \* BOOLEAN: the --once flag

ASSUME ReceiverAssumption ==
  /\ MaxBufferedPackets \in Nat
  /\ MaxBufferBytes \in Nat
  /\ Once \in BOOLEAN

VARIABLES
  rcv_phase,
  session,                 \* session_id of the accepted START
  expected_seq,
  out_of_order_buffer,     \* a function from buffered seq_num to payload
  current_buffer_bytes,
  output,                  \* the chunks in the file at output_path
  output_exists,           \* output_path.exists()
  outcome                  \* how the last receive_file ended

rcvVars == <<rcv_phase, session, expected_seq, out_of_order_buffer,
             current_buffer_bytes, output, output_exists, outcome>>

Phases   == {"listen", "data", "fin", "drain", "fin_nb", "closed"}
Outcomes == {"none", "verified", "rejected", "timed_out", "raised"}

Payloads == [owner : Sessions, index : Nat, edited : BOOLEAN, len : Nat]

Buffered == DOMAIN out_of_order_buffer

ReceiverTypeOK ==
  /\ rcv_phase \in Phases
  /\ session \in Sessions \cup {NoSession}
  /\ (session = NoSession) => rcv_phase = "listen"
  /\ expected_seq \in Nat
  /\ Buffered \subseteq Nat
  /\ \A n \in Buffered : out_of_order_buffer[n] \in Payloads
  /\ current_buffer_bytes \in Nat
  /\ output \in Seq(Payloads)
  /\ output_exists \in BOOLEAN
  /\ outcome \in Outcomes

ReceiverInit ==
  /\ rcv_phase = "listen"
  /\ session = NoSession
  /\ expected_seq = 0
  /\ out_of_order_buffer = <<>>
  /\ current_buffer_bytes = 0
  /\ output = <<>>
  /\ output_exists = FALSE
  /\ outcome = "none"

-----------------------------------------------------------------------------
(* The handshake *)

PhaseAfter(s, written) == IF written < NumChunks(s) THEN "data" ELSE "fin"

(* Mutant: the accepted session_id is not stored. *)
AcceptStartUnnamed(p) ==
  /\ rcv_phase = "listen" /\ p.type = "START"
  /\ rcv_phase' = PhaseAfter(p.session, 0)
  /\ expected_seq' = 0
  /\ output' = <<>> /\ output_exists' = TRUE
  /\ Reply(p, {StartAckPkt(p.session)})
  /\ UNCHANGED <<session, out_of_order_buffer, current_buffer_bytes, outcome>>

(* wait_for_handshake takes the first START of any session, answers it, and *)
(* receive_file_data opens the output file for writing, which empties it.   *)
AcceptStart(p) ==
  /\ rcv_phase = "listen" /\ p.type = "START"
  /\ session' = p.session
  /\ rcv_phase' = PhaseAfter(p.session, 0)
  /\ expected_seq' = 0
  /\ output' = <<>> /\ output_exists' = TRUE
  /\ Reply(p, {StartAckPkt(p.session)})
  /\ UNCHANGED <<out_of_order_buffer, current_buffer_bytes, outcome>>

IgnoreBeforeStart(p) ==
  /\ rcv_phase = "listen" /\ p.type # "START"
  /\ ReceiverReads(p)
  /\ UNCHANGED rcvVars

-----------------------------------------------------------------------------
(* The data loop *)

IsData(p) == rcv_phase = "data" /\ p.type = "DATA" /\ p.session = session

InWindow(p) == p.seq_num < expected_seq + WindowSize[session]

(* Mutant: the buffered run is left where it is. *)
DrainsNothing(next) == next = expected_seq + 1

(* The buffered chunks that follow expected_seq without a gap end before    *)
(* next: the drain loop stops at the first seq_num it does not find.        *)
DrainsUpTo(next) ==
  /\ (expected_seq + 1)..(next - 1) \subseteq Buffered
  /\ next \notin Buffered

(* len() of the chunks first..last of the session together. *)
BytesOf(first, last) ==
  Offset(ReadSize[session], last + 1) - Offset(ReadSize[session], first)

MaxZero(x) == IF x > 0 THEN x ELSE 0

Acks(ns) == {AckPkt(session, n) : n \in ns}

(* Mutant: the whole buffer is cleared. *)
AcceptInOrderClears(p) ==
  /\ IsData(p) /\ p.seq_num = expected_seq
  /\ \E next \in (expected_seq + 1)..(expected_seq + 1 + Cardinality(Buffered)) :
       /\ DrainsUpTo(next)
       /\ output' = output \o <<p.payload>>
                      \o [i \in 1..(next - 1 - expected_seq) |->
                            out_of_order_buffer[expected_seq + i]]
       /\ out_of_order_buffer' = <<>> /\ current_buffer_bytes' = 0
       /\ expected_seq' = next
       /\ rcv_phase' = PhaseAfter(session, next)
       /\ Reply(p, Acks(expected_seq..(next - 1)))
  /\ UNCHANGED <<session, output_exists, outcome>>

(* In order: the chunk and the buffered run behind it are written, each     *)
(* acknowledged, before the next recvfrom.                                  *)
AcceptInOrder(p) ==
  /\ IsData(p) /\ p.seq_num = expected_seq
  /\ \E next \in (expected_seq + 1)..(expected_seq + 1 + Cardinality(Buffered)) :
       LET run == (expected_seq + 1)..(next - 1) IN
       /\ DrainsUpTo(next)
       /\ output' = output \o <<p.payload>>
                      \o [i \in 1..(next - 1 - expected_seq) |->
                            out_of_order_buffer[expected_seq + i]]
       /\ out_of_order_buffer' = [n \in Buffered \ run |-> out_of_order_buffer[n]]
       /\ current_buffer_bytes' =
            MaxZero(current_buffer_bytes - BytesOf(expected_seq + 1, next - 1))
       /\ expected_seq' = next
       /\ rcv_phase' = PhaseAfter(session, next)
       /\ Reply(p, Acks(expected_seq..(next - 1)))
  /\ UNCHANGED <<session, output_exists, outcome>>

IsDuplicate(p) ==
  /\ IsData(p)
  /\ \/ p.seq_num < expected_seq
     \/ p.seq_num > expected_seq /\ InWindow(p) /\ p.seq_num \in Buffered

(* Mutants: a duplicate is written again; a duplicate is not acknowledged.  *)
WriteDuplicate(p) ==
  /\ IsDuplicate(p)
  /\ output' = Append(output, p.payload)
  /\ Reply(p, Acks({p.seq_num}))
  /\ UNCHANGED <<rcv_phase, session, expected_seq, out_of_order_buffer,
                 current_buffer_bytes, output_exists, outcome>>

DropDuplicate(p) == IsDuplicate(p) /\ ReceiverReads(p) /\ UNCHANGED rcvVars

(* Already written, or already buffered: acknowledged again, nothing else.  *)
ReAckDuplicate(p) ==
  IsDuplicate(p) /\ Reply(p, Acks({p.seq_num})) /\ UNCHANGED rcvVars

IsNewOutOfOrder(p) ==
  IsData(p) /\ p.seq_num > expected_seq /\ InWindow(p) /\ p.seq_num \notin Buffered

(* Mutant: the bytes of the new chunk are not counted. *)
BufferIsOverfull(p) ==
  \/ Cardinality(Buffered) >= MaxBufferedPackets
  \/ current_buffer_bytes > MaxBufferBytes

BufferIsFull(p) ==
  \/ Cardinality(Buffered) >= MaxBufferedPackets
  \/ current_buffer_bytes + p.payload.len > MaxBufferBytes

BufferOutOfOrder(p) ==
  /\ IsNewOutOfOrder(p) /\ ~BufferIsFull(p)
  /\ out_of_order_buffer' =
       [n \in Buffered \cup {p.seq_num} |->
          IF n = p.seq_num THEN p.payload ELSE out_of_order_buffer[n]]
  /\ current_buffer_bytes' = current_buffer_bytes + p.payload.len
  /\ Reply(p, Acks({p.seq_num}))
  /\ UNCHANGED <<rcv_phase, session, expected_seq, output, output_exists, outcome>>

(* The chunk is dropped, and acknowledged all the same. *)
DropOnOverflow(p) ==
  /\ IsNewOutOfOrder(p) /\ BufferIsFull(p)
  /\ Reply(p, Acks({p.seq_num}))
  /\ UNCHANGED rcvVars

(* Mutant: a repeated START opens the file again, for writing. *)
ReAckStartReopens(p) ==
  /\ rcv_phase = "data" /\ p.type = "START" /\ p.session = session
  /\ expected_seq' = 0 /\ output' = <<>>
  /\ Reply(p, {StartAckPkt(session)})
  /\ UNCHANGED <<rcv_phase, session, out_of_order_buffer, current_buffer_bytes,
                 output_exists, outcome>>

(* Mutant: a repeated START is not answered. *)
DropStart(p) ==
  /\ rcv_phase = "data" /\ p.type = "START" /\ p.session = session
  /\ ReceiverReads(p)
  /\ UNCHANGED rcvVars

ReAckStart(p) ==
  /\ rcv_phase = "data" /\ p.type = "START" /\ p.session = session
  /\ Reply(p, {StartAckPkt(session)})
  /\ UNCHANGED rcvVars

(* A chunk beyond the window, a packet of another session, a FIN before its *)
(* time, garbage: read and dropped without an answer.                       *)
IgnoreInData(p) ==
  /\ rcv_phase = "data"
  /\ \/ p = Garbage
     \/ p # Garbage /\ p.session # session
     \/ p.type = "FIN"
     \/ IsData(p) /\ ~InWindow(p)
  /\ ReceiverReads(p)
  /\ UNCHANGED rcvVars

-----------------------------------------------------------------------------
(* The FIN loop *)

InFinLoop == rcv_phase \in {"fin", "fin_nb"}

(* Mutant: the partial file stays. *)
LeaveFile == UNCHANGED <<output, output_exists>>

Unlink == output' = <<>> /\ output_exists' = FALSE

(* Mutant: FIN is confirmed before the file is hashed. *)
ConfirmThenVerify(p) ==
  /\ InFinLoop /\ p.type = "FIN" /\ p.session = session
  /\ Reply(p, {FinAckPkt(session, TRUE)})
  /\ IF output = Source(session)
     THEN rcv_phase' = "drain" /\ outcome' = "verified"
          /\ UNCHANGED <<output, output_exists>>
     ELSE rcv_phase' = "closed" /\ outcome' = "rejected" /\ Unlink
  /\ UNCHANGED <<session, expected_seq, out_of_order_buffer, current_buffer_bytes>>

(* The file is hashed where it lies on disk and compared with the hash of   *)
(* the source: the answer says which, a mismatch deletes the file.          *)
VerifyFin(p) ==
  LET is_verified == output = Source(session) IN
  /\ InFinLoop /\ p.type = "FIN" /\ p.session = session
  /\ Reply(p, {FinAckPkt(session, is_verified)})
  /\ IF is_verified
     THEN rcv_phase' = "drain" /\ outcome' = "verified"
          /\ UNCHANGED <<output, output_exists>>
     ELSE rcv_phase' = "closed" /\ outcome' = "rejected" /\ Unlink
  /\ UNCHANGED <<session, expected_seq, out_of_order_buffer, current_buffer_bytes>>

(* Mutant: DATA is answered in the name of its own session. *)
AckLateDataOfAnybody(p) ==
  /\ InFinLoop /\ p.type = "DATA"
  /\ Reply(p, {AckPkt(p.session, p.seq_num)})
  /\ UNCHANGED rcvVars

(* Whatever session the DATA is of, the answer bears the active session.    *)
AckLateData(p) ==
  /\ InFinLoop /\ p.type = "DATA"
  /\ Reply(p, Acks({p.seq_num}))
  /\ UNCHANGED rcvVars

IgnoreInFin(p) ==
  /\ InFinLoop
  /\ \/ p.type \in {"START", "CORRUPT"}
     \/ p.type = "FIN" /\ p.session # session
  /\ ReceiverReads(p)
  /\ UNCHANGED rcvVars

DrainFin(p) ==
  /\ rcv_phase = "drain" /\ p.type = "FIN" /\ p.session = session
  /\ Reply(p, {FinAckPkt(session, TRUE)})
  /\ UNCHANGED rcvVars

DrainIgnore(p) ==
  /\ rcv_phase = "drain" /\ p # Garbage
  /\ ~(p.type = "FIN" /\ p.session = session)
  /\ ReceiverReads(p)
  /\ UNCHANGED rcvVars

(* PacketError is not among the exceptions the drain catches: the handler   *)
(* of the FIN loop does, and the loop goes on without a timeout.            *)
DrainCorrupt(p) ==
  /\ rcv_phase = "drain" /\ p = Garbage
  /\ rcv_phase' = "fin_nb"
  /\ ReceiverReads(p)
  /\ UNCHANGED <<session, expected_seq, out_of_order_buffer,
                 current_buffer_bytes, output, output_exists, outcome>>

(* recvfrom finds the socket empty and receive_file_data returns True. *)
DrainEmpty ==
  /\ rcv_phase = "drain"
  /\ rcv_phase' = "closed"
  /\ UNCHANGED <<session, expected_seq, out_of_order_buffer,
                 current_buffer_bytes, output, output_exists, outcome>>
  /\ UNCHANGED channelVars

(* The same in the FIN loop: BlockingIOError leaves receive_file. *)
RaiseBlockingIOError ==
  /\ rcv_phase = "fin_nb"
  /\ rcv_phase' = "closed" /\ outcome' = "raised"
  /\ UNCHANGED <<session, expected_seq, out_of_order_buffer,
                 current_buffer_bytes, output, output_exists>>
  /\ UNCHANGED channelVars

(* Mutant: the FIN loop waits without a timeout. *)
InactivityTimeoutInData ==
  /\ rcv_phase = "data"
  /\ rcv_phase' = "closed" /\ outcome' = "timed_out" /\ Unlink
  /\ UNCHANGED <<session, expected_seq, out_of_order_buffer, current_buffer_bytes>>
  /\ UNCHANGED channelVars

(* 15 seconds without a datagram, in either loop. *)
InactivityTimeout ==
  /\ rcv_phase \in {"data", "fin"}
  /\ rcv_phase' = "closed" /\ outcome' = "timed_out" /\ Unlink
  /\ UNCHANGED <<session, expected_seq, out_of_order_buffer, current_buffer_bytes>>
  /\ UNCHANGED channelVars

-----------------------------------------------------------------------------
(* Between two calls of receive_file *)

(* What reaches the port while no socket is bound to it is gone. *)
DropAtClosedPort(p) ==
  /\ rcv_phase = "closed"
  /\ ReceiverReads(p)
  /\ UNCHANGED rcvVars

(* Mutant: the receiver object, with its buffer, serves the next session. *)
RebindKeepsBuffer ==
  /\ rcv_phase = "closed" /\ ~Once
  /\ rcv_phase' = "listen"
  /\ session' = NoSession
  /\ expected_seq' = 0
  /\ UNCHANGED <<out_of_order_buffer, current_buffer_bytes, output, output_exists, outcome>>
  /\ UNCHANGED channelVars

(* The service loop calls receive_file again, with a fresh receiver. *)
Rebind ==
  /\ rcv_phase = "closed" /\ ~Once
  /\ rcv_phase' = "listen"
  /\ session' = NoSession
  /\ expected_seq' = 0
  /\ out_of_order_buffer' = <<>>
  /\ current_buffer_bytes' = 0
  /\ UNCHANGED <<output, output_exists, outcome>>
  /\ UNCHANGED channelVars

Receive(p) ==
  \/ AcceptStart(p) \/ IgnoreBeforeStart(p)
  \/ AcceptInOrder(p) \/ ReAckDuplicate(p) \/ BufferOutOfOrder(p)
  \/ DropOnOverflow(p) \/ ReAckStart(p) \/ IgnoreInData(p)
  \/ VerifyFin(p) \/ AckLateData(p) \/ IgnoreInFin(p)
  \/ DrainFin(p) \/ DrainIgnore(p) \/ DrainCorrupt(p)
  \/ DropAtClosedPort(p)

ReceiverStep ==
  \/ \E p \in toReceiver : Receive(p)
  \/ DrainEmpty
  \/ RaiseBlockingIOError
  \/ Rebind
-----------------------------------------------------------------------------
(* Properties *)

Writing == rcv_phase \in {"data", "fin", "drain", "fin_nb"}

(* Reassembly: whatever the order, loss or duplication of datagrams, the    *)
(* file under construction is the first expected_seq chunks of the accepted *)
(* session, each once, none of another session                              *)
(* (receive_file_data, the in-order write and the drain loop).              *)
OutputIsPrefix ==
  Writing => output_exists /\ output = FirstChunks(session, expected_seq)

(* The out-of-order buffer holds chunks of the accepted session under their *)
(* own number, all strictly ahead of expected_seq and inside the window: a  *)
(* stale entry would be written twice or never be freed.                    *)
BufferIsAhead ==
  Writing => \A n \in Buffered :
               /\ expected_seq < n /\ n < expected_seq + WindowSize[session]
               /\ out_of_order_buffer[n] = ReadChunk(session, n)

(* The bytes in the buffer, each known by its place in the file.            *)
HeldBytes ==
  UNION {(n * PayloadSize)..(n * PayloadSize + out_of_order_buffer[n].len - 1) : n \in Buffered}

(* The memory limits hold for the bytes really held, not only for the       *)
(* counter: current_buffer_bytes is maintained by += in one branch and by a *)
(* clamped -= in another (protocol.py:1114 and 1155).                       *)
BufferWithinLimits ==
  /\ current_buffer_bytes = Cardinality(HeldBytes)
  /\ current_buffer_bytes <= MaxBufferBytes
  /\ Cardinality(Buffered) <= MaxBufferedPackets

(* The file outlives receive_file only whole: after success, or after the   *)
(* exception that may follow success, it is the source as it was hashed;    *)
(* after a mismatch or 15 silent seconds it has been unlinked.              *)
FileIsWholeOrGone ==
  rcv_phase = "closed" =>
    IF outcome \in {"verified", "raised"}
    THEN output_exists /\ output = Source(session)
    ELSE ~output_exists

(* An ACK is a promise: a chunk of the accepted session that was            *)
(* acknowledged is in the file or in the buffer as long as the session is   *)
(* served (docs/troubleshooting.md:17 says the sender resends the others).  *)
AckedIsHeld ==
  Writing => \A r \in toSender[session] :
    r.type = "ACK" /\ r.ack_num < NumChunks(session) =>
      r.ack_num < expected_seq \/ r.ack_num \in Buffered

(* A sender whose session this call of receive_file did not accept is never *)
(* sent anything it could take for an answer: not in the handshake, not by  *)
(* the FIN loop, which acknowledges the DATA of anybody (protocol.py:1238). *)
OnlyTheAcceptedAreAnswered ==
  Once => \A s \in Sessions \ {session} : \A r \in toSender[s] \ {Garbage} :
            r.session # s

(* A positive FIN_ACK tells the truth for as long as it can be read: the    *)
(* file of the session it confirms is on disk, equal to the source.         *)
ConfirmedIsOnDisk ==
  \A s \in Sessions : FinAckPkt(s, TRUE) \in toSender[s] =>
    output_exists /\ output = Source(s)
=============================================================================
