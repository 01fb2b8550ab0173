------------------------- MODULE ReceiverOpenProofs -------------------------
(***************************************************************************)
(* What the runs of ReceiverOpen check on four sessions, for every set of  *)
(* sessions, file, window, buffer limit and set of datagrams in flight.    *)
(***************************************************************************)
EXTENDS ReceiverOpen, ReceiverProofs

(* The inductive invariant: the receiver's own books, the datagrams, what a *)
(* positive FIN_ACK in flight says about them, and what any answer does.    *)
IInv == ChannelTypeOK /\ ReceiverInv /\ ConfirmInv /\ ServiceInv

LEMMA InitIInv == Init => IInv
<1> SUFFICES ASSUME Init PROVE IInv
  OBVIOUS
<1>1. ChannelTypeOK
  BY ChannelAssumption DEF Init, ChannelInit, ChannelTypeOK
<1>2. ReceiverInv
  BY ReceiverStartsRight DEF Init
<1>3. ConfirmInv
  BY DEF Init, ChannelInit, ConfirmInv
<1>4. ServiceInv
  BY ServiceStarts DEF Init
<1> QED
  BY <1>1, <1>2, <1>3, <1>4 DEF IInv

LEMMA NextIInv == IInv /\ [Next]_vars => IInv'
<1> SUFFICES ASSUME IInv, [Next]_vars PROVE IInv'
  OBVIOUS
<1>1. CASE Next
  <2>1. ChannelTypeOK'
    BY <1>1, ReceiverKeepsChannelType DEF IInv, ReceiverInv, Next
  <2>2. ReceiverInv'
    BY <1>1, ReceiverStepKeepsInv DEF IInv, ChannelTypeOK, Next
  <2>3. ConfirmInv'
    BY <1>1, ReceiverStepKeepsConfirmInv DEF IInv, Next
  <2>4. ServiceInv'
    BY <1>1, ReceiverStepKeepsService DEF IInv, Next
  <2> QED
    BY <2>1, <2>2, <2>3, <2>4 DEF IInv
<1>2. CASE UNCHANGED vars
  <2>1. UNCHANGED channelVars /\ UNCHANGED rcvVars
    BY <1>2 DEF vars
  <2>2. ReceiverInv'
    BY <2>1, ReceiverStutter DEF IInv
  <2>3. ChannelTypeOK' /\ ConfirmInv'
    BY <2>1 DEF IInv, ChannelTypeOK, ConfirmInv, channelVars, rcvVars
  <2>4. ServiceInv'
    BY <2>1, ServiceStutter DEF IInv, channelVars
  <2> QED
    BY <2>2, <2>3, <2>4 DEF IInv
<1> QED
  BY <1>1, <1>2

LEMMA SpecIInv == Spec => []IInv
BY InitIInv, NextIInv, PTL DEF Spec

(* Type correctness of the receiver and of what is in flight.               *)
THEOREM ReceiverTypeCorrect == Spec => []TypeOK
<1>1. IInv => TypeOK
  BY DEF IInv, ReceiverInv, TypeOK
<1> QED
  BY <1>1, SpecIInv, PTL

(* Reassembly (receive_file_data, protocol.py:1102-1164): whatever arrives, *)
(* in whatever order and however often, the file under construction is the  *)
(* first expected_seq chunks of the accepted session.                       *)
THEOREM ReassemblyIsCorrect == Spec => []OutputIsPrefix
<1>1. IInv => OutputIsPrefix
  BY DEF IInv, ReceiverInv
<1> QED
  BY <1>1, SpecIInv, PTL

(* The out-of-order buffer never holds a stale, foreign or out-of-window    *)
(* chunk.                                                                   *)
THEOREM BufferStaysAhead == Spec => []BufferIsAhead
<1>1. IInv => BufferIsAhead
  BY DEF IInv, ReceiverInv
<1> QED
  BY <1>1, SpecIInv, PTL

(* When receive_file has ended, by return or by exception, the file is the  *)
(* source as it was hashed or it is not there.                              *)
THEOREM NoPartialFileRemains == Spec => []FileIsWholeOrGone
<1>1. IInv => FileIsWholeOrGone
  BY DEF IInv, ReceiverInv
<1> QED
  BY <1>1, SpecIInv, PTL

(* With --once, a sender that can still read a positive FIN_ACK finds its   *)
(* file on the receiver's disk.  Without it the next session may overwrite  *)
(* the file (the run ServiceOverwrites).                                    *)
THEOREM ConfirmationIsTrue == Once /\ Spec => []ConfirmedIsOnDisk
<1>1. Once /\ IInv => ConfirmedIsOnDisk
  BY ConfirmInvMeansOnDisk DEF IInv
<1>2. CASE Once
  <2>1. IInv => ConfirmedIsOnDisk
    BY <1>1, <1>2
  <2> QED
    BY <2>1, SpecIInv, PTL
<1> QED
  BY <1>2

(* The memory limits hold for the bytes that are really in the buffer, the  *)
(* counter being exact: the clamp in its subtraction never bites            *)
(* (protocol.py:1114, 1147 and 1155).                                       *)
THEOREM BufferIsWithinLimits == Spec => []BufferWithinLimits
<1>1. IInv => BufferWithinLimits
  BY DEF IInv, ServiceInv, AccountInv
<1> QED
  BY <1>1, SpecIInv, PTL

(* A sender whose session was not accepted cannot mistake anything sent to  *)
(* it for an answer, though the FIN loop acknowledges the DATA of anybody   *)
(* (protocol.py:1238).                                                      *)
THEOREM StrangersAreNotAnswered == Spec => []OnlyTheAcceptedAreAnswered
<1>1. IInv => OnlyTheAcceptedAreAnswered
  BY AnswersInvMeansOnly DEF IInv, ServiceInv
<1> QED
  BY <1>1, SpecIInv, PTL

(* An ACK is a promise the receiver keeps, if its buffer has room for the   *)
(* windows that are announced.  Without that it is false: an overflowing    *)
(* chunk is acknowledged and dropped (the run OverflowAcked).               *)
THEOREM AcknowledgedIsHeld ==
  Once /\ (\A s \in Sessions : RoomFor(s)) /\ Spec => []AckedIsHeld
<1> DEFINE Given == Once /\ \A s \in Sessions : RoomFor(s)
<1>1. CASE Given
  <2>1. IInv => AckedIsHeld
    <3> SUFFICES ASSUME IInv, Writing PROVE AckedIsHeld
      BY DEF AckedIsHeld
    <3>1. session \in Sessions
      BY DEF IInv, ReceiverInv, ReceiverTypeOK, Writing
    <3> QED
      BY <1>1, <3>1 DEF IInv, ServiceInv, AckedInv
  <2> QED
    BY <2>1, SpecIInv, PTL
<1>2. CASE ~Given
  BY <1>2
<1> QED
  BY <1>1, <1>2

-----------------------------------------------------------------------------
(* The file service *)

(* A session that was verified in this call was told so.                    *)
TellInv == Confirming => session \in Told

(* Nothing takes an answer back: there is no sender here to read it.        *)
LEMMA AnswersStay ==
  ASSUME ChannelTypeOK, ReceiverStep \/ InactivityTimeout, NEW s \in Sessions
  PROVE  toSender[s] \subseteq toSender'[s]
<1>1. ASSUME NEW p \in toReceiver, Receive(p)
      PROVE  toSender[s] \subseteq toSender'[s]
  <2>1. CASE UNCHANGED toSender
    BY <2>1
  <2>2. CASE \E answers : Reply(p, answers)
    BY <2>2 DEF Reply, ChannelTypeOK
  <2> QED
    BY <1>1, <2>1, <2>2, AnswerOfStep
<1> QED
  BY <1>1 DEF ReceiverStep, DrainEmpty, RaiseBlockingIOError, Rebind, InactivityTimeout,
              channelVars

(* An answer that confirms nothing leaves Told as it is.                    *)
LEMMA ToldAfterOtherAnswers ==
  ASSUME ChannelTypeOK, NEW p, NEW answers, Reply(p, answers),
         \A r \in answers : \A s \in Sessions : r # FinAckPkt(s, TRUE)
  PROVE  Told' = Told
<1>1. toSender \in [Sessions -> SUBSET Replies]
  BY DEF ChannelTypeOK
<1>2. ASSUME NEW s \in Sessions
      PROVE  FinAckPkt(s, TRUE) \in toSender'[s] <=> FinAckPkt(s, TRUE) \in toSender[s]
  <2>1. FinAckPkt(s, TRUE) \in toSender'[s] => FinAckPkt(s, TRUE) \in toSender[s]
    BY <1>1, OtherAnswers
  <2>2. toSender[s] \subseteq toSender'[s]
    BY <1>1 DEF Reply
  <2> QED
    BY <2>1, <2>2
<1> QED
  BY <1>2 DEF Told

(* An answer that confirms the session adds it.                             *)
LEMMA ToldAfterConfirmation ==
  ASSUME ChannelTypeOK, session \in Sessions, NEW p, p.session = session,
         Reply(p, {FinAckPkt(session, TRUE)})
  PROVE  Told' = Told \cup {session}
<1>1. /\ toSender \in [Sessions -> SUBSET Replies]
      /\ toSender' = [toSender EXCEPT ![session] = @ \cup {FinAckPkt(session, TRUE)}]
  BY DEF ChannelTypeOK, Reply
<1>2. ASSUME NEW s \in Sessions
      PROVE  FinAckPkt(s, TRUE) \in toSender'[s]
               <=> (FinAckPkt(s, TRUE) \in toSender[s] \/ s = session)
  <2>1. CASE s = session
    BY <1>1, <2>1
  <2>2. CASE s # session
    BY <1>1, <2>2
  <2> QED
    BY <2>1, <2>2
<1> QED
  BY <1>2 DEF Told

(* Only the answer to FIN confirms, and it confirms the session served.     *)
LEMMA ToldAfterStep ==
  ASSUME ChannelTypeOK, TellInv, NEW p \in toReceiver, Receive(p), ~VerifyFin(p)
  PROVE  Told' = Told
<1>1. toReceiver \subseteq Requests
  BY DEF ChannelTypeOK
<1>2. CASE UNCHANGED toSender
  BY <1>2 DEF Told
<1>3. CASE AcceptStart(p) \/ ReAckStart(p)
  <2>1. PICK t : Reply(p, {StartAckPkt(t)})
    BY <1>3 DEF AcceptStart, ReAckStart
  <2>2. \A r \in {StartAckPkt(t)} : \A s \in Sessions : r # FinAckPkt(s, TRUE)
    BY DEF StartAckPkt, FinAckPkt
  <2> QED
    BY <2>1, <2>2, ToldAfterOtherAnswers
<1>4. CASE \/ AcceptInOrder(p) \/ ReAckDuplicate(p) \/ BufferOutOfOrder(p)
           \/ DropOnOverflow(p) \/ AckLateData(p)
  <2>1. PICK ns : Reply(p, Acks(ns))
    BY <1>4 DEF AcceptInOrder, ReAckDuplicate, BufferOutOfOrder, DropOnOverflow, AckLateData
  <2>2. \A r \in Acks(ns) : \A s \in Sessions : r # FinAckPkt(s, TRUE)
    BY DEF Acks, AckPkt, FinAckPkt
  <2> QED
    BY <2>1, <2>2, ToldAfterOtherAnswers
<1>5. CASE DrainFin(p)
  <2>1. p # Garbage /\ p.session = session /\ Reply(p, {FinAckPkt(session, TRUE)}) /\ Confirming
    BY <1>5 DEF DrainFin, Garbage, Confirming
  <2>2. session \in Sessions
    BY <1>1, <2>1, RequestTypes
  <2>3. Told' = Told \cup {session}
    BY <2>1, <2>2, ToldAfterConfirmation
  <2> QED
    BY <2>1, <2>3 DEF TellInv
<1> QED
  BY <1>2, <1>3, <1>4, <1>5
     DEF Receive, IgnoreBeforeStart, IgnoreInData, IgnoreInFin, DrainIgnore, DrainCorrupt,
         DropAtClosedPort, ReceiverReads

(* The verdict: confirmed and told, or deleted and not told.                *)
LEMMA VerdictOfFin ==
  ASSUME ChannelTypeOK, ReceiverInv, NEW p \in toReceiver, VerifyFin(p)
  PROVE  /\ Writing /\ session \in Sessions /\ session' = session /\ output_exists
         /\ \/ /\ output = Source(session) /\ UNCHANGED <<output, output_exists>>
               /\ rcv_phase' = "drain" /\ Told' = Told \cup {session}
            \/ /\ rcv_phase = "fin" /\ rcv_phase' = "closed" /\ Unlink
               /\ Told' = Told
<1>1. /\ InFinLoop /\ p # Garbage /\ p.session = session /\ session' = session
      /\ Reply(p, {FinAckPkt(session, output = Source(session))})
  BY DEF VerifyFin, Garbage
<1>2. session \in Sessions /\ Writing
  BY <1>1, RequestTypes DEF ChannelTypeOK, InFinLoop, Writing
<1>3. output_exists
  BY <1>2 DEF ReceiverInv, OutputIsPrefix
<1>4. CASE output = Source(session)
  <2>1. Reply(p, {FinAckPkt(session, TRUE)})
    <3>1. (output = Source(session)) = TRUE
      BY <1>4
    <3> QED
      BY <1>1, <3>1
  <2>2. Told' = Told \cup {session}
    BY <1>1, <1>2, <2>1, ToldAfterConfirmation
  <2>3. rcv_phase' = "drain" /\ UNCHANGED <<output, output_exists>>
    BY <1>4 DEF VerifyFin
  <2> QED
    BY <1>1, <1>2, <1>3, <1>4, <2>2, <2>3
<1>5. CASE output # Source(session)
  <2>1. Reply(p, {FinAckPkt(session, FALSE)})
    <3>1. (output = Source(session)) = FALSE
      BY <1>5
    <3> QED
      BY <1>1, <3>1
  <2>2. \A r \in {FinAckPkt(session, FALSE)} : \A s \in Sessions : r # FinAckPkt(s, TRUE)
    BY DEF FinAckPkt
  <2>3. Told' = Told
    BY <2>1, <2>2, ToldAfterOtherAnswers
  <2>4. rcv_phase' = "closed" /\ Unlink
    BY <1>5 DEF VerifyFin
  <2>5. rcv_phase = "fin"
    BY <1>1, <1>5 DEF InFinLoop, ReceiverInv
  <2> QED
    BY <1>1, <1>2, <1>3, <2>3, <2>4, <2>5
<1> QED
  BY <1>4, <1>5

LEMMA StepKeepsTell == IInv /\ TellInv /\ [Next]_vars => TellInv'
<1> SUFFICES ASSUME IInv, TellInv, [Next]_vars, Confirming' PROVE session' \in Told'
  BY DEF TellInv
<1> USE DEF IInv
<1>1. CASE UNCHANGED <<rcv_phase, session>> /\ Told \subseteq Told'
  BY <1>1 DEF TellInv, Confirming
<1>2. ASSUME NEW p \in toReceiver, Receive(p) PROVE session' \in Told'
  <2>1. CASE VerifyFin(p)
    BY <2>1, VerdictOfFin DEF Confirming
  <2>2. CASE Quiet(p) \/ BufferOutOfOrder(p) \/ DrainCorrupt(p)
    <3>1. Told' = Told
      BY <1>2, <2>2, ToldAfterStep
         DEF Quiet, BufferOutOfOrder, IsNewOutOfOrder, IsData, DrainCorrupt, VerifyFin, Garbage,
             InFinLoop, IgnoreBeforeStart, ReAckDuplicate, IsDuplicate, DropOnOverflow,
             ReAckStart, IgnoreInData, AckLateData, IgnoreInFin, DrainFin, DrainIgnore,
             DropAtClosedPort
    <3>2. session' = session /\ (Confirming' => Confirming)
      BY <2>2, QuietChangesNothing DEF BufferOutOfOrder, DrainCorrupt, rcvVars, Confirming
    <3> QED
      BY <3>1, <3>2 DEF TellInv
  <2>3. CASE AcceptStart(p) \/ AcceptInOrder(p)
    BY <2>3 DEF AcceptStart, AcceptInOrder, PhaseAfter, Confirming
  <2> QED
    BY <1>2, <2>1, <2>2, <2>3 DEF Receive, Quiet
<1>3. CASE DrainEmpty \/ RaiseBlockingIOError \/ Rebind \/ InactivityTimeout
  BY <1>3 DEF DrainEmpty, RaiseBlockingIOError, Rebind, InactivityTimeout, Confirming
<1>4. CASE UNCHANGED vars
  BY <1>1, <1>4 DEF vars, channelVars, rcvVars, Told
<1> QED
  BY <1>2, <1>3, <1>4 DEF Next, ReceiverStep

LEMMA PromiseOfServiceStarts == Init => Service!Init /\ TellInv
<1> SUFFICES ASSUME Init PROVE Service!Init /\ TellInv
  OBVIOUS
<1>1. rcv_phase = "listen" /\ output = <<>> /\ output_exists = FALSE
  BY DEF Init, ReceiverInit
<1>2. Confirming = FALSE /\ Served = NoSession
  BY <1>1 DEF Confirming, Served, Writing
<1>3. Told = {}
  BY DEF Init, ChannelInit, Told
<1> QED
  BY <1>1, <1>2, <1>3 DEF Service!Init, TellInv

(* What the file of the session that is served may still become.            *)
LEMMA ExtendStep ==
  ASSUME IInv, TellInv, NEW p \in toReceiver, AcceptInOrder(p)
  PROVE  Service!Extend
<1> USE DEF IInv
<1>1. /\ p \in Requests /\ ProgressInv /\ rcv_phase = "data"
      /\ rcv_phase' \in {"data", "fin"} /\ UNCHANGED <<session, output_exists>>
  BY DEF ChannelTypeOK, ServiceInv, AcceptInOrder, IsData, PhaseAfter
<1>2. /\ session \in Sessions /\ expected_seq' \in Nat /\ expected_seq < expected_seq'
      /\ expected_seq' <= NumChunks(session) /\ expected_seq' <= Readable(session)
  BY <1>1, DrainStaysInFile
<1>3. ReceiverInv'
  BY <1>1, AcceptInOrderStep
<1>4. /\ output = FirstChunks(session, expected_seq)
      /\ output' = FirstChunks(session, expected_seq') /\ expected_seq \in Nat
  BY <1>1, <1>3 DEF ReceiverInv, OutputIsPrefix, Writing, ReceiverTypeOK
<1>5. Served = session /\ Served' = session /\ ~Confirming /\ ~Confirming'
  BY <1>1 DEF Served, Writing, Confirming
<1>6. Told' = Told
  <2>1. ~VerifyFin(p)
    BY <1>1 DEF VerifyFin, InFinLoop
  <2>2. Receive(p)
    BY DEF Receive
  <2> QED
    BY <2>1, <2>2, ToldAfterStep
<1> DEFINE size == IF NumChunks(session) <= Readable(session)
                   THEN NumChunks(session) ELSE Readable(session)
<1>7. size \in Nat /\ expected_seq' \in (expected_seq + 1)..size
  BY <1>2, <1>4, NumChunksType
<1>8. Expected(session) = FirstChunks(session, size)
  BY DEF Expected
<1> HIDE DEF size
<1>9. output' = SubSeq(Expected(session), 1, expected_seq')
  BY <1>2, <1>4, <1>7, <1>8, PrefixOfFirstChunks
<1>10. Len(output) = expected_seq /\ Len(Expected(session)) = size
  BY <1>2, <1>4, <1>7, <1>8, FirstChunksAreSeq
<1>11. session # NoSession
  BY <1>2, SessionAssumption
<1>12. [t \in Sessions |-> Expected(t)][Served] = Expected(session)
  BY <1>2, <1>5
<1>13. \E k \in (Len(output) + 1)..Len(Expected(session)) :
         output' = SubSeq(Expected(session), 1, k)
  BY <1>7, <1>9, <1>10
<1>14. Service!InHand
  BY <1>5, <1>11 DEF Service!InHand
<1>15. UNCHANGED <<Served, output_exists, Confirming, Told>>
  <2>1. Served' = Served /\ Told' = Told /\ output_exists' = output_exists
    BY <1>1, <1>5, <1>6
  <2>2. Confirming' = Confirming
    BY <1>1 DEF Confirming
  <2> QED
    BY <2>1, <2>2
<1> QED
  BY <1>12, <1>13, <1>14, <1>15 DEF Service!Extend

LEMMA VerdictStep ==
  ASSUME IInv, TellInv, NEW p \in toReceiver, VerifyFin(p)
  PROVE  [Service!Next]_(Service!vars)
<1>1. /\ Writing /\ session \in Sessions /\ session' = session /\ output_exists
      /\ \/ /\ output = Source(session) /\ UNCHANGED <<output, output_exists>>
            /\ rcv_phase' = "drain" /\ Told' = Told \cup {session}
         \/ /\ rcv_phase = "fin" /\ rcv_phase' = "closed" /\ Unlink
            /\ Told' = Told
  BY VerdictOfFin DEF IInv
<1>2. session # NoSession /\ Served = session
  BY <1>1, SessionAssumption DEF Served
<1>3. CASE rcv_phase' = "drain"
  <2>1. /\ Served' = session /\ Confirming' = TRUE
        /\ output = Source(session) /\ UNCHANGED <<output, output_exists>>
        /\ Told' = Told \cup {session}
    BY <1>1, <1>3 DEF Served, Writing, Confirming
  <2>2. CASE Confirming
    <3>1. Told' = Told
      BY <2>1, <2>2 DEF TellInv
    <3>2. Confirming' = Confirming
      BY <2>1, <2>2 DEF Confirming
    <3> QED
      BY <1>2, <2>1, <3>1, <3>2 DEF Service!vars
  <2>3. CASE ~Confirming
    <3>1. [s \in Sessions |-> Source(s)][Served] = Source(session)
      BY <1>1, <1>2
    <3>2. Service!Confirm
      BY <1>1, <1>2, <2>1, <2>3, <3>1 DEF Service!Confirm, Service!InHand
    <3> QED
      BY <3>2 DEF Service!Next
  <2> QED
    BY <2>2, <2>3
<1>4. CASE rcv_phase' = "closed"
  <2>1. /\ Served' = NoSession /\ Confirming = FALSE /\ Confirming' = FALSE
        /\ Unlink /\ Told' = Told
    BY <1>1, <1>4 DEF Served, Writing, Confirming
  <2>2. Service!Discard
    BY <1>2, <2>1 DEF Service!Discard, Service!InHand, Unlink
  <2> QED
    BY <2>2 DEF Service!Next
<1> QED
  BY <1>1, <1>3, <1>4

LEMMA StepKeepsService == IInv /\ TellInv /\ [Next]_vars => [Service!Next]_(Service!vars)
<1> SUFFICES ASSUME IInv, TellInv, [Next]_vars PROVE [Service!Next]_(Service!vars)
  OBVIOUS
<1>1. ASSUME NEW p \in toReceiver, Receive(p)
      PROVE  [Service!Next]_(Service!vars)
  <2>1. CASE VerifyFin(p)
    BY <2>1, VerdictStep
  <2>2. CASE AcceptInOrder(p)
    BY <2>2, ExtendStep DEF Service!Next
  <2> SUFFICES ASSUME ~VerifyFin(p), ~AcceptInOrder(p) PROVE [Service!Next]_(Service!vars)
    BY <2>1, <2>2
  <2>3. Told' = Told
    BY <1>1, ToldAfterStep DEF IInv
  <2>4. CASE AcceptStart(p)
    <3>1. p \in Requests /\ p # Garbage /\ rcv_phase = "listen" /\ session' = p.session
          /\ rcv_phase' \in {"data", "fin"} /\ output' = <<>> /\ output_exists' = TRUE
      BY <2>4 DEF AcceptStart, PhaseAfter, Garbage, IInv, ChannelTypeOK
    <3>2. p.session \in Sessions
      BY <3>1, RequestTypes
    <3>3. Served = NoSession /\ Served' = p.session /\ Confirming = FALSE /\ Confirming' = FALSE
      BY <3>1 DEF Served, Writing, Confirming
    <3>4. Service!Open
      BY <2>3, <3>1, <3>2, <3>3 DEF Service!Open
    <3> QED
      BY <3>4 DEF Service!Next
  <2>5. CASE Quiet(p) \/ BufferOutOfOrder(p)
    <3>1. UNCHANGED <<rcv_phase, session, output, output_exists>>
      BY <2>5, QuietChangesNothing DEF BufferOutOfOrder, rcvVars
    <3> QED
      BY <2>3, <3>1 DEF Service!vars, Served, Writing, Confirming
  <2>6. CASE DrainCorrupt(p)
    <3>1. rcv_phase = "drain" /\ rcv_phase' = "fin_nb" /\ UNCHANGED <<session, output, output_exists>>
      BY <2>6 DEF DrainCorrupt
    <3> QED
      BY <2>3, <3>1 DEF Service!vars, Served, Writing, Confirming
  <2> QED
    BY <1>1, <2>4, <2>5, <2>6 DEF Receive, Quiet
<1>2. CASE DrainEmpty \/ RaiseBlockingIOError
  <2>1. /\ rcv_phase \in {"drain", "fin_nb"} /\ rcv_phase' = "closed"
        /\ UNCHANGED <<output, output_exists, toSender>>
    BY <1>2 DEF DrainEmpty, RaiseBlockingIOError, channelVars
  <2>2. Confirming = TRUE /\ Confirming' = FALSE
    BY <2>1 DEF Confirming
  <2>3. Served' = NoSession /\ Told' = Told
    BY <2>1 DEF Served, Writing, Told
  <2>4. Service!Leave
    BY <2>1, <2>2, <2>3 DEF Service!Leave
  <2> QED
    BY <2>4 DEF Service!Next
<1>3. CASE InactivityTimeout
  <2>1. /\ Confirming = FALSE /\ Confirming' = FALSE /\ Served = session /\ Served' = NoSession
        /\ Unlink /\ Told' = Told
    BY <1>3 DEF InactivityTimeout, Confirming, Served, Writing, Told, channelVars
  <2>2. session # NoSession
    BY <1>3 DEF InactivityTimeout, IInv, ReceiverInv, ReceiverTypeOK
  <2>3. Service!Discard
    BY <2>1, <2>2 DEF Service!Discard, Service!InHand, Unlink
  <2> QED
    BY <2>3 DEF Service!Next
<1>4. CASE Rebind
  BY <1>4 DEF Rebind, Service!vars, Served, Writing, Confirming, Told, channelVars
<1>5. CASE UNCHANGED vars
  BY <1>5 DEF vars, channelVars, rcvVars, Service!vars, Served, Writing, Confirming, Told
<1> QED
  BY <1>1, <1>2, <1>3, <1>4, <1>5 DEF Next, ReceiverStep

(* The receiver implements FileService, in its service loop as with --once, *)
(* whatever arrives: nobody is told that his file is whole unless it is, a  *)
(* file that was confirmed is left untouched to the end of its call, and    *)
(* one that was not is gone (receive_file, receive_file_data).              *)
THEOREM ServiceKeepsPromise == Spec => ImplementsService
<1>1. Spec => [](IInv /\ TellInv)
  <2>1. IInv /\ TellInv /\ [Next]_vars => IInv' /\ TellInv'
    BY NextIInv, StepKeepsTell
  <2>2. Init => IInv /\ TellInv
    BY InitIInv, PromiseOfServiceStarts
  <2> QED
    BY <2>1, <2>2, PTL DEF Spec
<1>2. Spec => Service!Init /\ [][Service!Next]_(Service!vars)
  BY <1>1, PromiseOfServiceStarts, StepKeepsService, PTL DEF Spec
<1> QED
  BY <1>2 DEF ImplementsService, Service!Spec

(* The invariant of FileService that AtRest needs: whoever was told in this *)
(* call still has his file.                                                 *)
RestInv ==
  /\ Service!AtRest
  /\ Served = NoSession => ~Confirming
  /\ Confirming => /\ Served \in Told /\ output_exists
                   /\ output = [s \in Sessions |-> Source(s)][Served]

(* Between two calls of receive_file there is no file at the output path,   *)
(* or it is the whole file, as it was hashed, of a session that was told so: *)
(* no timeout, mismatch, exception or repetition of the service loop leaves *)
(* a partial file for the next call to find.                                *)
THEOREM DiskHoldsWholeFiles == Spec => []Service!AtRest
<1>1. Service!Init => RestInv
  BY DEF Service!Init, RestInv, Service!AtRest
<1>2. RestInv /\ [Service!Next]_(Service!vars) => RestInv'
  <2> SUFFICES ASSUME RestInv, [Service!Next]_(Service!vars) PROVE RestInv'
    OBVIOUS
  <2> USE DEF RestInv, Service!AtRest
  <2>1. CASE Service!Open
    BY <2>1, SessionAssumption DEF Service!Open
  <2>2. CASE Service!Extend
    BY <2>2 DEF Service!Extend, Service!InHand
  <2>3. CASE Service!Confirm
    BY <2>3 DEF Service!Confirm, Service!InHand
  <2>4. CASE Service!Leave
    BY <2>4 DEF Service!Leave
  <2>5. CASE Service!Discard
    BY <2>5 DEF Service!Discard, Service!InHand
  <2>6. CASE UNCHANGED Service!vars
    BY <2>6 DEF Service!vars
  <2> QED
    BY <2>1, <2>2, <2>3, <2>4, <2>5, <2>6 DEF Service!Next
<1>3. RestInv => Service!AtRest
  BY DEF RestInv
<1>4. Service!Spec => []Service!AtRest
  BY <1>1, <1>2, <1>3, PTL DEF Service!Spec
<1> QED
  BY <1>4, ServiceKeepsPromise DEF ImplementsService

-----------------------------------------------------------------------------
(* Steps *)

(* What is said in a step is so after it: whoever is answered is answered   *)
(* in the name of the session that is served, a START_ACK while it is       *)
(* served, an ACK of a chunk that is held (if the buffer has room for the   *)
(* window), a verdict on the file as it lies on disk.                       *)
AnswersAreTrue ==
  \A s \in Sessions : \A r \in toSender'[s] \ toSender[s] :
    /\ r.session = session'
    /\ r.type = "START_ACK" => Writing'
    /\ r.type = "ACK" /\ r.ack_num < NumChunks(session') /\ RoomFor(session')
         => Held(r.ack_num)'
    /\ r = FinAckPkt(session', TRUE) => output_exists' /\ output' = Source(session')
    /\ r = FinAckPkt(session', FALSE) => ~output_exists'

LEMMA StepAnswersTruly == IInv /\ [Next]_vars => AnswersAreTrue
<1> SUFFICES ASSUME IInv, [Next]_vars, NEW s \in Sessions,
                    NEW r \in toSender'[s], r \notin toSender[s]
             PROVE  /\ r.session = session'
                    /\ r.type = "START_ACK" => Writing'
                    /\ r.type = "ACK" /\ r.ack_num < NumChunks(session') /\ RoomFor(session')
                         => Held(r.ack_num)'
                    /\ r = FinAckPkt(session', TRUE) => output_exists' /\ output' = Source(session')
                    /\ r = FinAckPkt(session', FALSE) => ~output_exists'
  BY DEF AnswersAreTrue
<1>1. PICK p \in toReceiver : Receive(p)
  BY DEF Next, ReceiverStep, DrainEmpty, RaiseBlockingIOError, Rebind, InactivityTimeout,
         vars, channelVars
<1>2. /\ toSender \in [Sessions -> SUBSET Replies] /\ toReceiver \subseteq Requests
      /\ ChannelTypeOK /\ ReceiverInv /\ AccountInv /\ ProgressInv
  BY DEF IInv, ChannelTypeOK, ServiceInv
<1>3. ASSUME NEW answers, Reply(p, answers) PROVE r \in answers
  BY <1>2, <1>3 DEF Reply
<1>4. r.session = session'
  BY <1>1, <1>2, <1>3, AnswerOfStep
<1>5. CASE AcceptStart(p) \/ ReAckStart(p)
  <2>1. PICK t : Reply(p, {StartAckPkt(t)})
    BY <1>5 DEF AcceptStart, ReAckStart
  <2>2. r = StartAckPkt(t)
    BY <1>3, <2>1
  <2>3. r.type = "START_ACK" /\ r # FinAckPkt(session', TRUE) /\ r # FinAckPkt(session', FALSE)
    BY <2>2 DEF StartAckPkt, FinAckPkt
  <2>4. Writing'
    BY <1>5 DEF AcceptStart, ReAckStart, PhaseAfter, Writing, rcvVars
  <2> QED
    BY <1>4, <2>3, <2>4
<1>6. CASE VerifyFin(p) \/ DrainFin(p)
  <2>1. PICK b : Reply(p, {FinAckPkt(session, b)})
    BY <1>6 DEF VerifyFin, DrainFin
  <2>2. r = FinAckPkt(session, b)
    BY <1>3, <2>1
  <2>3. r.type = "FIN_ACK" /\ session' = session
    BY <1>6, <2>2 DEF FinAckPkt, VerifyFin, DrainFin, rcvVars
  <2>4. CASE VerifyFin(p) /\ output = Source(session)
    <3>1. Reply(p, {FinAckPkt(session, output = Source(session))})
      BY <2>4 DEF VerifyFin
    <3>2. r = FinAckPkt(session, output = Source(session))
      BY <1>3, <3>1
    <3>3. (output = Source(session)) = TRUE
      BY <2>4
    <3>4. r # FinAckPkt(session, FALSE)
      BY <3>2, <3>3 DEF FinAckPkt
    <3>5. output_exists' /\ output' = Source(session')
      BY <2>4, <1>2, <2>3 DEF VerifyFin, InFinLoop, ReceiverInv, OutputIsPrefix, Writing
    <3> QED
      BY <1>4, <2>3, <3>4, <3>5
  <2>5. CASE VerifyFin(p) /\ output # Source(session)
    <3>1. Reply(p, {FinAckPkt(session, output = Source(session))})
      BY <2>5 DEF VerifyFin
    <3>2. r = FinAckPkt(session, output = Source(session))
      BY <1>3, <3>1
    <3>3. (output = Source(session)) = FALSE
      BY <2>5
    <3>4. r # FinAckPkt(session, TRUE)
      BY <3>2, <3>3 DEF FinAckPkt
    <3>5. ~output_exists'
      BY <2>5 DEF VerifyFin, Unlink
    <3> QED
      BY <1>4, <2>3, <3>4, <3>5
  <2>6. CASE DrainFin(p)
    <3>1. Reply(p, {FinAckPkt(session, TRUE)}) /\ rcv_phase = "drain" /\ UNCHANGED rcvVars
      BY <2>6 DEF DrainFin
    <3>2. r # FinAckPkt(session, FALSE)
      <4>1. r = FinAckPkt(session, TRUE)
        BY <1>3, <3>1
      <4> QED
        BY <4>1 DEF FinAckPkt
    <3>3. output_exists' /\ output' = Source(session')
      BY <1>2, <3>1 DEF ReceiverInv, OutputIsPrefix, Writing, rcvVars
    <3> QED
      BY <1>4, <2>3, <3>2, <3>3
  <2> QED
    BY <1>6, <2>4, <2>5, <2>6
<1>7. CASE \/ AcceptInOrder(p) \/ ReAckDuplicate(p) \/ BufferOutOfOrder(p)
           \/ DropOnOverflow(p) \/ AckLateData(p)
  <2>1. PICK ns : Reply(p, Acks(ns))
    BY <1>7 DEF AcceptInOrder, ReAckDuplicate, BufferOutOfOrder, DropOnOverflow, AckLateData
  <2>2. r \in Acks(ns)
    BY <1>3, <2>1
  <2>3. r.type = "ACK" /\ \A b : r # FinAckPkt(session', b)
    BY <2>2 DEF Acks, AckPkt, FinAckPkt
  <2>4. /\ session' = session /\ Writing /\ Writing'
    BY <1>7 DEF AcceptInOrder, ReAckDuplicate, BufferOutOfOrder, DropOnOverflow,
                AckLateData, IsDuplicate, IsNewOutOfOrder, IsData, InFinLoop, PhaseAfter,
                Writing, rcvVars
  <2>5. session \in Sessions
    BY <1>2, <2>4 DEF ReceiverInv, ReceiverTypeOK, Writing
  <2>6. ASSUME r.ack_num < NumChunks(session'), RoomFor(session')
        PROVE  Held(r.ack_num)'
    <3>1. r.ack_num < NumChunks(session) /\ RoomFor(session)
      BY <2>4, <2>6
    <3> QED
      BY <1>1, <1>2, <2>3, <2>4, <2>5, <3>1, AcksAreHeld
  <2> QED
    BY <1>4, <2>3, <2>6
<1>8. CASE UNCHANGED toSender
  BY <1>8
<1> QED
  BY <1>1, <1>5, <1>6, <1>7, <1>8
     DEF Receive, IgnoreBeforeStart, IgnoreInData, IgnoreInFin, DrainIgnore, DrainCorrupt,
         DropAtClosedPort, ReceiverReads

(* No answer lies when it is given, not even to a sender whose session is   *)
(* not served, whose DATA the FIN loop acknowledges (protocol.py:1238), and *)
(* not in a later call of receive_file.                                     *)
THEOREM AnswersTellTheTruth == Spec => [][AnswersAreTrue]_vars
BY SpecIInv, StepAnswersTruly, PTL DEF Spec

(* A file that was verified is not touched again, and its verdict stands.   *)
VerifiedStays ==
  outcome \in {"verified", "raised"} =>
    /\ UNCHANGED <<session, output, output_exists>>
    /\ outcome' \in {"verified", "raised"}

LEMMA StepKeepsVerified == Once /\ IInv /\ [Next]_vars => VerifiedStays
<1> SUFFICES ASSUME Once, IInv, [Next]_vars, outcome \in {"verified", "raised"}
             PROVE  /\ UNCHANGED <<session, output, output_exists>>
                    /\ outcome' \in {"verified", "raised"}
  BY DEF VerifiedStays
<1>1. ReceiverInv /\ rcv_phase \in {"drain", "fin_nb", "closed"}
  BY DEF IInv, ServiceInv, ProgressInv, ReceiverInv, ReceiverTypeOK, Phases
<1>2. ASSUME NEW p \in toReceiver, Receive(p)
      PROVE  /\ UNCHANGED <<session, output, output_exists>>
             /\ outcome' \in {"verified", "raised"}
  <2>1. CASE VerifyFin(p)
    <3>1. output = Source(session)
      BY <1>1, <2>1 DEF VerifyFin, InFinLoop, ReceiverInv
    <3> QED
      BY <2>1, <3>1 DEF VerifyFin
  <2>2. CASE Quiet(p) \/ DrainCorrupt(p)
    BY <2>2, QuietChangesNothing DEF DrainCorrupt, rcvVars
  <2>3. CASE AcceptStart(p) \/ AcceptInOrder(p) \/ BufferOutOfOrder(p)
    BY <1>1, <2>3 DEF AcceptStart, AcceptInOrder, BufferOutOfOrder, IsNewOutOfOrder, IsData
  <2> QED
    BY <1>2, <2>1, <2>2, <2>3 DEF Receive, Quiet
<1> QED
  BY <1>1, <1>2
     DEF Next, ReceiverStep, DrainEmpty, RaiseBlockingIOError, Rebind, InactivityTimeout,
         vars, rcvVars

(* With --once a verified file stays as it is, whatever arrives afterwards  *)
(* and however the drain of duplicate FINs ends: neither the FIN that is    *)
(* hashed a second time after a corrupt datagram nor the exception of the   *)
(* non-blocking socket can undo it (protocol.py:1213-1248).                 *)
THEOREM VerifiedFileIsFinal == Once /\ Spec => [][VerifiedStays]_vars
<1>1. CASE Once
  <2>1. IInv /\ [Next]_vars => VerifiedStays
    BY <1>1, StepKeepsVerified
  <2> QED
    BY <2>1, SpecIInv, PTL DEF Spec
<1>2. CASE ~Once
  BY <1>2
<1> QED
  BY <1>1, <1>2
=============================================================================
