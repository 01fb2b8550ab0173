--------------------------- MODULE TransferProofs ---------------------------
(***************************************************************************)
(* What the three transfers prove with the same lemmas: the handshake and  *)
(* the teardown keep their types, the network adds nothing but garbage, a  *)
(* sender streams only to a receiver that accepted it and reports success  *)
(* only on a true confirmation, and no step breaks the promise of          *)
(* ReliableTransfer.                                                       *)
(***************************************************************************)
EXTENDS Transfer, ReceiverProofs, WellFoundedInduction

(* A START_ACK was received, and the sender did not give up.                *)
Streamed == snd_phase \in {"stream", "teardown", "await_fin_ack", "success"}

(* How a sender's phase may change: it streams after a START_ACK, reports   *)
(* success after a positive FIN_ACK, and a report is final.                 *)
PhaseMoves ==
  /\ SessionTypeOK'
  /\ snd_phase' = "success" =>
       snd_phase = "success" \/ FinAckPkt(Me, TRUE) \in toSender[Me]
  /\ Streamed' => Streamed \/ StartAckPkt(Me) \in toSender[Me]
  /\ Finished => snd_phase' = snd_phase

(* What a step of a sender may do, as far as the rest of the system is      *)
(* concerned.                                                               *)
SenderKeepsBounds ==
  /\ ChannelTypeOK' /\ PhaseMoves
  /\ \A s \in Sessions : toSender'[s] \subseteq toSender[s]

(* A sender that reports success was told so by a receiver that is still    *)
(* where it was then, or further.                                           *)
SuccessInv ==
  Once /\ snd_phase = "success" =>
    /\ session = Me
    /\ rcv_phase \in {"drain", "fin_nb", "closed"}
    /\ outcome \in {"verified", "raised"}

LEMMA SuccessInvMeansDelivered ==
  Once /\ ReceiverInv /\ SuccessInv => SuccessMeansDelivered
BY DEF ReceiverInv, SuccessInv, SuccessMeansDelivered, OutputIsPrefix,
       FileIsWholeOrGone, Writing

-----------------------------------------------------------------------------
(* Datagrams *)

LEMMA SendersDatagrams ==
  /\ StartPkt(Me) \in Requests
  /\ FinPkt(Me) \in Requests
  /\ \A n \in Sendable(Me) : DataPkt(Me, n) \in Requests
BY SenderAssumption DEF Requests

(* A set of natural numbers has a smallest one.                             *)
LEMMA SmallestExists ==
  ASSUME NEW S \in SUBSET Nat, S # {}
  PROVE  Smallest(S) \in S /\ \A y \in S : Smallest(S) <= y
<1> DEFINE R == {pair \in Nat \X Nat : pair[1] < pair[2]}
<1>1. IsWellFoundedOn(R, Nat)
  <2>1. OpToRel(<, Nat) = R
    BY DEF OpToRel
  <2> QED
    BY <2>1, NatLessThanWellFounded
<1>2. PICK x \in S : \A y \in S : ~ (<<y, x>> \in R)
  BY <1>1, WFMin
<1>3. ASSUME NEW y \in S PROVE x <= y
  <2>1. <<y, x>> \in Nat \X Nat /\ <<y, x>> \notin R
    BY <1>2
  <2>2. ~(y < x)
    BY <2>1
  <2> QED
    BY <2>2
<1>4. \E s \in S : \A y \in S : s <= y
  BY <1>3
<1> QED
  BY <1>4 DEF Smallest

LEMMA SmallestOfThree ==
  ASSUME NEW i \in Int, NEW j \in Int, NEW k \in Int
  PROVE  LET x == Smallest({i, j, k}) IN
         /\ x \in {i, j, k}
         /\ x <= i /\ x <= j /\ x <= k
<1> DEFINE S == {i, j, k}
<1>1. \E x \in S : \A y \in S : x <= y
  <2>1. CASE i <= j /\ i <= k
    BY <2>1
  <2>2. CASE j <= i /\ j <= k
    BY <2>2
  <2>3. CASE k <= i /\ k <= j
    BY <2>3
  <2> QED
    BY <2>1, <2>2, <2>3
<1>2. Smallest(S) \in S /\ \A y \in S : Smallest(S) <= y
  BY <1>1 DEF Smallest
<1> QED
  BY <1>2

LEMMA SmallestOfTwo ==
  ASSUME NEW i \in Int, NEW j \in Int
  PROVE  Smallest({i, j}) \in {i, j}
<1>1. {i, j, j} = {i, j}
  OBVIOUS
<1> QED
  BY <1>1, SmallestOfThree

(* The chunks below the limit of a windowed engine exist: they are announced *)
(* and in the file as it is read.                                           *)
LEMMA ChunksBelowLimit ==
  ASSUME NEW first \in Nat, NEW bound \in Int
  PROVE  LET limit == Smallest({bound, NumChunks(Me), Readable(Me)})
             fresh == first..(limit - 1)
         IN
         /\ limit \in Int /\ limit <= bound /\ limit <= NumChunks(Me)
         /\ fresh \subseteq Sendable(Me)
         /\ Cardinality(fresh) = IF first < limit THEN limit - first ELSE 0
<1> DEFINE limit == Smallest({bound, NumChunks(Me), Readable(Me)})
<1>1. NumChunks(Me) \in Int /\ Readable(Me) \in Int
  BY NumChunksType, SenderAssumption
<1>2. limit \in Int /\ limit <= bound /\ limit <= NumChunks(Me) /\ limit <= Readable(Me)
  BY <1>1, SmallestOfThree
<1> HIDE DEF limit
<1>3. first..(limit - 1) \subseteq Sendable(Me)
  BY <1>1, <1>2 DEF Sendable
<1>4. Cardinality(first..(limit - 1)) = IF first < limit THEN limit - first ELSE 0
  <2>1. first \in Int /\ limit - 1 \in Int
    BY <1>2
  <2>2. Cardinality(first..(limit - 1)) =
          IF first > limit - 1 THEN 0 ELSE (limit - 1) - first + 1
    BY <2>1, FS_Interval
  <2> QED
    BY <1>2, <2>2
<1> QED
  BY <1>2, <1>3, <1>4 DEF limit

LEMMA SendTypes ==
  ASSUME ChannelTypeOK, NEW packets \in SUBSET Requests, SenderSends(packets)
  PROVE  /\ ChannelTypeOK'
         /\ \A s \in Sessions : toSender'[s] \subseteq toSender[s]
BY DEF ChannelTypeOK, SenderSends

LEMMA SenderReadTypes ==
  ASSUME ChannelTypeOK, NEW p, SenderReads(Me, p)
  PROVE  /\ ChannelTypeOK'
         /\ \A s \in Sessions : toSender'[s] \subseteq toSender[s]
<1>1. /\ toSender' = [toSender EXCEPT ![Me] = Delivered(@, p)]
      /\ UNCHANGED <<toReceiver, budget>>
  BY DEF SenderReads
<1>2. Delivered(toSender[Me], p) \subseteq toSender[Me]
  BY DEF Delivered
<1>3. toSender \in [Sessions -> SUBSET Replies] /\ Me \in Sessions
  BY SenderAssumption DEF ChannelTypeOK
<1>4. \A s \in Sessions : toSender'[s] \subseteq toSender[s]
  BY <1>1, <1>2, <1>3
<1>5. toSender' \in [Sessions -> SUBSET Replies]
  BY <1>1, <1>2, <1>3
<1> QED
  BY <1>1, <1>4, <1>5 DEF ChannelTypeOK

LEMMA StillTypes ==
  ASSUME ChannelTypeOK, UNCHANGED channelVars
  PROVE  /\ ChannelTypeOK'
         /\ \A s \in Sessions : toSender'[s] \subseteq toSender[s]
BY DEF ChannelTypeOK, channelVars

LEMMA BudgetLeftTypes ==
  ASSUME ChannelTypeOK, budget # 0
  PROVE  BudgetLeft \in Nat \cup {Hostile}
<1>1. CASE budget = Hostile
  BY <1>1 DEF BudgetLeft, Duplicating
<1>2. CASE budget # Hostile
  <2>1. budget \in Nat /\ BudgetLeft = budget - 1
    BY <1>2 DEF BudgetLeft, Duplicating, ChannelTypeOK
  <2> QED
    BY <2>1
<1> QED
  BY <1>1, <1>2

LEMMA ImpairTypes ==
  ASSUME ChannelTypeOK, Impair
  PROVE  /\ ChannelTypeOK'
         /\ \A s \in Sessions : toSender'[s] \subseteq toSender[s] \cup {Garbage}
<1>1. Garbage \in Requests /\ Garbage \in Replies
  BY DEF Requests, Replies
<1>2. CASE LoseRequest
  BY <1>2 DEF LoseRequest, ChannelTypeOK
<1>3. CASE CorruptRequest
  <2>1. toReceiver' \subseteq Requests
    BY <1>1, <1>3 DEF CorruptRequest, Delivered, ChannelTypeOK
  <2> QED
    BY <1>3, <2>1, BudgetLeftTypes DEF CorruptRequest, ChannelTypeOK
<1>4. ASSUME NEW s \in Sessions, LoseReply(s) PROVE
         /\ ChannelTypeOK'
         /\ \A t \in Sessions : toSender'[t] \subseteq toSender[t] \cup {Garbage}
  BY <1>4 DEF LoseReply, ChannelTypeOK
<1>5. ASSUME NEW s \in Sessions, CorruptReply(s) PROVE
         /\ ChannelTypeOK'
         /\ \A t \in Sessions : toSender'[t] \subseteq toSender[t] \cup {Garbage}
  <2>1. PICK p \in toSender[s] \ {Garbage} :
          toSender' = [toSender EXCEPT ![s] = Delivered(@, p) \cup {Garbage}]
    BY <1>5 DEF CorruptReply
  <2>2. Delivered(toSender[s], p) \subseteq toSender[s]
    BY DEF Delivered
  <2>3. toSender \in [Sessions -> SUBSET Replies]
    BY DEF ChannelTypeOK
  <2>4. toSender' \in [Sessions -> SUBSET Replies]
    BY <1>1, <2>1, <2>2, <2>3
  <2>5. \A t \in Sessions : toSender'[t] \subseteq toSender[t] \cup {Garbage}
    BY <2>1, <2>2, <2>3
  <2>6. budget' \in Nat \cup {Hostile}
    BY <1>5, BudgetLeftTypes DEF CorruptReply
  <2> QED
    BY <1>5, <2>4, <2>5, <2>6 DEF CorruptReply, ChannelTypeOK
<1> QED
  BY <1>2, <1>3, <1>4, <1>5 DEF Impair

-----------------------------------------------------------------------------
(* The handshake and the teardown *)

LEMMA HandshakeStep ==
  ASSUME ChannelTypeOK, SessionTypeOK, Handshake
  PROVE  SenderKeepsBounds
<1>1. MaxRetries \in Nat
  BY SenderAssumption
<1>2. CASE SendStart
  <2>1. SenderSends({StartPkt(Me)}) /\ {StartPkt(Me)} \in SUBSET Requests
    BY <1>2, SendersDatagrams DEF SendStart
  <2>2. PhaseMoves
    BY <1>1, <1>2 DEF SendStart, SessionTypeOK, SndPhases, PhaseMoves, Streamed, Finished
  <2> QED
    BY <2>1, <2>2, SendTypes DEF SenderKeepsBounds
<1>3. CASE RecvStartAck \/ HandshakeMiss
  <2>1. PICK p : SenderReads(Me, p)
    BY <1>3 DEF RecvStartAck, HandshakeMiss
  <2>2. SessionTypeOK'
    BY <1>1, <1>3 DEF RecvStartAck, HandshakeMiss, SessionTypeOK, SndPhases
  <2>3. PhaseMoves
    BY <1>3, <2>2 DEF RecvStartAck, HandshakeMiss, PhaseMoves, Streamed, Finished
  <2> QED
    BY <2>1, <2>3, SenderReadTypes DEF SenderKeepsBounds
<1>4. CASE HandshakeExhausted \/ HandshakeTimeout
  <2>1. UNCHANGED channelVars
    BY <1>4 DEF HandshakeExhausted, HandshakeTimeout
  <2>2. PhaseMoves
    BY <1>1, <1>4 DEF HandshakeExhausted, HandshakeTimeout, SessionTypeOK, SndPhases, PhaseMoves, Streamed, Finished
  <2> QED
    BY <2>1, <2>2, StillTypes DEF SenderKeepsBounds
<1> QED
  BY <1>2, <1>3, <1>4 DEF Handshake

LEMMA TeardownStep ==
  ASSUME ChannelTypeOK, SessionTypeOK, Teardown
  PROVE  SenderKeepsBounds
<1>1. MaxRetries \in Nat
  BY SenderAssumption
<1>2. CASE SendFin
  <2>1. SenderSends({FinPkt(Me)}) /\ {FinPkt(Me)} \in SUBSET Requests
    BY <1>2, SendersDatagrams DEF SendFin
  <2>2. PhaseMoves
    BY <1>1, <1>2 DEF SendFin, SessionTypeOK, SndPhases, PhaseMoves, Streamed, Finished
  <2> QED
    BY <2>1, <2>2, SendTypes DEF SenderKeepsBounds
<1>3. CASE RecvFinAck
  <2>1. PICK verified \in BOOLEAN :
          /\ FinAckPkt(Me, verified) \in toSender[Me]
          /\ snd_phase' = IF verified THEN "success" ELSE "failed"
          /\ SenderReads(Me, FinAckPkt(Me, verified))
    BY <1>3 DEF RecvFinAck
  <2>2. SessionTypeOK'
    BY <1>1, <1>3, <2>1 DEF RecvFinAck, SessionTypeOK, SndPhases
  <2>3. snd_phase' = "success" => FinAckPkt(Me, TRUE) \in toSender[Me]
    <3>1. CASE verified = TRUE
      BY <2>1, <3>1
    <3>2. CASE verified = FALSE
      BY <2>1, <3>2
    <3> QED
      BY <3>1, <3>2
  <2>4. PhaseMoves
    BY <1>3, <2>1, <2>2, <2>3 DEF RecvFinAck, PhaseMoves, Streamed, Finished
  <2> QED
    BY <2>1, <2>4, SenderReadTypes DEF SenderKeepsBounds
<1>4. CASE TeardownIgnore \/ TeardownMiss
  <2>1. PICK p : SenderReads(Me, p)
    BY <1>4 DEF TeardownIgnore, TeardownMiss
  <2>2. PhaseMoves
    BY <1>1, <1>4 DEF TeardownIgnore, TeardownMiss, SessionTypeOK, SndPhases, sessionVars, PhaseMoves, Streamed, Finished
  <2> QED
    BY <2>1, <2>2, SenderReadTypes DEF SenderKeepsBounds
<1>5. CASE TeardownExhausted \/ TeardownTimeout
  <2>1. UNCHANGED channelVars
    BY <1>5 DEF TeardownExhausted, TeardownTimeout
  <2>2. PhaseMoves
    BY <1>1, <1>5 DEF TeardownExhausted, TeardownTimeout, SessionTypeOK, SndPhases, PhaseMoves, Streamed, Finished
  <2> QED
    BY <2>1, <2>2, StillTypes DEF SenderKeepsBounds
<1> QED
  BY <1>2, <1>3, <1>4, <1>5 DEF Teardown

(* The step that ends a stream.                                             *)
LEMMA StreamEndsStep ==
  ASSUME ChannelTypeOK, SessionTypeOK, StreamEnds,
         UNCHANGED timeout_armed, UNCHANGED channelVars
  PROVE  SenderKeepsBounds
<1>1. PhaseMoves
  BY SenderAssumption DEF StreamEnds, SessionTypeOK, SndPhases, PhaseMoves, Streamed, Finished
<1> QED
  BY <1>1, StillTypes DEF SenderKeepsBounds

LEMMA SourceVanishesStep ==
  ASSUME ChannelTypeOK, SessionTypeOK, SourceVanishes
  PROVE  SenderKeepsBounds
<1>1. PhaseMoves
  BY DEF SourceVanishes, SessionTypeOK, SndPhases, PhaseMoves, Streamed, Finished
<1> QED
  BY <1>1, StillTypes DEF SourceVanishes, SenderKeepsBounds

-----------------------------------------------------------------------------
(* ConfirmInv and SuccessInv in the steps of the three parties *)

LEMMA SenderStepKeepsSuccess ==
  ASSUME SenderKeepsBounds, ConfirmInv, SuccessInv, UNCHANGED rcvVars
  PROVE  ConfirmInv' /\ SuccessInv'
<1>1. ConfirmInv'
  BY DEF SenderKeepsBounds, ConfirmInv, rcvVars
<1>2. SuccessInv'
  BY SenderAssumption DEF SenderKeepsBounds, PhaseMoves, ConfirmInv, SuccessInv, rcvVars
<1> QED
  BY <1>1, <1>2

LEMMA ImpairKeepsConfirmInv ==
  ASSUME ChannelTypeOK, Impair, ConfirmInv, UNCHANGED rcvVars
  PROVE  ConfirmInv'
<1>1. \A s \in Sessions : toSender'[s] \subseteq toSender[s] \cup {Garbage}
  BY ImpairTypes
<1>2. \A s \in Sessions : FinAckPkt(s, TRUE) # Garbage
  BY DEF FinAckPkt, Garbage
<1> QED
  BY <1>1, <1>2 DEF ConfirmInv, rcvVars

(* Once verified, a receiver under --once stays verified.                   *)
LEMMA ReceiverStepKeepsSuccess ==
  ASSUME toReceiver \subseteq Requests, ReceiverInv, SuccessInv,
         ReceiverStep \/ InactivityTimeout, UNCHANGED snd_phase
  PROVE  SuccessInv'
<1> SUFFICES ASSUME Once, snd_phase = "success"
             PROVE  /\ session' = Me
                    /\ rcv_phase' \in {"drain", "fin_nb", "closed"}
                    /\ outcome' \in {"verified", "raised"}
  BY DEF SuccessInv
<1>1. /\ session = Me /\ rcv_phase \in {"drain", "fin_nb", "closed"}
      /\ outcome \in {"verified", "raised"}
  BY DEF SuccessInv
<1>2. CASE UNCHANGED rcvVars
  BY <1>1, <1>2 DEF rcvVars
<1>3. CASE DrainEmpty \/ RaiseBlockingIOError
  BY <1>1, <1>3 DEF DrainEmpty, RaiseBlockingIOError
<1>4. CASE Rebind \/ InactivityTimeout
  BY <1>1, <1>4 DEF Rebind, InactivityTimeout
<1>5. ASSUME NEW p \in toReceiver, Receive(p)
      PROVE  /\ session' = Me
             /\ rcv_phase' \in {"drain", "fin_nb", "closed"}
             /\ outcome' \in {"verified", "raised"}
  <2>1. CASE VerifyFin(p)
    <3>1. rcv_phase = "fin_nb" /\ output = Source(session)
      BY <1>1, <2>1 DEF VerifyFin, InFinLoop, ReceiverInv
    <3> QED
      BY <1>1, <2>1, <3>1 DEF VerifyFin
  <2>2. CASE DrainCorrupt(p)
    BY <1>1, <2>2 DEF DrainCorrupt
  <2>3. CASE \/ AcceptStart(p) \/ AcceptInOrder(p) \/ BufferOutOfOrder(p)
    BY <1>1, <2>3 DEF AcceptStart, AcceptInOrder, BufferOutOfOrder, IsNewOutOfOrder, IsData
  <2>4. CASE UNCHANGED rcvVars
    BY <1>2, <2>4
  <2> QED
    BY <1>5, <2>1, <2>2, <2>3, <2>4
       DEF Receive, IgnoreBeforeStart, ReAckDuplicate, DropOnOverflow, ReAckStart,
           IgnoreInData, AckLateData, IgnoreInFin, DrainFin, DrainIgnore, DropAtClosedPort
<1> QED
  BY <1>3, <1>4, <1>5 DEF ReceiverStep

-----------------------------------------------------------------------------
(* The shared invariant, in the steps of all parties *)

(* Under --once a sender that was let through the handshake has the session *)
(* that is served.                                                          *)
StartedInv == Once /\ session # Me => ~Streamed

(* What the three transfers share of their inductive invariants.            *)
SharedInv ==
  /\ ChannelTypeOK /\ SessionTypeOK
  /\ ReceiverInv /\ ConfirmInv /\ ServiceInv
  /\ SuccessInv /\ StartedInv

LEMMA SharedStarts ==
  ASSUME ChannelInit, SessionInit, ReceiverInit
  PROVE  SharedInv
<1>1. ChannelTypeOK /\ ConfirmInv
  BY ChannelAssumption DEF ChannelInit, ChannelTypeOK, ConfirmInv
<1>2. SessionTypeOK /\ SuccessInv /\ StartedInv
  BY SenderAssumption
     DEF SessionInit, SessionTypeOK, SndPhases, SuccessInv, StartedInv, Streamed
<1> QED
  BY <1>1, <1>2, ReceiverStartsRight, ServiceStarts DEF SharedInv

LEMMA SharedSenderStep ==
  ASSUME SharedInv, SenderKeepsBounds, UNCHANGED rcvVars
  PROVE  SharedInv'
<1> USE DEF SharedInv
<1>1. ReceiverInv' /\ ConfirmInv' /\ SuccessInv'
  BY ReceiverStutter, SenderStepKeepsSuccess
<1>2. ServiceInv'
  BY ServiceStutter DEF SenderKeepsBounds
<1>3. StartedInv'
  <2> SUFFICES ASSUME Once, session # Me, Streamed' PROVE FALSE
    BY DEF StartedInv, rcvVars
  <2>1. StartAckPkt(Me) \in toSender[Me]
    BY DEF SenderKeepsBounds, PhaseMoves, StartedInv
  <2>2. StartAckPkt(Me) # Garbage /\ StartAckPkt(Me).session = Me
    BY DEF StartAckPkt, Garbage
  <2> QED
    BY <2>1, <2>2, SenderAssumption DEF ServiceInv, AnswersInv
<1> QED
  BY <1>1, <1>2, <1>3 DEF SenderKeepsBounds, PhaseMoves

(* Under --once the session of this sender is never left, nor entered but   *)
(* by the one START.                                                        *)
LEMMA MyServiceLasts ==
  ASSUME Once, ReceiverInv, ProgressInv, ReceiverStep \/ InactivityTimeout
  PROVE  /\ session = Me => session' = Me
         /\ session # Me /\ session' = Me => session = NoSession
<1>1. CASE session' = session
  BY <1>1
<1>2. CASE rcv_phase = "listen"
  BY <1>2, SenderAssumption, SessionAssumption DEF ProgressInv
<1> QED
  BY <1>1, <1>2, SessionStays

LEMMA SharedReceiverStep ==
  ASSUME SharedInv, ReceiverStep \/ InactivityTimeout, UNCHANGED sessionVars
  PROVE  SharedInv'
<1> USE DEF SharedInv
<1>1. SessionTypeOK' /\ UNCHANGED snd_phase
  BY DEF sessionVars, SessionTypeOK
<1>2. ChannelTypeOK'
  BY ReceiverKeepsChannelType DEF ReceiverInv
<1>3. ReceiverInv' /\ ConfirmInv' /\ SuccessInv'
  BY <1>1, ReceiverStepKeepsInv, ReceiverStepKeepsConfirmInv,
     ReceiverStepKeepsSuccess DEF ChannelTypeOK
<1>4. ServiceInv'
  BY ReceiverStepKeepsService
<1>5. StartedInv'
  BY <1>1, MyServiceLasts DEF StartedInv, Streamed, ServiceInv
<1> QED
  BY <1>1, <1>2, <1>3, <1>4, <1>5

LEMMA SharedImpairStep ==
  ASSUME SharedInv, Impair, UNCHANGED sessionVars, UNCHANGED rcvVars
  PROVE  SharedInv'
<1> USE DEF SharedInv
<1>1. SessionTypeOK' /\ SuccessInv' /\ StartedInv'
  BY DEF sessionVars, SessionTypeOK, rcvVars, SuccessInv, StartedInv, Streamed
<1>2. ReceiverInv' /\ ConfirmInv'
  BY ImpairKeepsConfirmInv, ReceiverStutter
<1>3. ChannelTypeOK' /\ ServiceInv'
  BY ImpairTypes, ServiceStutter
<1> QED
  BY <1>1, <1>2, <1>3

LEMMA SharedStutter ==
  ASSUME SharedInv, UNCHANGED channelVars, UNCHANGED sessionVars, UNCHANGED rcvVars
  PROVE  SharedInv'
<1> USE DEF SharedInv
<1>1. SessionTypeOK' /\ SuccessInv' /\ StartedInv'
  BY DEF sessionVars, SessionTypeOK, rcvVars, SuccessInv, StartedInv, Streamed
<1>2. ChannelTypeOK' /\ ConfirmInv'
  BY DEF ChannelTypeOK, ConfirmInv, channelVars, rcvVars
<1>3. ReceiverInv' /\ ServiceInv'
  BY ReceiverStutter, ServiceStutter DEF channelVars
<1> QED
  BY <1>1, <1>2, <1>3

-----------------------------------------------------------------------------
(* Who adds which datagrams *)

(* A session_id is drawn anew for every send_file (random.randint,          *)
(* protocol.py:72, 314 and 666): no datagram of an earlier sender bears it. *)
FreshSession == \A p \in Leftover : p = Garbage \/ p.session # Me

MyDataBelow(limit) ==
  \A p \in toReceiver : p.type = "DATA" /\ p.session = Me => p.seq_num < limit

(* FIN was sent, or is about to be.                                         *)
Tearing ==
  FinPkt(Me) \in toReceiver \/ snd_phase \in {"teardown", "await_fin_ack", "success"}

LEMMA FreshStart ==
  ASSUME ChannelInit, SessionInit, FreshSession
  PROVE  (\A limit : MyDataBelow(limit)) /\ ~Tearing
<1>1. \A p \in toReceiver : p = Garbage \/ p.session # Me
  BY DEF ChannelInit, FreshSession
<1> QED
  BY <1>1 DEF MyDataBelow, Tearing, SessionInit, FinPkt, Garbage

LEMMA ReceiverAddsNoRequest ==
  ASSUME ReceiverStep \/ InactivityTimeout
  PROVE  toReceiver' \subseteq toReceiver
<1>1. ASSUME NEW p \in toReceiver, Receive(p)
      PROVE  toReceiver' \subseteq toReceiver
  <2>1. CASE ReceiverReads(p)
    BY <2>1 DEF ReceiverReads, Delivered
  <2>2. CASE \E answers : Reply(p, answers)
    BY <2>2 DEF Reply, Delivered
  <2> QED
    BY <1>1, <2>1, <2>2
       DEF Receive, AcceptStart, IgnoreBeforeStart, AcceptInOrder, ReAckDuplicate,
           BufferOutOfOrder, DropOnOverflow, ReAckStart, IgnoreInData, VerifyFin,
           AckLateData, IgnoreInFin, DrainFin, DrainIgnore, DrainCorrupt, DropAtClosedPort
<1> QED
  BY <1>1 DEF ReceiverStep, DrainEmpty, RaiseBlockingIOError, Rebind,
              InactivityTimeout, channelVars

LEMMA ImpairAddsOnlyGarbage ==
  ASSUME Impair
  PROVE  toReceiver' \subseteq toReceiver \cup {Garbage}
BY DEF Impair, LoseRequest, CorruptRequest, LoseReply, CorruptReply, Delivered

LEMMA SessionStepsSendNoData ==
  ASSUME Handshake \/ Teardown
  PROVE  /\ toReceiver' \subseteq toReceiver \cup {StartPkt(Me), FinPkt(Me)}
         /\ Tearing' => Tearing
<1>1. CASE Handshake
  <2>1. toReceiver' \subseteq toReceiver \cup {StartPkt(Me)}
    BY <1>1 DEF Handshake, SendStart, HandshakeExhausted, RecvStartAck, HandshakeMiss,
                HandshakeTimeout, SenderSends, SenderReads, channelVars
  <2>2. snd_phase' \notin {"teardown", "await_fin_ack", "success"}
    BY <1>1 DEF Handshake, SendStart, HandshakeExhausted, RecvStartAck, HandshakeMiss,
                HandshakeTimeout
  <2>3. StartPkt(Me) # FinPkt(Me)
    BY DEF StartPkt, FinPkt
  <2> QED
    BY <2>1, <2>2, <2>3 DEF Tearing
<1>2. CASE Teardown
  <2>1. toReceiver' \subseteq toReceiver \cup {FinPkt(Me)}
    BY <1>2 DEF Teardown, SendFin, TeardownExhausted, RecvFinAck, TeardownIgnore,
                TeardownMiss, TeardownTimeout, SenderSends, SenderReads, channelVars
  <2>2. snd_phase \in {"teardown", "await_fin_ack"}
    BY <1>2 DEF Teardown, SendFin, TeardownExhausted, RecvFinAck, TeardownIgnore,
                TeardownMiss, TeardownTimeout
  <2> QED
    BY <2>1, <2>2 DEF Tearing
<1> QED
  BY <1>1, <1>2

(* START, FIN and garbage are no DATA.                                      *)
LEMMA MyDataStaysBelow ==
  ASSUME NEW limit, MyDataBelow(limit),
         toReceiver' \subseteq toReceiver \cup {StartPkt(Me), FinPkt(Me), Garbage}
  PROVE  \A p \in toReceiver' : p.type = "DATA" /\ p.session = Me => p.seq_num < limit
BY DEF MyDataBelow, StartPkt, FinPkt, Garbage

LEMMA MyDataWithMoreSent ==
  ASSUME NEW limit, MyDataBelow(limit), NEW sent, SenderSends({DataPkt(Me, n) : n \in sent}),
         \A n \in sent : n < limit
  PROVE  \A p \in toReceiver' : p.type = "DATA" /\ p.session = Me => p.seq_num < limit
<1> TAKE p \in toReceiver'
<1>1. CASE p \in toReceiver
  BY <1>1 DEF MyDataBelow
<1>2. CASE p \in {DataPkt(Me, n) : n \in sent}
  <2>1. PICK n \in sent : p = DataPkt(Me, n)
    BY <1>2
  <2>2. p.seq_num = n
    BY <2>1 DEF DataPkt
  <2> QED
    BY <2>1, <2>2
<1> QED
  BY <1>1, <1>2 DEF SenderSends

(* To send DATA is not to send FIN.                                         *)
LEMMA DataIsNoFin ==
  ASSUME NEW sent, SenderSends({DataPkt(Me, n) : n \in sent}),
         FinPkt(Me) \in toReceiver'
  PROVE  FinPkt(Me) \in toReceiver
<1>1. \A n \in sent : DataPkt(Me, n) # FinPkt(Me)
  BY DEF DataPkt, FinPkt
<1> QED
  BY <1>1 DEF SenderSends

(* The packets of a session are told apart by their numbers.                *)
LEMMA DataOfOtherChunks ==
  ASSUME NEW sent, SenderSends({DataPkt(Me, m) : m \in sent}),
         NEW n, n \notin sent, DataPkt(Me, n) \notin toReceiver
  PROVE  DataPkt(Me, n) \notin toReceiver'
<1>1. \A m \in sent : DataPkt(Me, m).seq_num = m /\ DataPkt(Me, n).seq_num = n
  BY DEF DataPkt
<1> QED
  BY <1>1 DEF SenderSends

LEMMA HigherLimit ==
  ASSUME toReceiver \subseteq Requests, NEW i \in Int, NEW j \in Int,
         i <= j, MyDataBelow(i)
  PROVE  MyDataBelow(j)
<1> SUFFICES ASSUME NEW p \in toReceiver, p.type = "DATA", p.session = Me
             PROVE  p.seq_num < j
  BY DEF MyDataBelow
<1>1. p.seq_num \in Nat
  BY RequestTypes DEF Garbage
<1>2. p.seq_num < i
  BY DEF MyDataBelow
<1> QED
  BY <1>1, <1>2

MyAcksBelow(limit) ==
  \A p \in toSender[Me] : p.type = "ACK" /\ p.session = Me => p.ack_num < limit

(* The receiver acknowledges no chunk of this session that it was not sent. *)
LEMMA ReceiverStaysBelow ==
  ASSUME ChannelTypeOK, ReceiverInv, ReceiverStep \/ InactivityTimeout,
         NEW limit \in Nat, MyDataBelow(limit), MyAcksBelow(limit),
         session = Me => Buffered \subseteq 0..(limit - 1)
  PROVE  /\ \A p \in toReceiver' : p.type = "DATA" /\ p.session = Me => p.seq_num < limit
         /\ \A p \in toSender'[Me] : p.type = "ACK" /\ p.session = Me => p.ack_num < limit
         /\ session' = Me => Buffered' \subseteq 0..(limit - 1)
<1>1. \A p \in toReceiver' : p.type = "DATA" /\ p.session = Me => p.seq_num < limit
  BY ReceiverAddsNoRequest DEF MyDataBelow
<1>2. toReceiver \subseteq Requests /\ toSender \in [Sessions -> SUBSET Replies] /\ Me \in Sessions
  BY SenderAssumption DEF ChannelTypeOK
<1>3. ASSUME NEW p \in toReceiver, Receive(p),
             NEW r \in toSender'[Me], r.type = "ACK", r.session = Me
      PROVE  r.ack_num < limit
  <2>1. CASE r \in toSender[Me]
    BY <1>3, <2>1 DEF MyAcksBelow
  <2> SUFFICES ASSUME r \notin toSender[Me] PROVE r.ack_num < limit
    BY <2>1
  <2>2. ASSUME NEW answers, Reply(p, answers)
        PROVE  r \in answers /\ p.session = Me
    BY <1>2, <2>2 DEF Reply
  <2>3. CASE AcceptStart(p) \/ ReAckStart(p)
    <3>1. PICK t : Reply(p, {StartAckPkt(t)})
      BY <2>3 DEF AcceptStart, ReAckStart
    <3> QED
      BY <1>3, <2>2, <3>1 DEF StartAckPkt
  <2>4. CASE VerifyFin(p) \/ DrainFin(p)
    <3>1. PICK b : Reply(p, {FinAckPkt(session, b)})
      BY <2>4 DEF VerifyFin, DrainFin
    <3> QED
      BY <1>3, <2>2, <3>1 DEF FinAckPkt
  <2>5. CASE AcceptInOrder(p)
    <3>1. PICK next \in (expected_seq + 1)..(expected_seq + 1 + Cardinality(Buffered)) :
            DrainsUpTo(next) /\ Reply(p, Acks(expected_seq..(next - 1)))
      BY <2>5 DEF AcceptInOrder
    <3>2. r \in Acks(expected_seq..(next - 1)) /\ p.session = Me
      BY <2>2, <3>1
    <3>3. r.ack_num \in expected_seq..(next - 1) /\ session = Me
      BY <1>3, <3>2 DEF Acks, AckPkt
    <3>4. CASE r.ack_num = expected_seq
      BY <2>5, <3>2, <3>4 DEF AcceptInOrder, IsData, MyDataBelow
    <3>5. CASE r.ack_num # expected_seq
      <4>1. r.ack_num \in (expected_seq + 1)..(next - 1)
        BY <3>1, <3>3, <3>5 DEF ReceiverInv, ReceiverTypeOK
      <4>2. r.ack_num \in 0..(limit - 1)
        BY <3>1, <3>3, <4>1 DEF DrainsUpTo
      <4> QED
        BY <4>2
    <3> QED
      BY <3>4, <3>5
  <2>6. CASE ReAckDuplicate(p) \/ BufferOutOfOrder(p) \/ DropOnOverflow(p) \/ AckLateData(p)
    <3>1. Reply(p, Acks({p.seq_num})) /\ p.type = "DATA"
      BY <2>6 DEF ReAckDuplicate, BufferOutOfOrder, DropOnOverflow, AckLateData,
                  IsDuplicate, IsNewOutOfOrder, IsData
    <3>2. r \in Acks({p.seq_num}) /\ p.session = Me
      BY <2>2, <3>1
    <3>3. r.ack_num = p.seq_num
      BY <3>2 DEF Acks, AckPkt
    <3> QED
      BY <3>1, <3>2, <3>3 DEF MyDataBelow
  <2>7. CASE UNCHANGED toSender
    BY <2>7
  <2> QED
    BY <1>3, <2>3, <2>4, <2>5, <2>6, <2>7
       DEF Receive, IgnoreBeforeStart, IgnoreInData, IgnoreInFin, DrainIgnore,
           DrainCorrupt, DropAtClosedPort, ReceiverReads
<1>4. \A p \in toSender'[Me] : p.type = "ACK" /\ p.session = Me => p.ack_num < limit
  BY <1>3 DEF ReceiverStep, DrainEmpty, RaiseBlockingIOError, Rebind, InactivityTimeout,
              channelVars, MyAcksBelow
<1>5. ASSUME NEW p \in toReceiver, Receive(p), session' = Me
      PROVE  Buffered' \subseteq 0..(limit - 1)
  <2>1. CASE AcceptStart(p)
    BY <2>1 DEF AcceptStart, ReceiverInv, Buffered
  <2>2. CASE AcceptInOrder(p)
    BY <1>5, <2>2 DEF AcceptInOrder, Buffered
  <2>3. CASE BufferOutOfOrder(p)
    <3>1. Buffered' = Buffered \cup {p.seq_num} /\ session = Me /\ p.type = "DATA"
          /\ p.session = Me /\ p # Garbage
      BY <1>5, <2>3 DEF BufferOutOfOrder, IsNewOutOfOrder, IsData, Buffered, Garbage
    <3>2. p.seq_num \in Nat /\ p.seq_num < limit
      BY <1>2, <3>1, RequestTypes DEF MyDataBelow
    <3> QED
      BY <3>1, <3>2
  <2>4. CASE UNCHANGED <<session, out_of_order_buffer>>
    BY <1>5, <2>4 DEF Buffered
  <2> QED
    BY <1>5, <2>1, <2>2, <2>3, <2>4, QuietChangesNothing
       DEF Receive, Quiet, VerifyFin, DrainCorrupt, rcvVars
<1>6. session' = Me => Buffered' \subseteq 0..(limit - 1)
  BY <1>5, SessionAssumption, SenderAssumption
     DEF ReceiverStep, DrainEmpty, RaiseBlockingIOError, Rebind, InactivityTimeout, Buffered
<1> QED
  BY <1>1, <1>4, <1>6

LEMMA ImpairSendsNoAck ==
  ASSUME ChannelTypeOK, Impair, NEW limit, MyAcksBelow(limit)
  PROVE  \A p \in toSender'[Me] : p.type = "ACK" /\ p.session = Me => p.ack_num < limit
<1>1. toSender'[Me] \subseteq toSender[Me] \cup {Garbage}
  BY ImpairTypes, SenderAssumption
<1> QED
  BY <1>1 DEF MyAcksBelow, Garbage

-----------------------------------------------------------------------------
(* What a sender knows of the receiver that serves it *)

(* What a sender is told to be acknowledged, is held.                       *)
LEMMA AckTakenIsHeld ==
  ASSUME Once, SharedInv, RoomFor(Me), ServingMe,
         NEW n \in Nat, n < NumChunks(Me), AckPkt(Me, n) \in toSender[Me]
  PROVE  Held(n)
<1>1. /\ AckPkt(Me, n).type = "ACK" /\ AckPkt(Me, n).ack_num = n
  BY DEF AckPkt
<1> QED
  BY <1>1, SenderAssumption
     DEF SharedInv, ServiceInv, AckedInv, AckedIsHeld, Held, ServingMe

(* What is held for this sender stays held, in every state in which the     *)
(* receiver still writes.                                                   *)
LEMMA MyHeldLasts ==
  ASSUME Once, SharedInv, ReceiverStep \/ InactivityTimeout, session = Me, Writing'
  PROVE  Writing /\ \A n \in Nat : Held(n) => Held(n)'
<1>1. toReceiver \subseteq Requests /\ ReceiverInv /\ ProgressInv
  BY DEF SharedInv, ServiceInv, ChannelTypeOK
<1>2. rcv_phase # "listen"
  BY <1>1, SessionAssumption, SenderAssumption DEF ProgressInv
<1>3. rcv_phase # "closed"
  <2> SUFFICES ASSUME rcv_phase = "closed" PROVE FALSE
    OBVIOUS
  <2>1. ASSUME NEW p \in toReceiver, Receive(p)
        PROVE  UNCHANGED rcvVars
    BY <1>2, <2>1, QuietChangesNothing
       DEF Receive, Quiet, AcceptStart, AcceptInOrder, IsData, BufferOutOfOrder,
           IsNewOutOfOrder, VerifyFin, InFinLoop, DrainCorrupt
  <2> QED
    BY <2>1 DEF ReceiverStep, DrainEmpty, RaiseBlockingIOError, Rebind,
                InactivityTimeout, Writing, rcvVars
<1>4. Writing
  BY <1>1, <1>2, <1>3 DEF ReceiverInv, ReceiverTypeOK, Phases, Writing
<1> QED
  BY <1>1, <1>4, HeldStays

(* If everything below base is held, all of it is in the file: base itself  *)
(* is no hole.                                                              *)
LEMMA BaseIsReached ==
  ASSUME ReceiverInv, Writing, NEW base \in Nat, \A n \in 0..(base - 1) : Held(n)
  PROVE  base <= expected_seq
<1>1. expected_seq \in Nat /\ expected_seq \notin Buffered
  BY DEF ReceiverInv, ReceiverTypeOK, BufferIsAhead
<1>2. CASE expected_seq < base
  <2>1. expected_seq \in 0..(base - 1)
    BY <1>1, <1>2
  <2>2. Held(expected_seq)
    BY <2>1
  <2> QED
    BY <1>1, <2>2 DEF Held
<1> QED
  BY <1>1, <1>2

(* A windowed sender whose base has not outrun what is held, and whose data *)
(* in flight has not outrun its window, finds its receiver where it must be. *)
LEMMA WindowMeetsReceiver ==
  ASSUME SharedInv, NEW base \in Nat, MyDataBelow(base + WindowSize[Me]),
         Tearing => NumChunks(Me) <= base,
         ServingMe => \A n \in 0..(base - 1) : Held(n)
  PROVE  NeverOutOfWindow /\ FinFindsDataComplete
<1>1. /\ ReceiverInv /\ ProgressInv /\ toReceiver \subseteq Requests
      /\ WindowSize[Me] \in Nat /\ NumChunks(Me) \in Nat
      /\ expected_seq \in Nat
  BY SizeAssumption, SenderAssumption, NumChunksType
     DEF SharedInv, ServiceInv, ChannelTypeOK, ReceiverInv, ReceiverTypeOK
<1>2. ServingMe => base <= expected_seq
  BY <1>1, BaseIsReached DEF ServingMe
<1>3. NeverOutOfWindow
  <2> SUFFICES ASSUME rcv_phase = "data", session = Me
               PROVE  MyDataBelow(expected_seq + WindowSize[Me])
    BY DEF NeverOutOfWindow, MyDataBelow
  <2>1. base <= expected_seq
    BY <1>2 DEF ServingMe, Writing
  <2> QED
    BY <1>1, <2>1, HigherLimit
<1>4. FinFindsDataComplete
  BY <1>1, <1>2 DEF FinFindsDataComplete, Tearing, ProgressInv, ServingMe
<1> QED
  BY <1>3, <1>4

-----------------------------------------------------------------------------
(* The promise of ReliableTransfer *)

LEMMA PromiseStarts ==
  ASSUME ReceiverInit, SessionInit
  PROVE  Promise!Init
<1>1. session # Me
  BY SessionAssumption, SenderAssumption DEF ReceiverInit
<1> QED
  BY <1>1 DEF Promise!Init, mine, SessionInit

(* A sender reports, once, and success only of a copy that is kept.         *)
LEMMA SenderKeepsPromise ==
  ASSUME Once, SharedInv, SenderKeepsBounds, UNCHANGED rcvVars
  PROVE  [Promise!Next]_(Promise!vars)
<1>1. UNCHANGED <<session, output, output_exists, outcome>>
  BY DEF rcvVars
<1>2. CASE snd_phase' = "success" /\ snd_phase # "success"
  <2>1. FinAckPkt(Me, TRUE) \in toSender[Me] /\ ~Finished
    BY <1>2 DEF SenderKeepsBounds, PhaseMoves, Finished
  <2>2. session = Me /\ outcome \in {"verified", "raised"}
    BY <2>1, SenderAssumption DEF SharedInv, ConfirmInv
  <2>3. Promise!ReportSuccess
    BY <1>1, <1>2, <2>1, <2>2 DEF Promise!ReportSuccess, mine, Finished
  <2> QED
    BY <2>3 DEF Promise!Next
<1>3. CASE snd_phase' = "failed" /\ snd_phase # "failed"
  <2>1. ~Finished
    BY <1>3 DEF SenderKeepsBounds, PhaseMoves
  <2>2. Promise!ReportFailure
    BY <1>1, <1>3, <2>1 DEF Promise!ReportFailure, mine, Finished
  <2> QED
    BY <2>2 DEF Promise!Next
<1>4. CASE /\ snd_phase' = "success" => snd_phase = "success"
           /\ snd_phase' = "failed" => snd_phase = "failed"
  <2>1. /\ snd_phase' = "success" <=> snd_phase = "success"
        /\ snd_phase' = "failed" <=> snd_phase = "failed"
    BY <1>4 DEF SenderKeepsBounds, PhaseMoves, Finished
  <2> QED
    BY <1>1, <2>1 DEF Promise!vars, mine
<1> QED
  BY <1>2, <1>3, <1>4

(* What the receiver does to the copy, seen from its session.               *)
LEMMA ReceiverKeepsPromise ==
  ASSUME Once, SharedInv, ReceiverStep \/ InactivityTimeout, UNCHANGED snd_phase
  PROVE  [Promise!Next]_(Promise!vars)
<1>1. toReceiver \subseteq Requests /\ ReceiverInv /\ ProgressInv
  BY DEF SharedInv, ServiceInv, ChannelTypeOK
<1>2. CASE session' # Me
  <2>1. session # Me
    BY <1>1, <1>2, MyServiceLasts
  <2> QED
    BY <1>2, <2>1 DEF Promise!vars, mine
<1>3. CASE UNCHANGED <<session, output, output_exists, outcome>>
  BY <1>3 DEF Promise!vars, mine
<1>4. ASSUME session = Me, NEW p \in toReceiver, AcceptInOrder(p)
      PROVE  Promise!Extend
  <2>1. /\ UNCHANGED <<session, output_exists, outcome>> /\ rcv_phase = "data" /\ Writing
        /\ rcv_phase' \in {"data", "fin"} /\ Writing'
    BY <1>4 DEF AcceptInOrder, IsData, PhaseAfter, Writing
  <2>2. outcome = "none" /\ output_exists /\ output = FirstChunks(Me, expected_seq)
    BY <1>1, <1>4, <2>1 DEF ProgressInv, ReceiverInv, OutputIsPrefix
  <2>3. ReceiverInv'
    BY <1>1, <1>4, AcceptInOrderStep
  <2>4. output' = FirstChunks(Me, expected_seq')
    BY <1>4, <2>1, <2>3 DEF ReceiverInv, OutputIsPrefix
  <2> DEFINE size == Smallest({NumChunks(Me), Readable(Me)})
  <2>5. NumChunks(Me) \in Nat /\ Readable(Me) \in Nat /\ size \in {NumChunks(Me), Readable(Me)}
    BY NumChunksType, SenderAssumption, SmallestOfTwo
  <2> HIDE DEF size
  <2>6. size \in Nat /\ expected_seq \in Nat /\ expected_seq' \in (expected_seq + 1)..size
    BY <1>1, <1>4, <2>5, DrainStaysInFile DEF ReceiverInv, ReceiverTypeOK
  <2>7. output' = SubSeq(FirstChunks(Me, size), 1, expected_seq')
    BY <2>4, <2>6, PrefixOfFirstChunks, SenderAssumption
  <2>8. Len(output) = expected_seq /\ Len(FirstChunks(Me, size)) = size
    BY <2>2, <2>6, FirstChunksAreSeq, SenderAssumption
  <2>9. \E k \in (Len(output) + 1)..Len(FirstChunks(Me, size)) :
          output' = SubSeq(FirstChunks(Me, size), 1, k)
    BY <2>6, <2>7, <2>8
  <2> QED
    BY <1>4, <2>1, <2>2, <2>9 DEF Promise!Extend, mine, size
<1>5. ASSUME session = Me, Unlink, session' = Me, rcv_phase \in {"data", "fin"},
             outcome' \in {"rejected", "timed_out"}
      PROVE  Promise!Discard
  <2>1. outcome = "none" /\ output_exists
    BY <1>1, <1>5 DEF ProgressInv, ReceiverInv, OutputIsPrefix, Writing
  <2> QED
    BY <1>5, <2>1 DEF Promise!Discard, mine, Unlink
<1>6. ASSUME session = Me, session' = Me, NEW p \in toReceiver, Receive(p)
      PROVE  [Promise!Next]_(Promise!vars)
  <2>1. CASE Quiet(p) \/ BufferOutOfOrder(p) \/ DrainCorrupt(p)
    BY <1>3, <2>1, QuietChangesNothing DEF BufferOutOfOrder, DrainCorrupt, rcvVars
  <2>2. CASE AcceptInOrder(p)
    BY <1>4, <1>6, <2>2 DEF Promise!Next
  <2>3. CASE AcceptStart(p)
    BY <1>1, <1>6, <2>3, SessionAssumption, SenderAssumption DEF AcceptStart, ProgressInv
  <2>4. CASE VerifyFin(p)
    <3>1. CASE output = Source(session)
      <4>1. /\ UNCHANGED <<output, output_exists>> /\ outcome' = "verified" /\ output_exists
        BY <1>1, <2>4, <3>1
           DEF VerifyFin, InFinLoop, ReceiverInv, OutputIsPrefix, Writing
      <4>2. Promise!Keep
        BY <1>6, <3>1, <4>1 DEF Promise!Keep, mine
      <4> QED
        BY <4>2 DEF Promise!Next
    <3>2. CASE output # Source(session)
      <4>1. rcv_phase = "fin" /\ Unlink /\ outcome' = "rejected"
        BY <1>1, <2>4, <3>2 DEF VerifyFin, InFinLoop, ReceiverInv
      <4> QED
        BY <1>5, <1>6, <4>1 DEF Promise!Next
    <3> QED
      BY <3>1, <3>2
  <2> QED
    BY <1>6, <2>1, <2>2, <2>3, <2>4 DEF Receive, Quiet
<1>7. CASE session = Me /\ session' = Me
  <2>1. CASE InactivityTimeout
    <3>1. Promise!Discard
      BY <1>5, <1>7, <2>1 DEF InactivityTimeout
    <3> QED
      BY <3>1 DEF Promise!Next
  <2>2. CASE DrainEmpty
    BY <1>3, <2>2 DEF DrainEmpty
  <2>3. CASE RaiseBlockingIOError
    <3>1. /\ UNCHANGED <<session, output, output_exists>>
          /\ outcome = "verified" /\ outcome' = "raised"
      BY <1>1, <2>3 DEF RaiseBlockingIOError, ReceiverInv
    <3> QED
      BY <1>7, <3>1 DEF Promise!vars, mine
  <2>4. CASE Rebind
    BY <2>4 DEF Rebind
  <2> QED
    BY <1>6, <1>7, <2>1, <2>2, <2>3, <2>4 DEF ReceiverStep
<1>8. CASE session # Me /\ session' = Me
  <2>1. PICK p \in toReceiver : AcceptStart(p)
    BY <1>1, <1>8, SessionStays
  <2>2. /\ rcv_phase = "listen" /\ output' = <<>> /\ output_exists' = TRUE
        /\ outcome' = outcome
    BY <2>1 DEF AcceptStart
  <2>3. outcome = "none"
    BY <1>1, <2>2 DEF ProgressInv
  <2>4. Promise!Open
    BY <1>8, <2>2, <2>3 DEF Promise!Open, mine
  <2> QED
    BY <2>4 DEF Promise!Next
<1> QED
  BY <1>2, <1>7, <1>8

LEMMA PromiseStutter ==
  ASSUME UNCHANGED snd_phase, UNCHANGED rcvVars
  PROVE  [Promise!Next]_(Promise!vars)
BY DEF Promise!vars, mine, rcvVars

-----------------------------------------------------------------------------
(* Success is preceded by delivery, also in the service loop *)

(* The file of this sender lies whole on disk while it is being served, or  *)
(* was the last to be.                                                      *)
DeliveredNow == session = Me /\ output_exists /\ output = Source(Me)

(* Nobody told this sender that its file arrived.                           *)
Untold == snd_phase # "success" /\ FinAckPkt(Me, TRUE) \notin toSender[Me]

LEMMA UntoldAtFirst ==
  ASSUME ChannelInit, SessionInit
  PROVE  Untold
BY SenderAssumption DEF ChannelInit, SessionInit, Untold

LEMMA SenderStaysUntold ==
  ASSUME SenderKeepsBounds, Untold
  PROVE  Untold'
BY SenderAssumption DEF SenderKeepsBounds, PhaseMoves, Untold

LEMMA NetworkTellsNothing ==
  ASSUME ChannelTypeOK, Impair, UNCHANGED snd_phase, Untold
  PROVE  Untold'
<1>1. toSender'[Me] \subseteq toSender[Me] \cup {Garbage}
  BY ImpairTypes, SenderAssumption
<1>2. FinAckPkt(Me, TRUE) # Garbage
  BY DEF FinAckPkt, Garbage
<1> QED
  BY <1>1, <1>2 DEF Untold

(* The receiver confirms only what it holds at that moment.                 *)
LEMMA ReceiverTellsTheDelivered ==
  ASSUME ChannelTypeOK, ReceiverInv, ReceiverStep \/ InactivityTimeout,
         UNCHANGED snd_phase, Untold, ~DeliveredNow
  PROVE  Untold'
<1> SUFFICES ASSUME FinAckPkt(Me, TRUE) \in toSender'[Me] PROVE FALSE
  BY DEF Untold
<1>1. /\ toSender \in [Sessions -> SUBSET Replies] /\ toReceiver \subseteq Requests
      /\ Me \in Sessions /\ FinAckPkt(Me, TRUE) \notin toSender[Me]
  BY SenderAssumption DEF ChannelTypeOK, Untold
<1>2. PICK p \in toReceiver : Receive(p)
  BY <1>1 DEF ReceiverStep, DrainEmpty, RaiseBlockingIOError, Rebind, InactivityTimeout,
              channelVars
<1>3. ASSUME NEW answers, Reply(p, answers) PROVE p.session = Me
  BY <1>1, <1>3 DEF Reply
<1>4. CASE VerifyFin(p)
  <2>1. Reply(p, {FinAckPkt(session, output = Source(session))}) /\ p.session = session /\ Writing
    BY <1>4 DEF VerifyFin, InFinLoop, Writing
  <2>2. session = Me /\ output_exists
    BY <1>3, <2>1 DEF ReceiverInv, OutputIsPrefix
  <2>3. output # Source(session)
    BY <2>2 DEF DeliveredNow
  <2>4. (output = Source(session)) = FALSE
    BY <2>3
  <2>5. Reply(p, {FinAckPkt(session, FALSE)})
    BY <2>1, <2>4
  <2> QED
    BY <1>1, <2>5, OtherAnswers DEF FinAckPkt
<1>5. CASE DrainFin(p)
  <2>1. /\ Reply(p, {FinAckPkt(session, TRUE)}) /\ p.session = session
        /\ rcv_phase = "drain" /\ Writing
    BY <1>5 DEF DrainFin, Writing
  <2>2. session = Me /\ output_exists /\ output = Source(session)
    BY <1>3, <2>1 DEF ReceiverInv, OutputIsPrefix
  <2> QED
    BY <2>2 DEF DeliveredNow
<1>6. CASE AcceptStart(p) \/ ReAckStart(p)
  <2>1. PICK t : Reply(p, {StartAckPkt(t)})
    BY <1>6 DEF AcceptStart, ReAckStart
  <2> QED
    BY <1>1, <2>1, OtherAnswers DEF FinAckPkt, StartAckPkt
<1>7. CASE \/ AcceptInOrder(p) \/ ReAckDuplicate(p) \/ BufferOutOfOrder(p)
           \/ DropOnOverflow(p) \/ AckLateData(p)
  <2>1. PICK ns : Reply(p, Acks(ns))
    BY <1>7 DEF AcceptInOrder, ReAckDuplicate, BufferOutOfOrder, DropOnOverflow, AckLateData
  <2> QED
    BY <1>1, <2>1, OtherAnswers DEF FinAckPkt, AckPkt, Acks
<1>8. CASE UNCHANGED toSender
  BY <1>1, <1>8
<1> QED
  BY <1>2, <1>4, <1>5, <1>6, <1>7, <1>8
     DEF Receive, IgnoreBeforeStart, IgnoreInData, IgnoreInFin, DrainIgnore, DrainCorrupt,
         DropAtClosedPort, ReceiverReads
=============================================================================
