------------------------------ MODULE Transfer ------------------------------
(***************************************************************************)
(* What the three compositions of a sender engine with the receiver share: *)
(* when the receiver gives up, and the properties that do not depend on    *)
(* the engine's books.                                                     *)
(***************************************************************************)
EXTENDS SenderSession, Receiver

(* The sender sits in recvfrom without a timeout (setblocking(True) was the *)
(* last thing its stream did to the socket).                                *)
BlockedInTeardown == snd_phase = "await_fin_ack" /\ ~timeout_armed

(* The receiver's 15 seconds.  Under Timely they outlast every              *)
(* retransmission timer: they pass only if no datagram is in flight and the *)
(* sender, being silent, will send no more.                                 *)
ReceiverGivesUp(silent) ==
  /\ InactivityTimeout
  /\ Timely => MayTimeOut(Me) /\ (Finished \/ BlockedInTeardown \/ silent)

-----------------------------------------------------------------------------
(* Properties *)

ServingMe == Writing /\ session = Me

(* The window never outruns the receiver: every chunk in flight to a        *)
(* receiver that serves this session is one it would take or has taken, so  *)
(* the out-of-window branch (protocol.py:1165) never costs a retry.         *)
NeverOutOfWindow ==
  rcv_phase = "data" /\ session = Me =>
    \A p \in toReceiver : p.type = "DATA" /\ p.session = Me =>
      p.seq_num < expected_seq + WindowSize[Me]

(* FIN is sent only when the receiver needs no more data: a receiver that   *)
(* serves this session is past its data loop, so FIN is never ignored.      *)
FinFindsDataComplete ==
  FinPkt(Me) \in toReceiver /\ ServingMe => rcv_phase # "data"

(* send_file returns success only if the receiver kept a copy equal to the  *)
(* source as it was hashed (send_teardown against the FIN loop).            *)
SuccessMeansDelivered ==
  snd_phase = "success" =>
    session = Me /\ output_exists /\ output = Source(Me)

(* The transfer implements what a transfer promises its users. *)
mine == session = Me

Promise == INSTANCE ReliableTransfer WITH
  Original <- Source(Me),
  Chunks   <- FirstChunks(Me, Smallest({NumChunks(Me), Readable(Me)})),
  copy     <- IF mine THEN output ELSE <<>>,
  present  <- mine /\ output_exists,
  kept     <- mine /\ outcome \in {"verified", "raised"},
  report   <- IF snd_phase = "success" THEN "success"
              ELSE IF snd_phase = "failed" THEN "failure" ELSE "none"

ImplementsPromise == Promise!Spec

(* When the network impairs at most MaxRetries datagrams and is otherwise   *)
(* kind, a stream that was begun ends with every chunk acknowledged         *)
(* (send_file_stream).                                                      *)
StreamCompletes == Timely /\ snd_phase = "stream" ~> snd_phase = "teardown"

(* When it impairs fewer than MaxRetries the handshake succeeds: a          *)
(* START_ACK that was lost is asked for again (send_handshake against       *)
(* protocol.py:1172, "Sender re-transmitted START; re-acknowledge").        *)
HandshakeCompletes == Timely => <>(snd_phase = "stream")

(* send_file returns: every attempt and every retry is counted. *)
SenderTerminates == <>Finished

(* A transfer that repaired every loss of its stream and whose teardown     *)
(* meets none is reported as a success (README.md:84, "Guaranteed via       *)
(* Selective Repeat ARQ"; send_teardown against the FIN loop).              *)
CleanTeardownSucceeds ==
  \A k \in UNION {0..b : b \in Budgets \ {Hostile}} :
    /\ <>(snd_phase = "teardown")
    /\ [](snd_phase \in {"teardown", "await_fin_ack"} => budget = k)
    => <>(snd_phase = "success" /\ output_exists /\ output = Source(Me))

(* A receiver that accepted the session comes out of receive_file, if its   *)
(* 15 silent seconds do come.                                               *)
ReceiverReturns == Timely /\ session = Me ~> rcv_phase = "closed"
=============================================================================
