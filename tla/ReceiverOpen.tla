---------------------------- MODULE ReceiverOpen ----------------------------
(***************************************************************************)
(* The receiver alone, at the mercy of the network: whatever datagrams     *)
(* Leftover holds arrive in any order and, of a hostile network, any number *)
(* of times.  With every request of every session in Leftover this         *)
(* includes everything correct senders and UDP can do to the receiver.     *)
(***************************************************************************)
EXTENDS Receiver

vars == <<channelVars, rcvVars>>

Init == ChannelInit /\ ReceiverInit

Next == ReceiverStep \/ InactivityTimeout

Spec == Init /\ [][Next]_vars

TypeOK == ChannelTypeOK /\ ReceiverTypeOK

-----------------------------------------------------------------------------
(* The receiver implements what a file service promises its users.  Told are *)
(* the sessions to whom a positive FIN_ACK was sent (nobody takes a reply    *)
(* away here); a call is confirming from the verified FIN to its end.        *)

(* The chunks of a session that were announced and can be read. *)
Expected(s) ==
  FirstChunks(s, IF NumChunks(s) <= Readable(s) THEN NumChunks(s) ELSE Readable(s))

(* The session that is served, and whether it was told. *)
Served     == IF Writing THEN session ELSE NoSession
Confirming == rcv_phase \in {"drain", "fin_nb"}

Told == {s \in Sessions : FinAckPkt(s, TRUE) \in toSender[s]}

Service == INSTANCE FileService WITH
  Users     <- Sessions,
  Nobody    <- NoSession,
  Original  <- [s \in Sessions |-> Source(s)],
  Chunks    <- [s \in Sessions |-> Expected(s)],
  user      <- Served,
  copy      <- output,
  present   <- output_exists,
  confirmed <- Confirming,
  told      <- Told

ImplementsService == Service!Spec
=============================================================================
