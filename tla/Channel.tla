------------------------------ MODULE Channel ------------------------------
(***************************************************************************)
(* UDP between the senders and the one receiver port, with the impairments *)
(* that app/simulator.py injects: datagrams are lost, corrupted, delayed,  *)
(* reordered and (by the network) duplicated.  A datagram waits in a set   *)
(* until somebody receives it, so every order of delivery is possible.     *)
(*                                                                         *)
(* budget says what the network may still do.  Hostile: a datagram stays   *)
(* after it was delivered, so it may arrive any number of times, or, never *)
(* being picked, not at all; any may be corrupted; timers race with it;    *)
(* datagrams of earlier senders are about.  A number: each datagram is     *)
(* delivered at most once and before the other side loses patience, but    *)
(* for so many that are lost or corrupted.                                 *)
(***************************************************************************)
EXTENDS Packets

CONSTANTS
  Hostile,    \* the budget that never ends
  Budgets,    \* the networks to consider, by what they may do
  Leftover    \* datagrams of earlier senders in flight at the start

ASSUME ChannelAssumption ==
  /\ Hostile \notin Nat
  /\ Budgets \subseteq Nat \cup {Hostile}
  /\ Leftover \subseteq Requests

VARIABLES
  toReceiver,   \* datagrams in flight to the receiver's port
  toSender,     \* per session, datagrams in flight to its sender's address
  budget        \* see above

channelVars == <<toReceiver, toSender, budget>>

Duplicating == budget = Hostile
Timely      == budget # Hostile

ChannelTypeOK ==
  /\ toReceiver \subseteq Requests
  /\ toSender \in [Sessions -> SUBSET Replies]
  /\ budget \in Nat \cup {Hostile}

ChannelInit ==
  /\ budget \in Budgets
  /\ toReceiver = IF Duplicating THEN Leftover ELSE {}
  /\ toSender = [s \in Sessions |-> {}]

-----------------------------------------------------------------------------
(* recvfrom: what remains in flight once p was delivered. *)
Delivered(net, p) == IF Duplicating THEN net ELSE net \ {p}

(* The receiver answers p: one reply datagram to the address p came from.   *)
Reply(p, reply) ==
  /\ toReceiver' = Delivered(toReceiver, p)
  /\ toSender' = [toSender EXCEPT ![p.session] = @ \cup reply]
  /\ UNCHANGED budget

ReceiverReads(p) ==
  /\ toReceiver' = Delivered(toReceiver, p)
  /\ UNCHANGED <<toSender, budget>>

(* The sender of session s takes p from its socket. *)
SenderReads(s, p) ==
  /\ toSender' = [toSender EXCEPT ![s] = Delivered(@, p)]
  /\ UNCHANGED <<toReceiver, budget>>

SenderSends(packets) ==
  /\ toReceiver' = toReceiver \cup packets
  /\ UNCHANGED <<toSender, budget>>

(* Under Timely a timer of a sender expires only once nothing it could      *)
(* still be waiting for is in flight.                                       *)
MayTimeOut(s) == Timely => toReceiver = {} /\ toSender[s] = {}

-----------------------------------------------------------------------------
(* SimulatedSocket.sendto and the network below it *)

LoseRequest ==
  /\ Timely /\ budget > 0
  /\ \E p \in toReceiver : toReceiver' = toReceiver \ {p}
  /\ budget' = budget - 1
  /\ UNCHANGED toSender

LoseReply(s) ==
  /\ Timely /\ budget > 0
  /\ \E p \in toSender[s] : toSender' = [toSender EXCEPT ![s] = @ \ {p}]
  /\ budget' = budget - 1
  /\ UNCHANGED toReceiver

BudgetLeft == IF Duplicating THEN budget ELSE budget - 1

CorruptRequest ==
  /\ budget # 0
  /\ \E p \in toReceiver \ {Garbage} :
       toReceiver' = Delivered(toReceiver, p) \cup {Garbage}
  /\ budget' = BudgetLeft
  /\ UNCHANGED toSender

CorruptReply(s) ==
  /\ budget # 0
  /\ \E p \in toSender[s] \ {Garbage} :
       toSender' = [toSender EXCEPT ![s] = Delivered(@, p) \cup {Garbage}]
  /\ budget' = BudgetLeft
  /\ UNCHANGED toReceiver

Impair ==
  \/ LoseRequest
  \/ CorruptRequest
  \/ \E s \in Sessions : LoseReply(s) \/ CorruptReply(s)
=============================================================================
