-------------------------- MODULE ReliableTransfer --------------------------
(***************************************************************************)
(* What one transfer promises its two users, whatever the network does:    *)
(* the copy grows by the chunks of the source in order, is kept only when  *)
(* it is the whole source, is deleted otherwise, and the sender reports    *)
(* success only for a copy that was kept.  A copy may be kept and the      *)
(* sender still report failure: no acknowledgement of the last message is  *)
(* ever certain.                                                           *)
(***************************************************************************)
EXTENDS Naturals, Sequences

CONSTANTS
  Original, \* the file as it was hashed, a sequence of chunks
  Chunks    \* the file as it is read for sending

VARIABLES
  copy,       \* the receiver's file
  present,    \* it exists
  kept,       \* it was verified and will stay
  report      \* what send_file returned: "none", "success" or "failure"

vars == <<copy, present, kept, report>>

Init ==
  /\ copy = <<>> /\ present = FALSE /\ kept = FALSE
  /\ report = "none"

Open ==
  /\ ~present /\ ~kept
  /\ copy' = <<>> /\ present' = TRUE
  /\ UNCHANGED <<kept, report>>

Extend ==
  /\ present /\ ~kept
  /\ \E k \in (Len(copy) + 1)..Len(Chunks) : copy' = SubSeq(Chunks, 1, k)
  /\ UNCHANGED <<present, kept, report>>

Keep ==
  /\ present /\ copy = Original
  /\ kept' = TRUE
  /\ UNCHANGED <<copy, present, report>>

Discard ==
  /\ present /\ ~kept
  /\ copy' = <<>> /\ present' = FALSE
  /\ UNCHANGED <<kept, report>>

ReportSuccess ==
  /\ report = "none" /\ kept
  /\ report' = "success"
  /\ UNCHANGED <<copy, present, kept>>

ReportFailure ==
  /\ report = "none"
  /\ report' = "failure"
  /\ UNCHANGED <<copy, present, kept>>

Next == Open \/ Extend \/ Keep \/ Discard \/ ReportSuccess \/ ReportFailure

Spec == Init /\ [][Next]_vars
=============================================================================
