---------------------------- MODULE FileService ----------------------------
(***************************************************************************)
(* What the receiver promises of the one file at its output path, over all *)
(* the calls of receive_file: each call empties the file, lets it grow by  *)
(* chunks of its own user in order, and ends it in one of two ways.        *)
(* Either the user was told, in this call, that the file is the whole      *)
(* original, and then the file is left as it is; or the user was told no   *)
(* such thing, and then nothing is left.  A later call may well empty a    *)
(* file that somebody was told of: that is no part of the promise.         *)
(***************************************************************************)
EXTENDS Naturals, Sequences

CONSTANTS
  Users,
  Nobody,     \* not a user: no call is being served
  Original,   \* [Users -> Seq]: the file as it was hashed
  Chunks      \* [Users -> Seq]: the part of it that is sent

VARIABLES
  user,       \* whose file the call in progress writes
  copy,       \* the file
  present,    \* it exists
  confirmed,  \* its user was told that it is whole
  told        \* everybody who was ever told so

vars == <<user, copy, present, confirmed, told>>

Init ==
  /\ user = Nobody
  /\ copy = <<>> /\ present = FALSE
  /\ confirmed = FALSE /\ told = {}

Open ==
  /\ user = Nobody
  /\ user' \in Users
  /\ copy' = <<>> /\ present' = TRUE
  /\ UNCHANGED <<confirmed, told>>

InHand == user # Nobody /\ ~confirmed

Extend ==
  /\ InHand
  /\ \E k \in (Len(copy) + 1)..Len(Chunks[user]) : copy' = SubSeq(Chunks[user], 1, k)
  /\ UNCHANGED <<user, present, confirmed, told>>

Confirm ==
  /\ InHand /\ present /\ copy = Original[user]
  /\ confirmed' = TRUE
  /\ told' = told \cup {user}
  /\ UNCHANGED <<user, copy, present>>

Leave ==
  /\ confirmed
  /\ user' = Nobody /\ confirmed' = FALSE
  /\ UNCHANGED <<copy, present, told>>

Discard ==
  /\ InHand
  /\ user' = Nobody
  /\ copy' = <<>> /\ present' = FALSE
  /\ UNCHANGED <<confirmed, told>>

Next == Open \/ Extend \/ Confirm \/ Leave \/ Discard

Spec == Init /\ [][Next]_vars

-----------------------------------------------------------------------------
(* Between two calls there is no file, or the whole file of somebody who    *)
(* was told so.                                                             *)
AtRest ==
  user = Nobody /\ present => \E u \in told : copy = Original[u]
=============================================================================
