--------------------------- MODULE MCReceiverOpen ---------------------------
(***************************************************************************)
(* Constants for ReceiverOpen.  Session a sends five chunks, the last one  *)
(* short, with a window of four; the file of b grew by a chunk after it    *)
(* was hashed; one of the two chunks of c was edited after it was hashed;  *)
(* the file of e is empty.                                                 *)
(***************************************************************************)
EXTENDS ReceiverOpen, TLC

CONSTANTS a, b, c, e

ForEach(f) == [s \in Sessions |-> f[s]]

Windows   == ForEach((a :> 4) @@ (b :> 1) @@ (c :> 2) @@ (e :> 2))
Inspected == ForEach((a :> 9) @@ (b :> 2) @@ (c :> 4) @@ (e :> 0))
AtReading == ForEach((a :> 9) @@ (b :> 4) @@ (c :> 4) @@ (e :> 0))
EditedC   == {<<c, 1>>}
AllRequests == Requests
=============================================================================
