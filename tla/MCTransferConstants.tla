------------------------ MODULE MCTransferConstants ------------------------
(***************************************************************************)
(* Values for the constants of the three transfers: the sender under test  *)
(* is me; other is an earlier sender, of a one-chunk file, of which only   *)
(* late datagrams are left.                                                *)
(***************************************************************************)
EXTENDS Packets

CONSTANTS me, other, MyWindow, MySize, MyReadSize

Windows   == [s \in Sessions |-> IF s = me THEN MyWindow ELSE 2]
Inspected == [s \in Sessions |-> IF s = me THEN MySize ELSE 2]
AtReading == [s \in Sessions |-> IF s = me THEN MyReadSize ELSE 2]
NoEdits   == {}
Nothing   == {}
LateArrivals == {StartPkt(other), DataPkt(other, 0), FinPkt(other)}
=============================================================================
