----------------------------- MODULE MCRoomPair -----------------------------
(* Room with two connections of one player: a kick, a leave and a join    *)
(* of the same player meet.                                                *)
EXTENDS Room, TLC

CONSTANTS alice, c1, c2

MCOwner == (c1 :> alice) @@ (c2 :> alice)
=============================================================================
