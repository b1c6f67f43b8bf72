------------------------------- MODULE MCRoom -------------------------------
(* Room with a player that connects twice and one that connects once.      *)
EXTENDS Room, TLC

CONSTANTS alice, bob, a1, a2, b1

MCOwner == (a1 :> alice) @@ (a2 :> alice) @@ (b1 :> bob)

(* Neither connection of alice is special.                                 *)
AliceConns == Permutations({a1, a2})
=============================================================================
