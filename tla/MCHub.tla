------------------------------- MODULE MCHub -------------------------------
(***************************************************************************)
(* Two players, one guess each; the first room and one that is made from   *)
(* redis; one crash.                                                       *)
(***************************************************************************)
EXTENDS Hub, TLC

PlayerSymmetry == Permutations(Players)
=============================================================================
