------------------------------- MODULE MCGame -------------------------------
(* Game on small sets.  Scores are a miss, one misplaced letter, and the   *)
(* word itself: the three kinds GreaterThan, Correct and Won tell apart.   *)
EXTENDS History

MCScores == {<<0, 0>>, <<0, 1>>, <<Length, 0>>}

(* The players other than the creator are interchangeable.                 *)
Guests == Permutations(Players \ {Creator})

(* What a room does while the collector is closing it is followed for two  *)
(* players, what it does undisturbed for all of them.                      *)
ClosingBound == collector = "away" \/ Cardinality(joined) <= 2
=============================================================================
