------------------------------- MODULE Words -------------------------------
(***************************************************************************)
(* A guessed word as the rest of the server sees it (game/word/word.go):   *)
(* how many letters are Correct, how many only Exist, and when it was      *)
(* played.  The letters themselves are abstracted away: group() is all     *)
(* that Correct and GreaterThan read of them.                              *)
(***************************************************************************)
EXTENDS Naturals

CONSTANT Length      \* word.Length, the number of letters of a word

ASSUME LengthAssumption == Length \in Nat \ {0}

(* What Check can leave in Stats, reduced by group() to two counts.        *)
Score == {s \in (0..Length) \X (0..Length) : s[1] + s[2] <= Length}

(* A played word.  PlayedAt.Valid holds of these, so `at' is never 0.      *)
Guess == [correct : 0..Length, exists : 0..Length, at : Nat \ {0}]

(* The zero Word that BestGuess() returns for a nil pointer: no Stats, and *)
(* a PlayedAt that is not Valid (time 0).                                  *)
NoGuess == [correct |-> 0, exists |-> 0, at |-> 0]

(* A guess whose PlayedAt is never scanned.                                *)
NewGuessWithoutTime(score, t) ==
  [correct |-> score[1], exists |-> score[2], at |-> 0]

NewGuess(score, t) == [correct |-> score[1], exists |-> score[2], at |-> t]

Correct(w) == w.correct = Length

(* w ranks higher than other: more correct letters, then more existing     *)
(* ones, then the earlier of the two; a word never played is not higher.   *)
GreaterThan(w, other) ==
  \/ w.correct > other.correct
  \/ w.correct = other.correct /\ w.exists > other.exists
  \/ /\ w.correct = other.correct
     /\ w.exists = other.exists
     /\ w.at # 0
     /\ w.at < other.at

ScoreOf(w) == <<w.correct, w.exists>>
=============================================================================
