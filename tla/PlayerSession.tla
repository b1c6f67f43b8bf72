--------------------------- MODULE PlayerSession ---------------------------
(***************************************************************************)
(* type Session of game/game.go: the guesses one player made in one game   *)
(* and the best of them.                                                   *)
(***************************************************************************)
EXTENDS Words, Sequences

CONSTANT MaxGuesses      \* game.MaxGuesses

ASSUME MaxGuessesAssumption == MaxGuesses \in Nat \ {0}

Session == [guesses : Seq(Guess), best : Guess \cup {NoGuess}]

NewSession == [guesses |-> <<>>, best |-> NoGuess]

(* Won looks at the best guess, not at the last one.                       *)
Won(s) == Len(s.guesses) # 0 /\ Correct(s.best)

CanPlay(s) == Len(s.guesses) < MaxGuesses

Ended(s) == Len(s.guesses) = MaxGuesses \/ Won(s)

(* play that always keeps the latest guess as the best one.                *)
AddGuessKeepingLatest(s, w) ==
  [guesses |-> Append(s.guesses, w), best |-> w]

(* (Session).play: the guess is appended, and becomes the best one when    *)
(* there was none or it ranks higher.                                      *)
AddGuess(s, w) ==
  [guesses |-> Append(s.guesses, w),
   best    |-> IF s.best = NoGuess \/ GreaterThan(w, s.best)
               THEN w ELSE s.best]
=============================================================================
