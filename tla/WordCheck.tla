----------------------------- MODULE WordCheck -----------------------------
(***************************************************************************)
(* Word.Check (game/word/word.go:108-149), loop step by loop step: a first *)
(* pass marks the letters that stand where the answer has them, a second   *)
(* one those that the answer has left over elsewhere.  Its result, reduced *)
(* to two counts, is the score of a guess in Words.                        *)
(***************************************************************************)
EXTENDS Integers, Sequences, FiniteSets

CONSTANTS Letters,   \* the alphabet
          MaxLength  \* bound: length of the words looked at

ASSUME MaxLengthAssumption == MaxLength \in Nat \ {0}

VARIABLES
  answer,  \* correctWord
  guess,   \* the letters of w
  stats,   \* w.Stats
  status,  \* wordStatus, which is also what Check returns
  dict,    \* how often each letter of the answer is still to be found
  pc,      \* the loop that runs
  i        \* its index

vars == <<answer, guess, stats, status, dict, pc, i>>

WordsUpTo(n) == UNION {[1..k -> Letters] : k \in 1..n}

Occurrences(word, v) == Cardinality({k \in DOMAIN word : word[k] = v})

(* Mutant: a letter found does not count any less.                         *)
NotTaken(d, v) == d

Taken(d, v) == [d EXCEPT ![v] = @ - 1]

(* Mutant: that the answer has the letter is enough.                       *)
Known(d, v) == \E k \in DOMAIN answer : answer[k] = v

Left(d, v) == d[v] > 0

Marked(k, s) == status' = [status EXCEPT ![k] = s]

Init ==
  /\ answer \in WordsUpTo(MaxLength) /\ guess \in WordsUpTo(MaxLength)
  /\ stats = [k \in DOMAIN guess |-> "Unknown"]
  /\ status = [k \in DOMAIN guess |-> "Incorrect"]
  /\ dict = [v \in Letters |-> 0]
  /\ pc = "count" /\ i = 1

(* Words of another length are returned as all wrong, with no Stats set.   *)
WrongLength ==
  /\ pc = "count" /\ Len(guess) # Len(answer)
  /\ pc' = "returned"
  /\ UNCHANGED <<answer, guess, stats, status, dict, i>>

Count ==
  /\ pc = "count" /\ Len(guess) = Len(answer)
  /\ dict' = [v \in Letters |-> Occurrences(answer, v)]
  /\ pc' = "correct"
  /\ UNCHANGED <<answer, guess, stats, status, i>>

(* One letter of the first pass.                                           *)
MarkCorrect ==
  /\ pc = "correct" /\ i <= Len(guess)
  /\ \/ /\ guess[i] = answer[i]
        /\ Marked(i, "Correct")
        /\ dict' = Taken(dict, guess[i])
     \/ /\ guess[i] # answer[i]
        /\ UNCHANGED <<status, dict>>
  /\ i' = i + 1
  /\ UNCHANGED <<answer, guess, stats, pc>>

SecondPass ==
  /\ pc = "correct" /\ i > Len(guess)
  /\ pc' = "exists" /\ i' = 1
  /\ UNCHANGED <<answer, guess, stats, status, dict>>

(* One letter of the second pass.                                          *)
MarkExists ==
  /\ pc = "exists" /\ i <= Len(guess)
  /\ \/ /\ status[i] # "Correct" /\ Left(dict, guess[i])
        /\ Marked(i, "Exists")
        /\ dict' = Taken(dict, guess[i])
     \/ /\ status[i] = "Correct" \/ ~Left(dict, guess[i])
        /\ UNCHANGED <<status, dict>>
  /\ i' = i + 1
  /\ UNCHANGED <<answer, guess, stats, pc>>

Return ==
  /\ pc = "exists" /\ i > Len(guess)
  /\ stats' = status
  /\ pc' = "returned"
  /\ UNCHANGED <<answer, guess, status, dict, i>>

Next == WrongLength \/ Count \/ MarkCorrect \/ SecondPass \/ MarkExists \/ Return

Spec == Init /\ [][Next]_vars

-----------------------------------------------------------------------------
Statuses == [DOMAIN guess -> {"Unknown", "Incorrect", "Exists", "Correct"}]

(* Type invariant.  The counts in the dictionary never go below zero: the  *)
(* two passes together take no letter more often than the answer has it.   *)
TypeOK ==
  /\ answer \in WordsUpTo(MaxLength) /\ guess \in WordsUpTo(MaxLength)
  /\ stats \in Statuses /\ status \in Statuses
  /\ dict \in [Letters -> Nat]
  /\ pc \in {"count", "correct", "exists", "returned"}
  /\ i \in 1..MaxLength + 1

Found(v) == {k \in DOMAIN guess : guess[k] = v /\ status[k] \in {"Correct", "Exists"}}

(* Between any two steps each letter of the answer is either found in the  *)
(* guess or still in the dictionary (word.go:122-146).                     *)
LettersAreAccountedFor ==
  pc \in {"correct", "exists"} =>
    \A v \in Letters : dict[v] + Cardinality(Found(v)) = Occurrences(answer, v)

(* The rule of the game, without loops: a letter in its place is Correct;  *)
(* of the others with the same letter, the first ones are Exists, as many  *)
(* as the answer has of that letter at places not guessed.                 *)
Misplaced(v) == {k \in DOMAIN guess : guess[k] = v /\ guess[k] # answer[k]}

Missed(v) == {k \in DOMAIN answer : answer[k] = v /\ guess[k] # answer[k]}

Reference(k) ==
  IF guess[k] = answer[k] THEN "Correct"
  ELSE IF Cardinality({j \in Misplaced(guess[k]) : j < k}) < Cardinality(Missed(guess[k]))
  THEN "Exists" ELSE "Incorrect"

(* Check returns what the rule says, repeated letters included             *)
(* (word.go:128-148).                                                      *)
ChecksByTheRule ==
  pc = "returned" /\ Len(guess) = Len(answer) => stats = [k \in DOMAIN guess |-> Reference(k)]
=============================================================================
