-------------------------- MODULE WordCheckProofs --------------------------
(***************************************************************************)
(* Word.Check follows the rule of the game, for words of any length over   *)
(* any alphabet.                                                           *)
(***************************************************************************)
EXTENDS WordCheck, FiniteSetTheorems, TLAPS

(* The misplaced letters v that the second pass has been through before k. *)
Before(v, k) == {j \in Misplaced(v) : j < k}

(* Both passes run over words of one length.                               *)
SameLength ==
  pc \in {"correct", "exists"} => Len(guess) = Len(answer) /\ i <= Len(guess) + 1

(* Nothing is marked before the passes.                                    *)
NothingYet ==
  pc = "count" => i = 1 /\ \A k \in DOMAIN guess : status[k] = "Incorrect"

(* The first pass has marked the letters in place that it has been through. *)
FirstMarks ==
  pc = "correct" =>
    \A k \in DOMAIN guess :
      status[k] = IF k < i /\ guess[k] = answer[k] THEN "Correct" ELSE "Incorrect"

(* The second pass starts from all of these and has followed the rule.     *)
SecondMarks ==
  pc = "exists" =>
    \A k \in DOMAIN guess :
      status[k] = IF k < i \/ guess[k] = answer[k] THEN Reference(k) ELSE "Incorrect"

(* What the dictionary has left of v in the second pass: the places missed *)
(* that no misplaced letter has used up yet.                               *)
LeftInSecond ==
  pc = "exists" =>
    \A v \in Letters :
      LET m == Cardinality(Missed(v))
          b == Cardinality(Before(v, i))
      IN dict[v] = IF b < m THEN m - b ELSE 0

(* The inductive invariant.                                                *)
IInv ==
  /\ TypeOK
  /\ LettersAreAccountedFor
  /\ ChecksByTheRule
  /\ SameLength
  /\ NothingYet
  /\ FirstMarks
  /\ SecondMarks
  /\ LeftInSecond

-----------------------------------------------------------------------------
(* A word is a sequence of letters.                                        *)
LEMMA WordShape ==
  ASSUME NEW w, w \in WordsUpTo(MaxLength)
  PROVE  /\ Len(w) \in 1..MaxLength /\ Len(w) \in Nat
         /\ DOMAIN w = 1..Len(w)
         /\ w \in [1..Len(w) -> Letters]
<1>1. PICK n \in 1..MaxLength : w \in [1..n -> Letters]
  BY DEF WordsUpTo
<1>2. n \in Nat /\ DOMAIN w = 1..n
  BY <1>1, MaxLengthAssumption
<1>3. w \in Seq(Letters)
  BY <1>1, <1>2
<1>4. Len(w) = n
  BY <1>2, <1>3
<1> QED
  BY <1>1, <1>2, <1>4

(* Whatever part of a word is counted has a number.                        *)
LEMMA PartCounts ==
  ASSUME NEW w, w \in WordsUpTo(MaxLength), NEW T, T \subseteq DOMAIN w
  PROVE  IsFiniteSet(T) /\ Cardinality(T) \in Nat
<1>1. DOMAIN w = 1..Len(w) /\ Len(w) \in Nat
  BY WordShape
<1>2. IsFiniteSet(DOMAIN w)
  BY <1>1, FS_Interval
<1> QED
  BY <1>2, FS_Subset, FS_CardinalityType

(* Both words and where the letters of them are, while they are compared.  *)
LEMMA Compared ==
  ASSUME TypeOK, Len(guess) = Len(answer)
  PROVE  /\ Len(guess) \in Nat /\ Len(guess) \in 1..MaxLength
         /\ DOMAIN guess = 1..Len(guess)
         /\ DOMAIN answer = DOMAIN guess
         /\ \A k \in DOMAIN guess : guess[k] \in Letters /\ answer[k] \in Letters
<1>1. answer \in WordsUpTo(MaxLength) /\ guess \in WordsUpTo(MaxLength)
  BY DEF TypeOK
<1>2. /\ Len(guess) \in 1..MaxLength /\ Len(guess) \in Nat
      /\ DOMAIN guess = 1..Len(guess) /\ guess \in [1..Len(guess) -> Letters]
  BY <1>1, WordShape
<1>3. DOMAIN answer = 1..Len(answer) /\ answer \in [1..Len(answer) -> Letters]
  BY <1>1, WordShape
<1> QED
  BY <1>2, <1>3

LEMMA InitInv == Init => IInv
<1> SUFFICES ASSUME Init PROVE IInv
  OBVIOUS
<1>1. TypeOK
  BY MaxLengthAssumption DEF Init, TypeOK, Statuses
<1> QED
  BY <1>1 DEF Init, IInv, LettersAreAccountedFor, ChecksByTheRule, SameLength,
     NothingYet, FirstMarks, SecondMarks, LeftInSecond

(* The rule looks at nothing but the words, which no step changes.         *)
LEMMA RuleRests ==
  ASSUME answer' = answer, guess' = guess
  PROVE  /\ \A v : Misplaced(v)' = Misplaced(v) /\ Missed(v)' = Missed(v)
         /\ \A v, k : Before(v, k)' = Before(v, k)
         /\ \A k : Reference(k)' = Reference(k)
         /\ \A v : Occurrences(answer, v)' = Occurrences(answer, v)
<1>1. \A v : Misplaced(v)' = Misplaced(v) /\ Missed(v)' = Missed(v)
  BY DEF Misplaced, Missed
<1>2. \A v, k : Before(v, k)' = Before(v, k)
  BY DEF Before, Misplaced
<1>3. \A k : Reference(k)' = Reference(k)
  BY DEF Reference, Misplaced, Missed
<1>4. \A v : Occurrences(answer, v)' = Occurrences(answer, v)
  BY DEF Occurrences
<1> QED
  BY <1>1, <1>2, <1>3, <1>4

LEMMA StutterInv ==
  ASSUME IInv, UNCHANGED vars
  PROVE  IInv'
<1>1. /\ answer' = answer /\ guess' = guess /\ stats' = stats
      /\ status' = status /\ dict' = dict /\ pc' = pc /\ i' = i
  BY DEF vars
<1>2. \A v : Found(v)' = Found(v)
  BY <1>1 DEF Found
<1>3. TypeOK' /\ SameLength' /\ NothingYet' /\ FirstMarks'
  BY <1>1 DEF IInv, TypeOK, Statuses, SameLength, NothingYet, FirstMarks
<1>4. LettersAreAccountedFor'
  BY <1>1, <1>2, RuleRests DEF IInv, LettersAreAccountedFor
<1>5. ChecksByTheRule' /\ SecondMarks'
  BY <1>1, RuleRests DEF IInv, ChecksByTheRule, SecondMarks
<1>6. LeftInSecond'
  <2>1. \A v : Before(v, i)' = Before(v, i)
    BY <1>1 DEF Before, Misplaced
  <2> QED
    BY <1>1, <2>1, RuleRests DEF IInv, LeftInSecond
<1> QED
  BY <1>3, <1>4, <1>5, <1>6 DEF IInv

LEMMA WrongLengthInv ==
  ASSUME IInv, WrongLength
  PROVE  IInv'
<1>1. TypeOK'
  BY DEF IInv, TypeOK, Statuses, WrongLength
<1> QED
  BY <1>1 DEF IInv, WrongLength, LettersAreAccountedFor, ChecksByTheRule, SameLength,
     NothingYet, FirstMarks, SecondMarks, LeftInSecond

LEMMA CountInv ==
  ASSUME IInv, Count
  PROVE  IInv'
<1>1. /\ answer \in WordsUpTo(MaxLength)
      /\ \A v : Occurrences(answer, v) \in Nat
  <2>1. answer \in WordsUpTo(MaxLength)
    BY DEF IInv, TypeOK
  <2>2. \A v : {k \in DOMAIN answer : answer[k] = v} \subseteq DOMAIN answer
    OBVIOUS
  <2> QED
    BY <2>1, <2>2, PartCounts DEF Occurrences
<1>2. TypeOK'
  BY <1>1 DEF IInv, TypeOK, Statuses, Count
<1>3. Len(guess) \in Nat /\ Len(guess) = Len(answer)
  BY Compared DEF IInv, Count
<1>4. i = 1 /\ \A k \in DOMAIN guess : status[k] = "Incorrect"
  BY DEF IInv, NothingYet, Count
<1>5. LettersAreAccountedFor'
  <2>1. \A v : Found(v)' = {}
    BY <1>4 DEF Found, Count
  <2>2. \A v \in Letters : dict'[v] = Occurrences(answer, v) /\ answer' = answer
    BY DEF Count
  <2>3. \A v : Occurrences(answer, v)' = Occurrences(answer, v)
    BY RuleRests DEF Count
  <2> QED
    BY <1>1, <2>1, <2>2, <2>3, FS_EmptySet DEF LettersAreAccountedFor
<1>6. FirstMarks'
  <2>1. DOMAIN guess = 1..Len(guess)
    BY <1>3, Compared DEF IInv
  <2> QED
    BY <1>3, <1>4, <2>1 DEF FirstMarks, Count
<1> QED
  BY <1>2, <1>3, <1>4, <1>5, <1>6
  DEF IInv, Count, ChecksByTheRule, SameLength, NothingYet, SecondMarks, LeftInSecond

-----------------------------------------------------------------------------
(* In either pass a letter that is marked and taken from the dictionary    *)
(* stays accounted for, if the dictionary still had it.                    *)
LEMMA TakeOne ==
  ASSUME TypeOK, LettersAreAccountedFor, Len(guess) = Len(answer),
         pc \in {"correct", "exists"},
         answer' = answer, guess' = guess,
         i \in DOMAIN guess, status[i] = "Incorrect", dict[guess[i]] > 0,
         NEW s, s \in {"Correct", "Exists"}, Marked(i, s),
         dict' = Taken(dict, guess[i])
  PROVE  /\ status' \in Statuses /\ dict' \in [Letters -> Nat]
         /\ LettersAreAccountedFor'
<1>1. PICK g \in Letters : g = guess[i]
  BY Compared
<1>2. status \in Statuses /\ dict \in [Letters -> Nat] /\ guess \in WordsUpTo(MaxLength)
  BY DEF TypeOK
<1>3. status' = [status EXCEPT ![i] = s] /\ dict' = [dict EXCEPT ![g] = @ - 1]
  BY <1>1 DEF Marked, Taken
<1>4. status' \in Statuses
  BY <1>2, <1>3 DEF Statuses
<1>5. dict' \in [Letters -> Nat]
  BY <1>1, <1>2, <1>3
<1>6. \A v : IsFiniteSet(Found(v)) /\ Cardinality(Found(v)) \in Nat
  <2>1. \A v : Found(v) \subseteq DOMAIN guess
    BY DEF Found
  <2> QED
    BY <1>2, <2>1, PartCounts
<1>7. i \notin Found(g) /\ Found(g)' = Found(g) \cup {i}
  BY <1>1, <1>2, <1>3 DEF Found, Statuses
<1>8. \A v : v # g => Found(v)' = Found(v)
  BY <1>1, <1>2, <1>3 DEF Found, Statuses
<1>9. Cardinality(Found(g)') = Cardinality(Found(g)) + 1
  BY <1>6, <1>7, FS_AddElement
<1>10. \A v \in Letters : dict[v] + Cardinality(Found(v)) = Occurrences(answer, v)
  BY DEF LettersAreAccountedFor
<1>11. \A v : Occurrences(answer, v)' = Occurrences(answer, v)
  BY RuleRests
<1>12. ASSUME NEW v, v \in Letters
       PROVE  dict'[v] + Cardinality(Found(v)') = Occurrences(answer, v)
  <2>1. CASE v = g
    <3>1. dict'[v] = dict[v] - 1 /\ dict[v] \in Nat
      BY <1>1, <1>2, <1>3, <1>12, <2>1
    <3> QED
      BY <1>6, <1>9, <1>10, <1>12, <2>1, <3>1
  <2>2. CASE v # g
    <3>1. dict'[v] = dict[v]
      BY <1>2, <1>3, <1>12, <2>2
    <3> QED
      BY <1>8, <1>10, <1>12, <2>2, <3>1
  <2> QED
    BY <2>1, <2>2
<1>13. LettersAreAccountedFor'
  BY <1>11, <1>12 DEF LettersAreAccountedFor
<1> QED
  BY <1>4, <1>5, <1>13

(* The dictionary has the letter in place that the first pass comes to:    *)
(* the same letters before are at other places of the answer.              *)
LEMMA InPlaceIsLeft ==
  ASSUME IInv, pc = "correct", i \in DOMAIN guess, guess[i] = answer[i]
  PROVE  dict[guess[i]] > 0
<1> DEFINE g == guess[i]
           At == {k \in DOMAIN answer : answer[k] = g}
<1>1. Len(guess) = Len(answer) /\ TypeOK
  BY DEF IInv, SameLength
<1>2. g \in Letters /\ DOMAIN answer = DOMAIN guess /\ i \in Nat
  BY <1>1, Compared
<1>3. \A k \in Found(g) : k \in At /\ k # i
  BY <1>2 DEF IInv, FirstMarks, Found
<1>4. Found(g) \cup {i} \subseteq At /\ i \notin Found(g)
  BY <1>2, <1>3
<1>5. IsFiniteSet(At) /\ Cardinality(At) \in Nat
  BY <1>1, PartCounts DEF TypeOK
<1>6. IsFiniteSet(Found(g)) /\ Cardinality(Found(g)) \in Nat
  <2>1. Found(g) \subseteq DOMAIN guess
    BY DEF Found
  <2> QED
    BY <1>1, <2>1, PartCounts DEF TypeOK
<1>7. Cardinality(Found(g) \cup {i}) = Cardinality(Found(g)) + 1
  BY <1>4, <1>6, FS_AddElement
<1>8. Cardinality(Found(g) \cup {i}) <= Cardinality(At)
  BY <1>4, <1>5, FS_Subset
<1>9. dict[g] + Cardinality(Found(g)) = Cardinality(At)
  BY <1>2 DEF IInv, LettersAreAccountedFor, Occurrences
<1>10. dict[g] \in Nat
  BY <1>1, <1>2 DEF TypeOK
<1> QED
  BY <1>5, <1>6, <1>7, <1>8, <1>9, <1>10

LEMMA MarkCorrectInv ==
  ASSUME IInv, MarkCorrect
  PROVE  IInv'
<1>1. /\ pc = "correct" /\ pc' = "correct" /\ i' = i + 1 /\ i <= Len(guess)
      /\ answer' = answer /\ guess' = guess /\ stats' = stats
  BY DEF MarkCorrect
<1>2. TypeOK /\ Len(guess) = Len(answer) /\ LettersAreAccountedFor
  BY <1>1 DEF IInv, SameLength
<1>3. /\ Len(guess) \in Nat /\ Len(guess) <= MaxLength
      /\ DOMAIN guess = 1..Len(guess) /\ DOMAIN answer = DOMAIN guess
  BY <1>2, Compared
<1>4. i \in DOMAIN guess /\ i \in Nat
  BY <1>1, <1>2, <1>3 DEF TypeOK
<1>5. /\ status' \in Statuses /\ dict' \in [Letters -> Nat]
      /\ LettersAreAccountedFor'
      /\ status' = [status EXCEPT ![i] = IF guess[i] = answer[i]
                                         THEN "Correct" ELSE status[i]]
  <2>1. CASE guess[i] = answer[i]
    <3>1. Marked(i, "Correct") /\ dict' = Taken(dict, guess[i])
      BY <2>1 DEF MarkCorrect
    <3>2. status[i] = "Incorrect"
      BY <1>1, <1>4 DEF IInv, FirstMarks
    <3>3. dict[guess[i]] > 0
      BY <1>1, <1>4, <2>1, InPlaceIsLeft
    <3>4. /\ status' \in Statuses /\ dict' \in [Letters -> Nat]
          /\ LettersAreAccountedFor'
      BY <1>1, <1>2, <1>4, <3>1, <3>2, <3>3, TakeOne
    <3> QED
      BY <2>1, <3>1, <3>4 DEF Marked
  <2>2. CASE guess[i] # answer[i]
    <3>1. status' = status /\ dict' = dict
      BY <2>2 DEF MarkCorrect
    <3>2. \A v : Found(v)' = Found(v)
      BY <1>1, <3>1 DEF Found
    <3>3. LettersAreAccountedFor'
      BY <1>1, <1>2, <3>1, <3>2, RuleRests DEF LettersAreAccountedFor
    <3> QED
      BY <1>2, <2>2, <3>1, <3>3 DEF TypeOK, Statuses
  <2> QED
    BY <2>1, <2>2
<1>6. TypeOK'
  <2>1. i' \in 1..MaxLength + 1
    BY <1>1, <1>3, <1>4, MaxLengthAssumption
  <2>2. Statuses' = Statuses
    BY <1>1 DEF Statuses
  <2> QED
    BY <1>1, <1>2, <1>5, <2>1, <2>2 DEF TypeOK
<1>7. FirstMarks'
  <2>1. status \in [DOMAIN guess -> {"Unknown", "Incorrect", "Exists", "Correct"}]
    BY <1>2 DEF TypeOK, Statuses
  <2>2. ASSUME NEW k, k \in DOMAIN guess
        PROVE  status'[k] = IF k < i + 1 /\ guess[k] = answer[k]
                            THEN "Correct" ELSE "Incorrect"
    <3>1. status[k] = IF k < i /\ guess[k] = answer[k]
                      THEN "Correct" ELSE "Incorrect"
      BY <1>1, <2>2 DEF IInv, FirstMarks
    <3>2. k \in Nat
      BY <1>3, <2>2
    <3> QED
      BY <1>4, <1>5, <2>1, <2>2, <3>1, <3>2
  <2> QED
    BY <1>1, <2>2 DEF FirstMarks
<1>8. SameLength'
  BY <1>1, <1>2, <1>3, <1>4 DEF SameLength
<1> QED
  BY <1>1, <1>5, <1>6, <1>7, <1>8
  DEF IInv, ChecksByTheRule, NothingYet, SecondMarks, LeftInSecond

(* The first pass takes out what is in place, and leaves what was missed.  *)
LEMMA SecondPassInv ==
  ASSUME IInv, SecondPass
  PROVE  IInv'
<1>1. /\ pc = "correct" /\ pc' = "exists" /\ i' = 1 /\ i > Len(guess)
      /\ answer' = answer /\ guess' = guess /\ stats' = stats
      /\ status' = status /\ dict' = dict
  BY DEF SecondPass
<1>2. TypeOK /\ Len(guess) = Len(answer) /\ LettersAreAccountedFor
  BY <1>1 DEF IInv, SameLength
<1>3. /\ Len(guess) \in Nat
      /\ DOMAIN guess = 1..Len(guess) /\ DOMAIN answer = DOMAIN guess
  BY <1>2, Compared
<1>4. TypeOK'
  BY <1>1, <1>2, MaxLengthAssumption DEF TypeOK, Statuses
<1>5. \A v : Found(v)' = Found(v)
  BY <1>1 DEF Found
<1>6. LettersAreAccountedFor'
  BY <1>1, <1>2, <1>5, RuleRests DEF LettersAreAccountedFor
<1>7. \A k \in DOMAIN guess :
        status[k] = IF guess[k] = answer[k] THEN "Correct" ELSE "Incorrect"
  <2>1. \A k \in DOMAIN guess : k < i
    BY <1>1, <1>2, <1>3 DEF TypeOK
  <2> QED
    BY <1>1, <2>1 DEF IInv, FirstMarks
<1>8. SecondMarks'
  <2>1. \A k \in DOMAIN guess : ~ (k < 1)
    BY <1>3
  <2>2. \A k \in DOMAIN guess :
          status[k] = IF k < 1 \/ guess[k] = answer[k] THEN Reference(k) ELSE "Incorrect"
    BY <1>7, <2>1 DEF Reference
  <2> QED
    BY <1>1, <2>2, RuleRests DEF SecondMarks
<1>9. LeftInSecond'
  <2>1. ASSUME NEW v, v \in Letters
        PROVE  /\ dict[v] = Cardinality(Missed(v)) /\ Cardinality(Missed(v)) \in Nat
               /\ Cardinality(Before(v, 1)) = 0
    <3>1. {k \in DOMAIN answer : answer[k] = v} = Found(v) \cup Missed(v)
          /\ Found(v) \cap Missed(v) = {}
      BY <1>3, <1>7 DEF Found, Missed
    <3>2. Found(v) \subseteq DOMAIN guess /\ Missed(v) \subseteq DOMAIN answer
      BY DEF Found, Missed
    <3>3. /\ IsFiniteSet(Found(v)) /\ Cardinality(Found(v)) \in Nat
          /\ IsFiniteSet(Missed(v)) /\ Cardinality(Missed(v)) \in Nat
      BY <1>2, <3>2, PartCounts DEF TypeOK
    <3>4. Occurrences(answer, v) = Cardinality(Found(v)) + Cardinality(Missed(v))
      <4>1. Cardinality(Found(v) \cup Missed(v)) =
              Cardinality(Found(v)) + Cardinality(Missed(v))
                - Cardinality(Found(v) \cap Missed(v))
        BY <3>3, FS_Union
      <4>2. Cardinality(Found(v) \cap Missed(v)) = 0
        BY <3>1, FS_EmptySet
      <4>3. Occurrences(answer, v) = Cardinality(Found(v) \cup Missed(v))
        BY <3>1, Zenon DEF Occurrences
      <4> QED
        BY <3>3, <4>1, <4>2, <4>3
    <3>5. dict[v] + Cardinality(Found(v)) = Occurrences(answer, v)
      BY <1>1, <1>2, <2>1 DEF LettersAreAccountedFor
    <3>6. dict[v] \in Nat
      BY <1>2, <2>1 DEF TypeOK
    <3>7. Before(v, 1) = {}
      BY <1>3 DEF Before, Misplaced
    <3> QED
      <4>1. Cardinality(Before(v, 1)) = 0
        BY <3>7, FS_EmptySet
      <4>2. dict[v] = Cardinality(Missed(v))
        BY <3>3, <3>4, <3>5, <3>6
      <4> QED
        BY <3>3, <4>1, <4>2
  <2>2. \A v : Before(v, i)' = Before(v, 1) /\ Missed(v)' = Missed(v)
    BY <1>1 DEF Before, Misplaced, Missed
  <2>3. ASSUME NEW v, v \in Letters
        PROVE  dict'[v] = IF Cardinality(Before(v, i)') < Cardinality(Missed(v)')
                          THEN Cardinality(Missed(v)') - Cardinality(Before(v, i)')
                          ELSE 0
    BY <1>1, <2>1, <2>2, <2>3
  <2> QED
    BY <2>3 DEF LeftInSecond
<1>10. SameLength'
  BY <1>1, <1>2, <1>3 DEF SameLength
<1> QED
  BY <1>1, <1>4, <1>6, <1>8, <1>9, <1>10
  DEF IInv, ChecksByTheRule, NothingYet, FirstMarks

(* A step of the second pass goes by one misplaced letter or by none.      *)
LEMMA BeforeGrows ==
  ASSUME TypeOK, i \in DOMAIN guess, i \in Nat, NEW v
  PROVE  /\ Cardinality(Before(v, i)) \in Nat
         /\ Cardinality(Before(v, i + 1)) =
              IF guess[i] = v /\ guess[i] # answer[i]
              THEN Cardinality(Before(v, i)) + 1 ELSE Cardinality(Before(v, i))
<1>1. Before(v, i) \subseteq DOMAIN guess /\ i \notin Before(v, i)
  BY DEF Before, Misplaced
<1>2. IsFiniteSet(Before(v, i)) /\ Cardinality(Before(v, i)) \in Nat
  BY <1>1, PartCounts DEF TypeOK
<1>3. DOMAIN guess \subseteq Nat
  BY WordShape DEF TypeOK
<1>4. CASE guess[i] = v /\ guess[i] # answer[i]
  <2>1. Before(v, i + 1) = Before(v, i) \cup {i}
    BY <1>3, <1>4 DEF Before, Misplaced
  <2>2. Cardinality(Before(v, i) \cup {i}) = Cardinality(Before(v, i)) + 1
    BY <1>1, <1>2, FS_AddElement
  <2> QED
    BY <1>2, <1>4, <2>1, <2>2
<1>5. CASE ~ (guess[i] = v /\ guess[i] # answer[i])
  <2>1. Before(v, i + 1) = Before(v, i)
    BY <1>3, <1>5 DEF Before, Misplaced
  <2> QED
    BY <1>2, <1>5, <2>1
<1> QED
  BY <1>4, <1>5

LEMMA MarkExistsInv ==
  ASSUME IInv, MarkExists
  PROVE  IInv'
<1>1. /\ pc = "exists" /\ pc' = "exists" /\ i' = i + 1 /\ i <= Len(guess)
      /\ answer' = answer /\ guess' = guess /\ stats' = stats
  BY DEF MarkExists
<1>2. TypeOK /\ Len(guess) = Len(answer) /\ LettersAreAccountedFor
  BY <1>1 DEF IInv, SameLength
<1>3. /\ Len(guess) \in Nat /\ Len(guess) <= MaxLength
      /\ DOMAIN guess = 1..Len(guess) /\ DOMAIN answer = DOMAIN guess
  BY <1>2, Compared
<1>4. i \in DOMAIN guess /\ i \in Nat
  BY <1>1, <1>2, <1>3 DEF TypeOK
<1>5. PICK g \in Letters : g = guess[i]
  BY <1>2, <1>4, Compared
<1> DEFINE m(v) == Cardinality(Missed(v))
           b(v) == Cardinality(Before(v, i))
<1>6. \A v \in Letters : dict[v] = IF b(v) < m(v) THEN m(v) - b(v) ELSE 0
  BY <1>1 DEF IInv, LeftInSecond
<1>7. \A v : b(v) \in Nat /\ m(v) \in Nat
  <2>1. \A v : Missed(v) \subseteq DOMAIN answer
    BY DEF Missed
  <2>2. \A v : m(v) \in Nat
    BY <1>2, <2>1, PartCounts DEF TypeOK
  <2> QED
    BY <1>2, <1>4, <2>2, BeforeGrows
<1>8. status[i] = IF guess[i] = answer[i] THEN "Correct" ELSE "Incorrect"
  <2>1. ~ (i < i)
    BY <1>4
  <2>2. status[i] = IF guess[i] = answer[i] THEN Reference(i) ELSE "Incorrect"
    BY <1>1, <1>4, <2>1 DEF IInv, SecondMarks
  <2> QED
    BY <2>2 DEF Reference
<1>9. Reference(i) = IF guess[i] = answer[i] THEN "Correct"
                     ELSE IF b(g) < m(g) THEN "Exists" ELSE "Incorrect"
  BY <1>5 DEF Reference, Before
<1> HIDE DEF m, b
<1>10. Left(dict, guess[i]) <=> b(g) < m(g)
  BY <1>5, <1>6, <1>7 DEF Left
<1> DEFINE Takes == guess[i] # answer[i] /\ b(g) < m(g)
<1>11. /\ status' \in Statuses /\ dict' \in [Letters -> Nat]
       /\ LettersAreAccountedFor'
       /\ status' = [status EXCEPT ![i] = Reference(i)]
       /\ dict' = IF Takes THEN [dict EXCEPT ![g] = @ - 1] ELSE dict
  <2>1. CASE Takes
    <3>1. Marked(i, "Exists") /\ dict' = Taken(dict, guess[i])
      BY <1>8, <1>10, <2>1 DEF MarkExists
    <3>2. dict[guess[i]] > 0 /\ status[i] = "Incorrect"
      BY <1>8, <1>10, <2>1 DEF Left
    <3>3. /\ status' \in Statuses /\ dict' \in [Letters -> Nat]
          /\ LettersAreAccountedFor'
      BY <1>1, <1>2, <1>4, <3>1, <3>2, TakeOne
    <3> QED
      BY <1>5, <1>9, <2>1, <3>1, <3>3 DEF Marked, Taken
  <2>2. CASE ~ Takes
    <3>1. status' = status /\ dict' = dict
      BY <1>8, <1>10, <2>2 DEF MarkExists
    <3>2. \A v : Found(v)' = Found(v)
      BY <1>1, <3>1 DEF Found
    <3>3. LettersAreAccountedFor'
      BY <1>1, <1>2, <3>1, <3>2, RuleRests DEF LettersAreAccountedFor
    <3>4. status[i] = Reference(i)
      BY <1>8, <1>9, <2>2
    <3> QED
      BY <1>2, <2>2, <3>1, <3>3, <3>4 DEF TypeOK, Statuses
  <2> QED
    BY <2>1, <2>2
<1>12. TypeOK'
  <2>1. i' \in 1..MaxLength + 1
    BY <1>1, <1>3, <1>4, MaxLengthAssumption
  <2>2. Statuses' = Statuses
    BY <1>1 DEF Statuses
  <2> QED
    BY <1>1, <1>2, <1>11, <2>1, <2>2 DEF TypeOK
<1>13. SecondMarks'
  <2>1. status \in [DOMAIN guess -> {"Unknown", "Incorrect", "Exists", "Correct"}]
    BY <1>2 DEF TypeOK, Statuses
  <2>2. ASSUME NEW k, k \in DOMAIN guess
        PROVE  status'[k] = IF k < i + 1 \/ guess[k] = answer[k]
                            THEN Reference(k) ELSE "Incorrect"
    <3>1. status[k] = IF k < i \/ guess[k] = answer[k]
                      THEN Reference(k) ELSE "Incorrect"
      BY <1>1, <2>2 DEF IInv, SecondMarks
    <3>2. k \in Nat
      BY <1>3, <2>2
    <3> QED
      BY <1>4, <1>11, <2>1, <2>2, <3>1, <3>2
  <2> QED
    BY <1>1, <2>2, RuleRests DEF SecondMarks
<1>14. LeftInSecond'
  <2>1. \A v : Before(v, i)' = Before(v, i + 1) /\ Missed(v)' = Missed(v)
    BY <1>1 DEF Before, Misplaced, Missed
  <2>2. ASSUME NEW v, v \in Letters
        PROVE  dict'[v] = IF Cardinality(Before(v, i + 1)) < m(v)
                          THEN m(v) - Cardinality(Before(v, i + 1)) ELSE 0
    <3>1. Cardinality(Before(v, i + 1)) =
            IF g = v /\ guess[i] # answer[i] THEN b(v) + 1 ELSE b(v)
      BY <1>2, <1>4, <1>5, BeforeGrows DEF b
    <3>2. dict'[v] = IF Takes /\ v = g THEN dict[v] - 1 ELSE dict[v]
      BY <1>2, <1>5, <1>11, <2>2 DEF TypeOK
    <3>3. dict[v] = IF b(v) < m(v) THEN m(v) - b(v) ELSE 0
      BY <1>6, <2>2 DEF m, b
    <3>4. b(v) \in Nat /\ m(v) \in Nat
      BY <1>7
    <3> QED
      BY <3>1, <3>2, <3>3, <3>4
  <2> QED
    BY <1>1, <2>1, <2>2 DEF LeftInSecond, m
<1>15. SameLength'
  BY <1>1, <1>2, <1>3, <1>4 DEF SameLength
<1> QED
  BY <1>1, <1>11, <1>12, <1>13, <1>14, <1>15
  DEF IInv, ChecksByTheRule, NothingYet, FirstMarks

LEMMA ReturnInv ==
  ASSUME IInv, Return
  PROVE  IInv'
<1>1. /\ pc = "exists" /\ pc' = "returned" /\ i > Len(guess) /\ i' = i
      /\ answer' = answer /\ guess' = guess /\ stats' = status
      /\ status' = status /\ dict' = dict
  BY DEF Return
<1>2. TypeOK /\ Len(guess) = Len(answer)
  BY <1>1 DEF IInv, SameLength
<1>3. Len(guess) \in Nat /\ DOMAIN guess = 1..Len(guess)
  BY <1>2, Compared
<1>4. TypeOK'
  BY <1>1, <1>2 DEF TypeOK, Statuses
<1>5. ChecksByTheRule'
  <2>1. \A k \in DOMAIN guess : k < i
    BY <1>1, <1>2, <1>3 DEF TypeOK
  <2>2. \A k \in DOMAIN guess : status[k] = Reference(k)
    BY <1>1, <2>1 DEF IInv, SecondMarks
  <2>3. status = [k \in DOMAIN guess |-> Reference(k)]
    BY <1>2, <2>2 DEF TypeOK, Statuses
  <2>4. \A k : Reference(k)' = Reference(k)
    BY <1>1, RuleRests
  <2> QED
    BY <1>1, <2>3, <2>4 DEF ChecksByTheRule
<1> QED
  BY <1>1, <1>4, <1>5
  DEF IInv, LettersAreAccountedFor, SameLength, NothingYet, FirstMarks, SecondMarks,
  LeftInSecond

LEMMA NextInv == IInv /\ [Next]_vars => IInv'
BY WrongLengthInv, CountInv, MarkCorrectInv, SecondPassInv, MarkExistsInv,
  ReturnInv, StutterInv DEF Next

-----------------------------------------------------------------------------
(* The inductive invariant holds at every step of the loops.               *)
THEOREM Inductive == Spec => []IInv
BY InitInv, NextInv, PTL DEF Spec

(* The dictionary never counts below zero.                                 *)
THEOREM WordTypeCorrect == Spec => []TypeOK
<1>1. IInv => TypeOK
  BY DEF IInv
<1> QED
  BY <1>1, Inductive, PTL

(* No letter of the answer is lost, or found twice, by the two passes.     *)
THEOREM LettersCorrect == Spec => []LettersAreAccountedFor
<1>1. IInv => LettersAreAccountedFor
  BY DEF IInv
<1> QED
  BY <1>1, Inductive, PTL

(* Word.Check computes what the rule of the game says, for all words.      *)
THEOREM CheckCorrect == Spec => []ChecksByTheRule
<1>1. IInv => ChecksByTheRule
  BY DEF IInv
<1> QED
  BY <1>1, Inductive, PTL
=============================================================================
