--------------------------- MODULE RankBoardProofs ---------------------------
(***************************************************************************)
(* What the comparison of guesses, a session's best guess and the loop of  *)
(* FixPosition guarantee, for every word length, number of guesses and     *)
(* size of the board.  Game's proofs cite these lemmas.                    *)
(***************************************************************************)
EXTENDS RankBoard, FiniteSets, TLAPS

Best == Guess \cup {NoGuess}

Scored(w) == ScoreOf(w) # <<0, 0>>

(* What the guesses and the best guess of one session owe each other.      *)
SessionOK(s) ==
  /\ s.guesses = <<>> <=> s.best = NoGuess
  /\ s.guesses # <<>> => s.best \in Range(s.guesses)
  /\ \A k \in DOMAIN s.guesses : ~ GreaterThan(s.guesses[k], s.best)

(* No word ranks both higher and lower than another.                       *)
LEMMA GreaterThanAsymmetric ==
  ASSUME NEW a \in Best, NEW b \in Best, GreaterThan(a, b)
  PROVE  ~ GreaterThan(b, a)
BY LengthAssumption DEF Best, Guess, NoGuess, GreaterThan

(* A guess that does not beat b does not beat what beats b.                *)
LEMMA NotBeatenAbove ==
  ASSUME NEW a \in Guess, NEW b \in Guess, NEW c \in Guess,
         ~ GreaterThan(a, b), GreaterThan(c, b)
  PROVE  ~ GreaterThan(a, c)
BY LengthAssumption DEF Guess, GreaterThan

(* With a letter right, a guess beats every word never played, and is      *)
(* comparable with every guess.                                            *)
LEMMA ScoredNotBeatenChain ==
  ASSUME NEW a \in Best, NEW b \in Best, NEW c \in Best,
         Scored(a), ~ GreaterThan(a, b), ~ GreaterThan(b, c)
  PROVE  ~ GreaterThan(a, c) /\ Scored(b)
BY LengthAssumption DEF Best, Guess, NoGuess, GreaterThan, Scored, ScoreOf

LEMMA ScoredNotBeatenByImproved ==
  ASSUME NEW a \in Best, NEW old \in Best, NEW new \in Best,
         Scored(a), ~ GreaterThan(a, old), GreaterThan(new, old)
  PROVE  ~ GreaterThan(a, new)
BY LengthAssumption DEF Best, Guess, NoGuess, GreaterThan, Scored, ScoreOf

-----------------------------------------------------------------------------
(* A new session, and one that has just been given a guess, are in order.  *)
LEMMA NewSessionOK ==
  /\ NewSession \in Session
  /\ SessionOK(NewSession)
  /\ ~ Won(NewSession)
  /\ ~ Ended(NewSession)
BY MaxGuessesAssumption
DEF NewSession, Session, SessionOK, Won, Ended, Guess, Range

LEMMA AddGuessType ==
  ASSUME NEW s \in Session, NEW w \in Guess
  PROVE  /\ AddGuess(s, w) \in Session
         /\ Len(AddGuess(s, w).guesses) = Len(s.guesses) + 1
         /\ AddGuess(s, w).best = s.best \/ GreaterThan(AddGuess(s, w).best, s.best)
            \/ s.best = NoGuess
BY DEF Session, AddGuess

LEMMA AddGuessOK ==
  ASSUME NEW s \in Session, NEW w \in Guess, SessionOK(s)
  PROVE  SessionOK(AddGuess(s, w))
<1> DEFINE t == AddGuess(s, w)
           n == Len(s.guesses)
<1>1. /\ t.guesses = Append(s.guesses, w)
      /\ t.guesses \in Seq(Guess)
      /\ DOMAIN t.guesses = 1..(n + 1)
      /\ n \in Nat
      /\ t.guesses[n + 1] = w
      /\ \A k \in 1..n : t.guesses[k] = s.guesses[k] /\ s.guesses[k] \in Guess
  BY DEF AddGuess, Session
<1>2. w # NoGuess /\ ~ GreaterThan(w, w)
  BY LengthAssumption DEF Guess, NoGuess, GreaterThan
<1>3. CASE s.best = NoGuess
  <2>1. s.guesses = <<>> /\ n = 0 /\ t.best = w
    BY <1>3 DEF SessionOK, AddGuess
  <2>2. t.guesses # <<>> /\ w \in Range(t.guesses)
    BY <1>1, <2>1 DEF Range
  <2> QED
    BY <1>1, <1>2, <2>1, <2>2 DEF SessionOK
<1>4. CASE s.best # NoGuess
  <2>1. s.best \in Guess /\ s.best \in Range(s.guesses) /\ s.guesses # <<>>
    BY <1>4 DEF SessionOK, Session
  <2>2. t.guesses # <<>> /\ t.best # NoGuess
    BY <1>1, <1>2, <1>4 DEF AddGuess
  <2>3. t.best \in Range(t.guesses)
    <3>1. PICK k \in DOMAIN s.guesses : s.best = s.guesses[k]
      BY <2>1 DEF Range
    <3>2. k \in 1..n
      BY DEF Session
    <3>3. t.best = w \/ t.best = s.best
      BY DEF AddGuess
    <3> QED
      BY <1>1, <3>1, <3>2, <3>3 DEF Range
  <2>4. ASSUME NEW k \in 1..(n + 1)
        PROVE  ~ GreaterThan(t.guesses[k], t.best)
    <3>1. CASE GreaterThan(w, s.best)
      <4>1. t.best = w
        BY <3>1 DEF AddGuess
      <4>2. k = n + 1 \/ k \in 1..n
        BY <1>1
      <4>3. CASE k \in 1..n
        <5>1. ~ GreaterThan(s.guesses[k], s.best)
          BY <4>3 DEF SessionOK, Session
        <5> QED
          BY <1>1, <2>1, <3>1, <4>1, <4>3, <5>1, NotBeatenAbove
      <4> QED
        BY <1>1, <1>2, <4>1, <4>2, <4>3
    <3>2. CASE ~ GreaterThan(w, s.best)
      <4>1. t.best = s.best
        BY <1>4, <3>2 DEF AddGuess
      <4>2. k = n + 1 \/ (k \in 1..n /\ k \in DOMAIN s.guesses)
        BY <1>1 DEF Session
      <4> QED
        BY <1>1, <3>2, <4>1, <4>2 DEF SessionOK
    <3> QED
      BY <3>1, <3>2
  <2> QED
    BY <1>1, <2>2, <2>3, <2>4 DEF SessionOK
<1> QED
  BY <1>3, <1>4

(* No guess of a session that has not been won is the correct word.        *)
LEMMA NotWonNoCorrect ==
  ASSUME NEW s \in Session, SessionOK(s), ~ Won(s), NEW k \in DOMAIN s.guesses
  PROVE  ~ Correct(s.guesses[k])
<1>1. Len(s.guesses) # 0 /\ s.guesses[k] \in Guess
  BY DEF Session
<1>2. s.guesses # <<>>
  BY <1>1
<1>3. s.best \in Guess
  BY <1>2 DEF SessionOK, Session
<1> QED
  BY <1>1, <1>3, LengthAssumption
  DEF SessionOK, Won, Correct, Guess, GreaterThan

-----------------------------------------------------------------------------
(* r lists players once each and pos is its inverse, counting from 0.      *)
Consistent(r, pos) ==
  /\ DOMAIN pos = Range(r)
  /\ \A k \in DOMAIN r : pos[r[k]] = k - 1

LEMMA ConsistentInjective ==
  ASSUME NEW P, NEW r \in Seq(P), NEW pos, Consistent(r, pos),
         NEW k \in DOMAIN r, NEW m \in DOMAIN r, r[k] = r[m]
  PROVE  k = m
<1>1. k \in Nat /\ m \in Nat /\ k - 1 = m - 1
  BY DEF Consistent
<1> QED
  BY <1>1

LEMMA IndexInUnique ==
  ASSUME NEW P, NEW r \in Seq(P), NEW k \in DOMAIN r,
         \A m, n \in DOMAIN r : r[m] = r[n] => m = n
  PROVE  IndexIn(r, r[k]) = k
<1>1. \E m \in DOMAIN r : r[m] = r[k]
  OBVIOUS
<1>2. IndexIn(r, r[k]) \in DOMAIN r /\ r[IndexIn(r, r[k])] = r[k]
  BY <1>1 DEF IndexIn
<1> QED
  BY <1>2

(* A board fresh from NewRankBoard is consistent.                          *)
LEMMA InitialBoardConsistent ==
  ASSUME NEW P, NEW sess, DOMAIN sess \subseteq P,
         Cardinality(DOMAIN sess) \in Nat,
         NEW r \in InitialRanks(sess)
  PROVE  /\ r \in Seq(P)
         /\ Range(r) \subseteq DOMAIN sess
         /\ Consistent(r, InitialPositions(r))
         /\ InitialPositions(r) \in [Range(r) -> Nat]
<1>1. /\ r \in [1..Cardinality(DOMAIN sess) -> DOMAIN sess]
      /\ \A m, n \in 1..Cardinality(DOMAIN sess) : m # n => r[m] # r[n]
  BY DEF InitialRanks, SetToSeqs
<1>2. r \in Seq(P) /\ DOMAIN r = 1..Cardinality(DOMAIN sess)
  BY <1>1
<1>3. \A k \in DOMAIN r : IndexIn(r, r[k]) = k
  BY <1>1, <1>2, IndexInUnique
<1>4. Range(r) \subseteq DOMAIN sess
  BY <1>1 DEF Range
<1>5. \A k \in DOMAIN r : r[k] \in Range(r) /\ InitialPositions(r)[r[k]] = k - 1
  BY <1>3 DEF InitialPositions, Range
<1>6. ASSUME NEW p \in Range(r) PROVE InitialPositions(r)[p] \in Nat
  <2>1. PICK k \in DOMAIN r : p = r[k]
    BY DEF Range
  <2> QED
    BY <1>2, <1>5, <2>1
<1> QED
  BY <1>2, <1>4, <1>5, <1>6 DEF InitialPositions, Consistent

(* Moving a player up the board keeps everybody on it, once each.          *)
LEMMA MovedUpConsistent ==
  ASSUME NEW P, NEW r \in Seq(P), NEW pos, Consistent(r, pos),
         pos \in [DOMAIN pos -> Nat],
         NEW i \in Nat \ {0}, NEW j \in 1..i, j < i => i \in DOMAIN r
  PROVE  LET r2 == MovedUp(r, i, j)
             pos2 == Repositioned(pos, r2, i, j)
         IN /\ r2 \in Seq(P)
            /\ DOMAIN r2 = DOMAIN r
            /\ Range(r2) = Range(r)
            /\ Consistent(r2, pos2)
            /\ pos2 \in [DOMAIN pos -> Nat]
<1> DEFINE r2 == MovedUp(r, i, j)
           pos2 == Repositioned(pos, r2, i, j)
           from(k) == IF k = j /\ j < i THEN i
                      ELSE IF k \in (j + 1)..i THEN k - 1 ELSE k
           to(k) == IF k = i /\ j < i THEN j
                    ELSE IF k \in j..(i - 1) THEN k + 1 ELSE k
<1>1. DOMAIN r = 1..Len(r) /\ Len(r) \in Nat
  OBVIOUS
<1>2. \A k \in DOMAIN r : from(k) \in DOMAIN r /\ r2[k] = r[from(k)]
  BY <1>1 DEF MovedUp
<1>3. \A k \in DOMAIN r : to(k) \in DOMAIN r /\ from(to(k)) = k
  BY <1>1
<1>4. \A k, m \in DOMAIN r : from(k) = from(m) => k = m
  BY <1>1
<1>5. r2 \in Seq(P) /\ DOMAIN r2 = DOMAIN r
  <2>1. r2 = [k \in 1..Len(r) |-> r2[k]]
    BY <1>1 DEF MovedUp
  <2>2. \A k \in 1..Len(r) : r2[k] \in P
    BY <1>1, <1>2
  <2> QED
    BY <1>1, <2>1, <2>2
<1>6. Range(r2) = Range(r)
  <2> HIDE DEF r2
  <2>1. \A k \in DOMAIN r2 : r2[k] \in Range(r)
    BY <1>2, <1>5 DEF Range
  <2>2. \A k \in DOMAIN r : r2[to(k)] = r[k] /\ to(k) \in DOMAIN r2
    BY <1>2, <1>3, <1>5
  <2> HIDE DEF to, from
  <2>3. \A k \in DOMAIN r : r[k] \in Range(r2)
    BY <2>2 DEF Range
  <2> QED
    BY <2>1, <2>3 DEF Range
<1>7. \A k, m \in DOMAIN r2 : r2[k] = r2[m] => k = m
  BY <1>2, <1>4, <1>5, ConsistentInjective
<1>8. \A k \in DOMAIN r2 : IndexIn(r2, r2[k]) = k
  BY <1>5, <1>7, IndexInUnique
<1>9. DOMAIN pos2 = Range(r2)
  BY <1>6 DEF Repositioned, Consistent
<1>10. ASSUME NEW k \in DOMAIN r2 PROVE pos2[r2[k]] = k - 1
  <2>1. r2[k] \in DOMAIN pos
    BY <1>9 DEF Range, Repositioned
  <2>2. CASE j < i /\ k \in j..i
    BY <1>8, <2>1, <2>2 DEF Repositioned
  <2>3. CASE ~ (j < i /\ k \in j..i)
    <3>1. ~ (j < i /\ \E m \in j..i : r2[m] = r2[k])
      BY <1>1, <1>5, <1>7, <2>3
    <3>2. from(k) = k
      BY <1>1, <1>5, <2>3
    <3> QED
      BY <1>2, <1>5, <2>1, <3>1, <3>2 DEF Repositioned, Consistent
  <2> QED
    BY <2>2, <2>3
<1>11. ASSUME NEW p \in DOMAIN pos PROVE pos2[p] \in Nat
  <2>1. PICK k \in DOMAIN r2 : p = r2[k]
    BY <1>6 DEF Range, Consistent
  <2>2. k - 1 \in Nat
    BY <1>1, <1>5
  <2> QED
    BY <1>10, <2>1, <2>2
<1> QED
  BY <1>5, <1>6, <1>9, <1>10, <1>11 DEF Consistent, Repositioned

-----------------------------------------------------------------------------
(* Nobody with a letter right stands below somebody it beats; best gives   *)
(* the best guess of each player.                                          *)
SortedByScore(r, best) ==
  \A i, j \in DOMAIN r :
    i < j /\ Scored(best[r[j]]) => ~ GreaterThan(best[r[j]], best[r[i]])

(* Only the player at index i has a new best guess, which is no worse.     *)
ImprovedAt(r, i, old, new) ==
  /\ \A k \in DOMAIN r : old[r[k]] \in Best /\ new[r[k]] \in Best
  /\ \A k \in DOMAIN r : k # i => new[r[k]] = old[r[k]]
  /\ \/ new[r[i]] = old[r[i]]
     \/ GreaterThan(new[r[i]], old[r[i]])
     \/ old[r[i]] = NoGuess

(* It beats everyone from j to i and not the one above.                    *)
Climbs(r, i, j, best) ==
  /\ \A k \in j..(i - 1) : GreaterThan(best[r[i]], best[r[k]])
  /\ j > 1 => ~ GreaterThan(best[r[i]], best[r[j - 1]])

(* When FixPosition has moved that player from i to j the board is sorted. *)
LEMMA MovedUpSorted ==
  ASSUME NEW r, NEW n \in Nat, DOMAIN r = 1..n,
         NEW old, NEW new,
         NEW i \in 1..n, NEW j \in 1..i,
         SortedByScore(r, old), ImprovedAt(r, i, old, new), Climbs(r, i, j, new)
  PROVE  SortedByScore(MovedUp(r, i, j), new)
<1> DEFINE r2 == MovedUp(r, i, j)
           from(k) == IF k = j THEN i
                      ELSE IF k \in (j + 1)..i THEN k - 1 ELSE k
<1>a. /\ \A k \in 1..n : old[r[k]] \in Best /\ new[r[k]] \in Best
      /\ \A k \in 1..n : k # i => new[r[k]] = old[r[k]]
      /\ \/ new[r[i]] = old[r[i]]
         \/ GreaterThan(new[r[i]], old[r[i]])
         \/ old[r[i]] = NoGuess
      /\ \A k \in j..(i - 1) : GreaterThan(new[r[i]], new[r[k]])
      /\ j > 1 => ~ GreaterThan(new[r[i]], new[r[j - 1]])
  BY DEF ImprovedAt, Climbs
<1> USE <1>a
<1>1. DOMAIN r2 = 1..n
      /\ \A k \in 1..n : from(k) \in 1..n /\ r2[k] = r[from(k)]
  BY DEF MovedUp
<1>2. SUFFICES ASSUME NEW a \in 1..n, NEW b \in 1..n, a < b,
                      Scored(new[r2[b]])
               PROVE  ~ GreaterThan(new[r2[b]], new[r2[a]])
  BY <1>1 DEF SortedByScore
<1>3. CASE a # j /\ b # j
  <2>1. from(a) < from(b) /\ from(a) # i /\ from(b) # i
    BY <1>2, <1>3
  <2> HIDE DEF from, r2
  <2>2. new[r2[a]] = old[r[from(a)]] /\ new[r2[b]] = old[r[from(b)]]
    BY <1>1, <2>1
  <2> QED
    BY <1>1, <1>2, <2>1, <2>2 DEF SortedByScore
<1>4. CASE a = j
  <2> DEFINE m == from(b)
  <2>1. r2[a] = r[i] /\ r2[b] = r[m] /\ m # i /\ m \in 1..n
    BY <1>1, <1>2, <1>4
  <2>2. CASE b \in (j + 1)..i
    <3>1. m \in j..(i - 1)
      BY <2>2
    <3> QED
      BY <2>1, <3>1, GreaterThanAsymmetric
  <2>3. CASE b \notin (j + 1)..i
    <3>1. m > i /\ new[r[m]] = old[r[m]]
      BY <1>2, <1>4, <2>1, <2>3
    <3>2. Scored(old[r[m]]) /\ ~ GreaterThan(old[r[m]], old[r[i]])
      BY <1>2, <2>1, <3>1 DEF SortedByScore
    <3>3. CASE old[r[i]] = NoGuess
      <4>1. GreaterThan(old[r[m]], NoGuess)
        BY <2>1, <3>2, LengthAssumption
        DEF GreaterThan, NoGuess, Scored, ScoreOf, Best, Guess
      <4> QED
        BY <3>2, <3>3, <4>1
    <3>4. CASE old[r[i]] # NoGuess
      BY <2>1, <3>1, <3>2, <3>4, ScoredNotBeatenByImproved
    <3> QED
      BY <3>3, <3>4
  <2> QED
    BY <2>2, <2>3
<1>5. CASE b = j
  <2>1. a < j /\ r2[a] = r[a] /\ r2[b] = r[i]
    BY <1>1, <1>2, <1>5
  <2>2. CASE a = j - 1
    BY <2>1, <2>2
  <2>3. CASE a < j - 1
    <3>1. j - 1 \in 1..n /\ j - 1 # i /\ a # i
      BY <2>1, <2>3
    <3>2. ~ GreaterThan(new[r[i]], new[r[j - 1]]) /\ Scored(new[r[i]])
      BY <1>2, <2>1
    <3>3. Scored(new[r[j - 1]])
      BY <3>1, <3>2, LengthAssumption
      DEF GreaterThan, NoGuess, Scored, ScoreOf, Best, Guess
    <3>4. ~ GreaterThan(new[r[j - 1]], new[r[a]])
      BY <2>3, <3>1, <3>3 DEF SortedByScore
    <3> QED
      BY <2>1, <3>1, <3>2, <3>4, ScoredNotBeatenChain
  <2> QED
    BY <1>2, <1>5, <2>2, <2>3
<1> QED
  BY <1>2, <1>3, <1>4, <1>5

(* Where everybody stands after FixPosition, by Go index: the mover at j,  *)
(* those it passed one further down, the others where they were.           *)
LEMMA MovedUpPositions ==
  ASSUME NEW P, NEW r \in Seq(P), NEW pos, Consistent(r, pos),
         pos \in [DOMAIN pos -> Nat],
         NEW i \in Nat \ {0}, NEW j \in 1..i, j < i => i \in DOMAIN r,
         NEW k \in DOMAIN r
  PROVE  Repositioned(pos, MovedUp(r, i, j), i, j)[r[k]] =
           IF k = i THEN j - 1 ELSE IF k \in j..(i - 1) THEN k ELSE k - 1
<1> DEFINE r2 == MovedUp(r, i, j)
           pos2 == Repositioned(pos, r2, i, j)
<1>1. DOMAIN r2 = DOMAIN r /\ Consistent(r2, pos2)
  BY MovedUpConsistent
<1>2. /\ DOMAIN r = 1..Len(r) /\ Len(r) \in Nat
      /\ \A m \in DOMAIN r : r2[m] = IF m = j /\ j < i THEN r[i]
                                     ELSE IF m \in (j + 1)..i THEN r[m - 1]
                                     ELSE r[m]
  BY DEF MovedUp
<1> HIDE DEF r2, pos2
<1>3. \A m \in DOMAIN r : pos2[r2[m]] = m - 1
  BY <1>1 DEF Consistent
<1>4. CASE k = i
  <2>1. j \in DOMAIN r /\ r2[j] = r[i]
    BY <1>2, <1>4
  <2> QED
    BY <1>3, <1>4, <2>1 DEF r2, pos2
<1>5. CASE k # i /\ k \in j..(i - 1)
  <2>1. k + 1 \in DOMAIN r /\ r2[k + 1] = r[k] /\ k \in Nat
    BY <1>2, <1>5
  <2>2. pos2[r[k]] = (k + 1) - 1
    BY <1>3, <2>1
  <2> QED
    BY <1>5, <2>1, <2>2 DEF r2, pos2
<1>6. CASE k # i /\ k \notin j..(i - 1)
  <2>1. r2[k] = r[k]
    BY <1>2, <1>6
  <2> QED
    BY <1>3, <1>6, <2>1 DEF r2, pos2
<1> QED
  BY <1>4, <1>5, <1>6
=============================================================================
