----------------------------- MODULE GameProofs -----------------------------
(***************************************************************************)
(* The invariants of Game and the refinement of GameContract, proved for   *)
(* every finite set of players, word length and number of guesses.         *)
(***************************************************************************)
EXTENDS Game, RankBoardProofs, FiniteSetTheorems

(* Only the end of the game and the collector close a room.                *)
CloseHasReason ==
  /\ collector # "away" => closed
  /\ closed => endedAt \/ collector # "away"

(* start waits for the service only before the game is active, and the     *)
(* handler of the last guess has returned when nobody else closed the room.*)
StartWaits ==
  /\ starting => ~ active
  /\ endedAt /\ collector = "away" => ~ starting

(* A guess under way in a room that the collector closed is one the checks *)
(* would still let through.                                                *)
GuessIsAllowed ==
  \A p \in guessing :
    /\ collector # "away" /\ ~ starting
    /\ p \in joined
    /\ ~ Won(sessions[p]) /\ ~ Ended(sessions[p]) /\ CanPlay(sessions[p])

(* Whoever is on the board has a session.                                  *)
BoardJoined == Range(ranks) \subseteq joined

(* Nobody has guessed in an open room that is not active.                  *)
NoGuessBeforeStart ==
  ~ active /\ ~ closed => \A p \in joined : sessions[p].best = NoGuess

(* The inductive invariant.                                                *)
IInv ==
  /\ TypeOK
  /\ FinishedCount
  /\ EndsWithLastPlayer
  /\ BoardConsistent
  /\ BoardSortedByScore
  /\ BestIsBest
  /\ SessionStops
  /\ CloseHasReason
  /\ StartWaits
  /\ GuessIsAllowed
  /\ BoardJoined
  /\ NoGuessBeforeStart

-----------------------------------------------------------------------------
(* The players that ended are finitely many, so that they can be counted.  *)
LEMMA CountsExist ==
  ASSUME TypeOK
  PROVE  /\ IsFiniteSet(joined) /\ Cardinality(joined) \in Nat
         /\ IsFiniteSet(endedPlayers) /\ Cardinality(endedPlayers) \in Nat
         /\ endedPlayers \subseteq joined
         /\ Cardinality(endedPlayers) = Cardinality(joined)
              => endedPlayers = joined
<1>1. endedPlayers \subseteq joined
  BY DEF endedPlayers
<1>2. IsFiniteSet(joined)
  BY PlayersAssumption, FS_Subset DEF TypeOK
<1> QED
  BY <1>1, <1>2, FS_Subset, FS_CardinalityType

LEMMA InitInv == Init => IInv
<1> SUFFICES ASSUME Init PROVE IInv
  OBVIOUS
<1>1. joined = {} /\ endedPlayers = {} /\ ranks = <<>> /\ DOMAIN ranks = {}
      /\ Range(ranks) = {} /\ DOMAIN positions = {}
  BY DEF Init, joined, endedPlayers, Range, InitialPositions
<1>2. TypeOK
  <2>1. positions \in [DOMAIN positions -> Nat]
    BY <1>1
  <2>2. sessions \in [joined -> Session] /\ ranks \in Seq(Players)
    BY <1>1 DEF Init
  <2>3. startedAt \in BOOLEAN /\ endedAt \in BOOLEAN
        /\ active \in BOOLEAN /\ closed \in BOOLEAN /\ starting \in BOOLEAN
    BY Zenon DEF Init
  <2>4. /\ finished \in Nat /\ now \in Nat \ {0} /\ admitted = {}
        /\ guessing = {} /\ collector = "away"
    BY DEF Init
  <2>5. guessing \subseteq Players /\ collector \in {"away", "closing", "closed"}
    BY <2>4
  <2> QED
    BY <1>1, <2>5, <2>1, <2>2, <2>3, <2>4, Zenon DEF TypeOK
<1>3. FinishedCount
  BY <1>1, FS_EmptySet DEF Init, FinishedCount
<1>4. EndsWithLastPlayer
  BY <1>1 DEF Init, EndsWithLastPlayer
<1>5. BoardConsistent /\ BoardSortedByScore /\ BoardJoined
  BY <1>1 DEF BoardConsistent, BoardSortedByScore, BoardJoined
<1>6. BestIsBest /\ SessionStops
  BY <1>1 DEF BestIsBest, SessionStops
<1>7. CloseHasReason /\ StartWaits /\ GuessIsAllowed /\ NoGuessBeforeStart
  BY <1>1 DEF Init, CloseHasReason, StartWaits, GuessIsAllowed, NoGuessBeforeStart
<1> QED
  BY <1>2, <1>3, <1>4, <1>5, <1>6, <1>7 DEF IInv

-----------------------------------------------------------------------------
(* Steps that leave the sessions and the board alone.                      *)
LEMMA AdmitInv ==
  ASSUME IInv, NEW p \in Players, Admit(p)
  PROVE  IInv'
BY DEF IInv, Admit, TypeOK, FinishedCount, EndsWithLastPlayer, BoardConsistent,
  BoardSortedByScore, BestIsBest, SessionStops, CloseHasReason, StartWaits,
  GuessIsAllowed, BoardJoined, NoGuessBeforeStart, joined, endedPlayers,
  boardVars, flagVars, endVars, closeVars, Better

LEMMA StartedInv ==
  ASSUME IInv, Started
  PROVE  IInv'
BY DEF IInv, Started, TypeOK, FinishedCount, EndsWithLastPlayer, BoardConsistent,
  BoardSortedByScore, BestIsBest, SessionStops, CloseHasReason, StartWaits,
  GuessIsAllowed, BoardJoined, NoGuessBeforeStart, joined, endedPlayers,
  boardVars, endVars, closeVars, Better

LEMMA CloseInv ==
  ASSUME IInv, Close
  PROVE  IInv'
<1>1. GuessIsAllowed'
  <2>1. guessing' \in GuessesUnderWay
    BY DEF Close
  <2>2. \A p \in guessing' :
          /\ active /\ p \in joined
          /\ ~ Won(sessions[p]) /\ ~ Ended(sessions[p]) /\ CanPlay(sessions[p])
    BY <2>1 DEF GuessesUnderWay, MayPlay
  <2> QED
    BY <2>2 DEF IInv, StartWaits, GuessIsAllowed, Close, joined
<1>2. guessing' \subseteq Players
  BY DEF Close, GuessesUnderWay, IInv, TypeOK
<1> QED
  BY <1>1, <1>2 DEF IInv, Close, TypeOK, FinishedCount, EndsWithLastPlayer,
     BoardConsistent, BoardSortedByScore, BestIsBest, SessionStops, CloseHasReason,
     StartWaits, BoardJoined, NoGuessBeforeStart, joined, endedPlayers,
     boardVars, Better

LEMMA GoDeafInv ==
  ASSUME IInv, GoDeaf
  PROVE  IInv'
BY DEF IInv, GoDeaf, TypeOK, FinishedCount, EndsWithLastPlayer, BoardConsistent,
  BoardSortedByScore, BestIsBest, SessionStops, CloseHasReason, StartWaits,
  GuessIsAllowed, BoardJoined, NoGuessBeforeStart, joined, endedPlayers,
  boardVars, flagVars, endVars, Better

LEMMA StutterInv ==
  ASSUME IInv, UNCHANGED vars
  PROVE  IInv'
BY DEF IInv, vars, TypeOK, FinishedCount, EndsWithLastPlayer, BoardConsistent,
  BoardSortedByScore, BestIsBest, SessionStops, CloseHasReason, StartWaits,
  GuessIsAllowed, BoardJoined, NoGuessBeforeStart, joined, endedPlayers,
  boardVars, flagVars, endVars, closeVars, Better

LEMMA StartInv ==
  ASSUME IInv, Start
  PROVE  IInv'
<1>1. joined' = joined /\ endedPlayers' = endedPlayers
  BY DEF Start, joined, endedPlayers
<1>2. /\ ranks' \in Seq(Players)
      /\ Range(ranks') \subseteq joined
      /\ Consistent(ranks', positions')
      /\ positions' \in [DOMAIN positions' -> Nat]
  <2>1. DOMAIN sessions \subseteq Players /\ Cardinality(DOMAIN sessions) \in Nat
    BY CountsExist DEF IInv, TypeOK, joined
  <2>2. ranks' \in InitialRanks(sessions) /\ positions' = InitialPositions(ranks')
    BY DEF Start
  <2>3. /\ ranks' \in Seq(Players)
        /\ Range(ranks') \subseteq DOMAIN sessions
        /\ Consistent(ranks', InitialPositions(ranks'))
        /\ InitialPositions(ranks') \in [Range(ranks') -> Nat]
    BY <2>1, <2>2, InitialBoardConsistent
  <2> QED
    BY <2>2, <2>3 DEF joined
<1>3. TypeOK'
  BY <1>1, <1>2, PlayersAssumption
  DEF IInv, TypeOK, Start, joined, endVars, closeVars, Consistent
<1>4. /\ FinishedCount' /\ EndsWithLastPlayer'
      /\ CloseHasReason' /\ StartWaits' /\ GuessIsAllowed'
  BY <1>1
  DEF IInv, FinishedCount, EndsWithLastPlayer, CloseHasReason, StartWaits,
      GuessIsAllowed, Start, Listening, endVars, closeVars
<1>5. BoardConsistent' /\ BoardJoined'
  BY <1>1, <1>2 DEF BoardConsistent, BoardJoined, Consistent
<1>6. BestIsBest' /\ SessionStops' /\ NoGuessBeforeStart'
  BY <1>1 DEF IInv, BestIsBest, SessionStops, NoGuessBeforeStart, Start, endVars
<1>7. BoardSortedByScore'
  <2>1. CASE collector = "away"
    <3>1. \A k \in DOMAIN ranks' : sessions'[ranks'[k]].best = NoGuess
      BY <1>2, <2>1 DEF IInv, NoGuessBeforeStart, Start, Listening, joined, Range
    <3> QED
      BY <3>1 DEF BoardSortedByScore, ScoreOf, NoGuess
  <2>2. CASE collector # "away"
    BY <2>2 DEF BoardSortedByScore, Start, closeVars
  <2> QED
    BY <2>1, <2>2
<1> QED
  BY <1>3, <1>4, <1>5, <1>6, <1>7 DEF IInv

-----------------------------------------------------------------------------
(* A player joins: a new session has not ended and is not on the board.    *)
LEMMA JoinInv ==
  ASSUME IInv, NEW p \in Players, Join(p)
  PROVE  IInv'
<1>1. /\ joined' = joined \cup {p}
      /\ \A q \in joined : sessions'[q] = sessions[q]
      /\ p \notin joined => sessions'[p] = NewSession
  BY DEF Join, SessionsWith, joined
<1>2. endedPlayers' = endedPlayers
  BY <1>1, NewSessionOK DEF endedPlayers
<1>3. TypeOK'
  <2>1. joined' \subseteq Players /\ admitted' \subseteq Players
    BY <1>1 DEF IInv, TypeOK, Join
  <2>2. \A q \in joined' : sessions'[q] \in Session
    BY <1>1, NewSessionOK DEF IInv, TypeOK
  <2>3. sessions' \in [joined' -> Session]
    BY <2>2 DEF Join, SessionsWith, joined
  <2> QED
    BY <2>1, <2>3 DEF IInv, TypeOK, Join, boardVars, flagVars, endVars, closeVars
<1>4. FinishedCount'
  BY <1>2 DEF IInv, FinishedCount, Join, endVars
<1>5. EndsWithLastPlayer'
  <2>1. joined' # {} /\ endedPlayers' = joined' => endedAt'
    <3>1. CASE p \in joined
      BY <1>1, <1>2, <3>1 DEF IInv, EndsWithLastPlayer, Join, endVars
    <3>2. CASE p \notin joined
      BY <1>1, <3>2, NewSessionOK DEF endedPlayers
    <3> QED
      BY <3>1, <3>2
  <2>2. endedAt' => closed' /\ collector' # "away"
    BY DEF IInv, EndsWithLastPlayer, Join, Listening, endVars, closeVars
  <2> QED
    BY <2>1, <2>2 DEF EndsWithLastPlayer
<1>6. /\ BoardConsistent' /\ BoardJoined'
      /\ CloseHasReason' /\ StartWaits' /\ GuessIsAllowed'
  BY <1>1 DEF IInv, BoardConsistent, BoardJoined, CloseHasReason, StartWaits,
     GuessIsAllowed, Join, Listening, boardVars, flagVars, endVars, closeVars
<1>7. BoardSortedByScore'
  <2>1. \A k \in DOMAIN ranks : ranks[k] \in joined
    BY DEF IInv, BoardJoined, Range
  <2> QED
    BY <1>1, <2>1 DEF IInv, BoardSortedByScore, Better, Join, boardVars, closeVars
<1>8. BestIsBest'
  BY <1>1, NewSessionOK DEF IInv, BestIsBest, SessionOK
<1>9. SessionStops'
  BY <1>1, MaxGuessesAssumption DEF IInv, SessionStops, NewSession
<1>10. NoGuessBeforeStart'
  BY <1>1 DEF IInv, NoGuessBeforeStart, Join, NewSession, flagVars, endVars
<1> QED
  BY <1>3, <1>4, <1>5, <1>6, <1>7, <1>8, <1>9, <1>10 DEF IInv

-----------------------------------------------------------------------------
(* What a guess does to the session of its player, and to no other.        *)
LEMMA PlaySession ==
  ASSUME IInv, NEW p \in Players, NEW score \in Scores, Play(p, score)
  PROVE  /\ p \in joined /\ joined' = joined
         /\ collector = "away" => active /\ ~ closed /\ ~ endedAt /\ ~ starting
         /\ NewGuess(score, now) \in Guess
         /\ sessions[p] \in Session /\ SessionOK(sessions[p])
         /\ ~ Won(sessions[p]) /\ ~ Ended(sessions[p])
         /\ Len(sessions[p].guesses) < MaxGuesses
         /\ sessions'[p] = AddGuess(sessions[p], NewGuess(score, now))
         /\ sessions'[p] \in Session
         /\ \A q \in joined : q # p => sessions'[q] = sessions[q]
<1>1. /\ (Listening /\ MayPlay(p)) \/ p \in guessing
      /\ sessions' = [sessions EXCEPT ![p] =
                        AddGuess(sessions[p], NewGuess(score, now))]
  BY DEF Play
<1>2. p \in joined /\ ~ Won(sessions[p]) /\ ~ Ended(sessions[p])
      /\ CanPlay(sessions[p])
  BY <1>1 DEF MayPlay, IInv, GuessIsAllowed
<1>3. collector = "away" => active /\ ~ closed /\ ~ endedAt /\ ~ starting
  BY <1>1 DEF IInv, MayPlay, Listening, GuessIsAllowed, EndsWithLastPlayer
<1>4. sessions[p] \in Session /\ SessionOK(sessions[p])
  BY <1>2 DEF IInv, TypeOK, BestIsBest, SessionOK
<1>5. NewGuess(score, now) \in Guess
  BY ScoresAssumption, LengthAssumption
  DEF IInv, TypeOK, NewGuess, Guess, Score
<1>6. joined' = joined
      /\ sessions'[p] = AddGuess(sessions[p], NewGuess(score, now))
      /\ \A q \in joined : q # p => sessions'[q] = sessions[q]
  BY <1>1, <1>2 DEF joined
<1> QED
  BY <1>2, <1>3, <1>4, <1>5, <1>6, AddGuessType DEF CanPlay

(* The counter and the set it counts grow together.                        *)
LEMMA PlayEnded ==
  ASSUME IInv, NEW p \in Players, NEW score \in Scores, Play(p, score)
  PROVE  /\ FinishedCount' /\ finished' \in Nat
         /\ endedPlayers' = IF Ended(sessions'[p]) THEN endedPlayers \cup {p}
                            ELSE endedPlayers
         /\ p \notin endedPlayers
         /\ endedAt' <=> endedAt \/ endedPlayers' = joined
<1>1. /\ endedPlayers' = IF Ended(sessions'[p]) THEN endedPlayers \cup {p}
                         ELSE endedPlayers
      /\ p \notin endedPlayers
  BY PlaySession DEF endedPlayers
<1>2. IsFiniteSet(endedPlayers) /\ Cardinality(endedPlayers) \in Nat
      /\ endedPlayers \subseteq joined /\ IsFiniteSet(joined)
  BY CountsExist DEF IInv
<1>3. Cardinality(endedPlayers \cup {p}) = Cardinality(endedPlayers) + 1
  BY <1>1, <1>2, FS_AddElement
<1>4. finished = Cardinality(endedPlayers)
  BY DEF IInv, FinishedCount
<1>5. finished' = IF Ended(sessions'[p]) THEN finished + 1 ELSE finished
  BY PlaySession DEF Play, CountsAsFinished
<1>6. finished' = Cardinality(endedPlayers')
  BY <1>1, <1>3, <1>4, <1>5
<1>7. endedAt' <=> endedAt \/ (Ended(sessions'[p]) /\ finished' = Cardinality(joined))
  BY PlaySession DEF Play, CountsAsFinished, AllFinished
<1>8. endedPlayers' \subseteq joined /\ IsFiniteSet(endedPlayers')
  BY <1>1, <1>2, PlaySession, FS_Subset
<1>9. Cardinality(endedPlayers') = Cardinality(joined) <=> endedPlayers' = joined
  BY <1>2, <1>8, FS_Subset
<1>10. ~ Ended(sessions'[p]) => endedPlayers' # joined
  BY <1>1, PlaySession
<1> QED
  BY <1>1, <1>2, <1>4, <1>5, <1>6, <1>7, <1>9, <1>10 DEF FinishedCount

(* Where FixPosition starts and ends, on the board or off it.              *)
LEMMA PlayMove ==
  ASSUME IInv, NEW p \in Players, NEW score \in Scores, Play(p, score)
  PROVE  \E i \in Nat \ {0} : \E j \in 1..i :
           /\ \/ i \in DOMAIN ranks /\ ranks[i] = p
              \/ p \notin Range(ranks) /\ i = 1 /\ j = 1
           /\ LandsAt(ranks, sessions', i, j)
           /\ ranks' = MovedUp(ranks, i, j)
           /\ positions' = Repositioned(positions, ranks', i, j)
<1> DEFINE i == StartIndex(positions, p)
<1>1. PICK j \in 1..i : /\ LandsAt(ranks, sessions', i, j)
                        /\ ranks' = MovedUp(ranks, i, j)
                        /\ positions' = Repositioned(positions, ranks', i, j)
  BY DEF Play
<1>2. DOMAIN positions = Range(ranks)
      /\ \A k \in DOMAIN ranks : k \in Nat \ {0} /\ positions[ranks[k]] = k - 1
  BY DEF IInv, TypeOK, BoardConsistent
<1>3. CASE p \in Range(ranks)
  <2>1. PICK k \in DOMAIN ranks : p = ranks[k]
    BY <1>3 DEF Range
  <2>2. i = k
    BY <1>2, <1>3, <2>1 DEF StartIndex
  <2> QED
    BY <1>1, <1>2, <2>1, <2>2
<1>4. CASE p \notin Range(ranks)
  <2>1. i = 1
    BY <1>2, <1>4 DEF StartIndex
  <2>2. j = 1
    BY <2>1
  <2> QED
    BY <1>1, <1>4, <2>1, <2>2
<1> QED
  BY <1>3, <1>4

LEMMA PlayBoard ==
  ASSUME IInv, NEW p \in Players, NEW score \in Scores, Play(p, score)
  PROVE  /\ ranks' \in Seq(Players)
         /\ Range(ranks') = Range(ranks)
         /\ BoardConsistent'
         /\ DOMAIN positions' = DOMAIN positions
         /\ positions' \in [DOMAIN positions' -> Nat]
         /\ BoardSortedByScore'
<1>1. PICK i \in Nat \ {0} : \E j \in 1..i :
        /\ \/ i \in DOMAIN ranks /\ ranks[i] = p
           \/ p \notin Range(ranks) /\ i = 1 /\ j = 1
        /\ LandsAt(ranks, sessions', i, j)
        /\ ranks' = MovedUp(ranks, i, j)
        /\ positions' = Repositioned(positions, ranks', i, j)
  BY PlayMove
<1>2. PICK j \in 1..i :
        /\ \/ i \in DOMAIN ranks /\ ranks[i] = p
           \/ p \notin Range(ranks) /\ i = 1 /\ j = 1
        /\ LandsAt(ranks, sessions', i, j)
        /\ ranks' = MovedUp(ranks, i, j)
        /\ positions' = Repositioned(positions, ranks', i, j)
  BY <1>1
<1>3. /\ ranks \in Seq(Players) /\ Consistent(ranks, positions)
      /\ positions \in [DOMAIN positions -> Nat]
  BY DEF IInv, TypeOK, BoardConsistent, Consistent
<1>4. j < i => i \in DOMAIN ranks
  BY <1>2
<1>5. /\ ranks' \in Seq(Players)
      /\ DOMAIN ranks' = DOMAIN ranks
      /\ Range(ranks') = Range(ranks)
      /\ Consistent(ranks', positions')
      /\ positions' \in [DOMAIN positions -> Nat]
  BY <1>2, <1>3, <1>4, MovedUpConsistent
<1>6. \A k \in DOMAIN ranks : ranks[k] \in joined
  BY DEF IInv, BoardJoined, Range
<1>7. \A q \in joined : sessions[q].best \in Best /\ sessions'[q].best \in Best
  BY PlaySession DEF IInv, TypeOK, Session, Best
<1>8. CASE collector # "away"
  <2>1. collector' # "away"
    BY <1>8 DEF Play
  <2> QED
    BY <1>3, <1>5, <2>1 DEF BoardConsistent, BoardSortedByScore, Consistent
<1>9. CASE collector = "away"
  <2> SUFFICES BoardSortedByScore'
    BY <1>3, <1>5 DEF BoardConsistent, Consistent
  <2> DEFINE old == [q \in joined |-> sessions[q].best]
             new == [q \in joined |-> sessions'[q].best]
             n == Len(ranks)
  <2>1. n \in Nat /\ DOMAIN ranks = 1..n
    BY <1>3
  <2>2. SortedByScore(ranks, old)
    BY <1>6, <1>9 DEF IInv, BoardSortedByScore, SortedByScore, Better, Scored
  <2>3. CASE i \in DOMAIN ranks /\ ranks[i] = p
    <3>1. \A k \in 1..n : k # i => new[ranks[k]] = old[ranks[k]]
      BY <1>3, <1>6, <2>1, <2>3, ConsistentInjective, PlaySession
    <3>2. \/ new[ranks[i]] = old[ranks[i]]
          \/ GreaterThan(new[ranks[i]], old[ranks[i]])
          \/ old[ranks[i]] = NoGuess
      BY <2>3, PlaySession, AddGuessType
    <3>3. /\ \A k \in j..(i - 1) : GreaterThan(new[ranks[i]], new[ranks[k]])
          /\ j > 1 => ~ GreaterThan(new[ranks[i]], new[ranks[j - 1]])
      <4>1. /\ \A k \in j..(i - 1) : Better(sessions', ranks[i], ranks[k])
            /\ j > 1 => ~ Better(sessions', ranks[i], ranks[j - 1])
        BY <1>2 DEF LandsAt
      <4>2. /\ \A k \in j..(i - 1) : k \in DOMAIN ranks
            /\ j > 1 => j - 1 \in DOMAIN ranks
        BY <2>1, <2>3
      <4> QED
        BY <1>6, <2>3, <4>1, <4>2 DEF Better
    <3>4. \A k \in 1..n : old[ranks[k]] \in Best /\ new[ranks[k]] \in Best
      BY <1>6, <1>7, <2>1
    <3>5. i \in 1..n
      BY <2>1, <2>3
    <3>6. ImprovedAt(ranks, i, old, new) /\ Climbs(ranks, i, j, new)
      BY <2>1, <3>1, <3>2, <3>3, <3>4 DEF ImprovedAt, Climbs
    <3> HIDE DEF old, new, n
    <3>7. SortedByScore(MovedUp(ranks, i, j), new)
      BY <2>1, <2>2, <3>5, <3>6, MovedUpSorted
    <3>8. SortedByScore(ranks', new)
      BY <1>2, <3>7
    <3>9. \A k \in DOMAIN ranks' : ranks'[k] \in joined
      BY <1>5, <1>6 DEF Range
    <3> QED
      BY <3>8, <3>9
      DEF new, BoardSortedByScore, SortedByScore, Better, Scored
  <2>4. CASE p \notin Range(ranks) /\ i = 1 /\ j = 1
    <3>1. ranks' = ranks
      BY <1>2, <1>3, <2>4 DEF MovedUp
    <3>2. \A k \in DOMAIN ranks : sessions'[ranks[k]] = sessions[ranks[k]]
      BY <1>6, <2>4, PlaySession DEF Range
    <3> QED
      BY <1>9, <3>1, <3>2 DEF IInv, BoardSortedByScore, Better
  <2> QED
    BY <1>2, <2>3, <2>4
<1> QED
  BY <1>8, <1>9

LEMMA PlayInv ==
  ASSUME IInv, NEW p \in Players, NEW score \in Scores, Play(p, score)
  PROVE  IInv'
<1> DEFINE w == NewGuess(score, now)
<1>1. TypeOK'
  <2>1. sessions' \in [joined' -> Session]
    <3>1. sessions' = [sessions EXCEPT ![p] = AddGuess(sessions[p], w)]
      BY DEF Play
    <3>2. AddGuess(sessions[p], w) \in Session
      BY PlaySession
    <3> QED
      BY <3>1, <3>2, PlaySession DEF IInv, TypeOK
  <2>2. joined' \subseteq Players /\ now' \in Nat \ {0}
        /\ startedAt' \in BOOLEAN /\ admitted' \subseteq Players
        /\ starting' \in BOOLEAN /\ guessing' \subseteq Players
        /\ collector' \in {"away", "closing", "closed"}
    <3>1. /\ now' = now + 1 /\ startedAt' = startedAt /\ admitted' = admitted
          /\ starting' = starting /\ guessing' = {} /\ collector' = collector
      BY DEF Play
    <3>2. joined' = joined
      BY PlaySession
    <3> QED
      BY <3>1, <3>2 DEF IInv, TypeOK
  <2>3. endedAt' \in BOOLEAN /\ closed' \in BOOLEAN /\ active' \in BOOLEAN
    <3>1. /\ endedAt' = (endedAt \/ (CountsAsFinished(AddGuess(sessions[p], w))
                                     /\ AllFinished(finished')))
          /\ closed' = (closed \/ endedAt')
          /\ active' = (active /\ (closed \/ ~ endedAt'))
      BY DEF Play
    <3> QED
      BY <3>1, Zenon
  <2>4. DOMAIN positions' \subseteq Players
    BY PlayBoard DEF IInv, TypeOK
  <2> QED
    BY <2>1, <2>2, <2>3, <2>4, PlayBoard, PlayEnded DEF TypeOK
<1>2. EndsWithLastPlayer'
  BY PlaySession, PlayEnded DEF EndsWithLastPlayer, Play, IInv
<1>3. BestIsBest'
  <2>1. SessionOK(sessions'[p])
    BY PlaySession, AddGuessOK
  <2> QED
    BY <2>1, PlaySession DEF IInv, BestIsBest, SessionOK
<1>4. SessionStops'
  <2> DEFINE g == sessions[p].guesses
             h == sessions'[p].guesses
  <2>1. g \in Seq(Guess) /\ h = Append(g, w) /\ Len(h) = Len(g) + 1
    <3>1. sessions[p] \in Session /\ sessions'[p] = AddGuess(sessions[p], w)
      BY PlaySession
    <3>2. g \in Seq(Guess) /\ h = Append(g, w) /\ w \in Guess
      BY <3>1, PlaySession DEF Session, AddGuess
    <3> QED
      BY <3>2
  <2>2. Len(h) <= MaxGuesses
    BY <2>1, PlaySession, MaxGuessesAssumption
  <2>3. \A k \in DOMAIN g : ~ Correct(g[k])
    BY PlaySession, NotWonNoCorrect
  <2>4. \A k \in DOMAIN h : Correct(h[k]) => k = Len(h)
    <3>1. \A k \in DOMAIN h : k # Len(h) => k \in DOMAIN g /\ h[k] = g[k]
      BY <2>1
    <3> QED
      BY <2>3, <3>1
  <2> QED
    BY <2>2, <2>4, PlaySession DEF IInv, SessionStops
<1>5. /\ CloseHasReason' /\ StartWaits' /\ GuessIsAllowed' /\ NoGuessBeforeStart'
  BY PlaySession DEF IInv, CloseHasReason, StartWaits, GuessIsAllowed,
     NoGuessBeforeStart, Play
<1>6. BoardJoined'
  BY PlayBoard, PlaySession DEF IInv, BoardJoined
<1> QED
  BY <1>1, <1>2, <1>3, <1>4, <1>5, <1>6, PlayBoard, PlayEnded DEF IInv

LEMMA NextInv == IInv /\ [Next]_vars => IInv'
<1> SUFFICES ASSUME IInv, [Next]_vars PROVE IInv'
  OBVIOUS
<1>1. ASSUME NEW p \in Players, Admit(p) PROVE IInv'
  BY <1>1, AdmitInv
<1>2. ASSUME NEW p \in Players, Join(p) PROVE IInv'
  BY <1>2, JoinInv
<1>3. CASE Start
  BY <1>3, StartInv
<1>4. ASSUME NEW p \in Players, NEW score \in Scores, Play(p, score)
      PROVE  IInv'
  BY <1>4, PlayInv
<1>5. CASE Close
  BY <1>5, CloseInv
<1>6. CASE UNCHANGED vars
  BY <1>6, StutterInv
<1>7. CASE Started
  BY <1>7, StartedInv
<1>8. CASE GoDeaf
  BY <1>8, GoDeafInv
<1> QED
  BY <1>1, <1>2, <1>3, <1>4, <1>5, <1>6, <1>7, <1>8 DEF Next

-----------------------------------------------------------------------------
(* The inductive invariant holds in every reachable state.                 *)
THEOREM Inductive == Spec => []IInv
BY InitInv, NextInv, PTL DEF Spec

(* Type correctness of the game.                                           *)
THEOREM TypeCorrect == Spec => []TypeOK
<1>1. IInv => TypeOK
  BY DEF IInv
<1> QED
  BY <1>1, Inductive, PTL

(* Game.finished never drifts from the sessions it counts.                 *)
THEOREM FinishedCountCorrect == Spec => []FinishedCount
<1>1. IInv => FinishedCount
  BY DEF IInv
<1> QED
  BY <1>1, Inductive, PTL

(* Within one room the game ends with its last player.                     *)
THEOREM EndCorrect == Spec => []EndsWithLastPlayer
<1>1. IInv => EndsWithLastPlayer
  BY DEF IInv
<1> QED
  BY <1>1, Inductive, PTL

(* Ranks and Positions stay inverse to each other.                         *)
THEOREM BoardCorrect == Spec => []BoardConsistent
<1>1. IInv => BoardConsistent
  BY DEF IInv
<1> QED
  BY <1>1, Inductive, PTL

(* The leaderboard is sorted as far as GreaterThan is an order.            *)
THEOREM BoardSortedCorrect == Spec => []BoardSortedByScore
<1>1. IInv => BoardSortedByScore
  BY DEF IInv
<1> QED
  BY <1>1, Inductive, PTL

(* The cached best guess of every session is a best guess.                 *)
THEOREM BestCorrect == Spec => []BestIsBest
<1>1. IInv => BestIsBest
  BY DEF IInv
<1> QED
  BY <1>1, Inductive, PTL

(* Nobody guesses beyond the last guess or a correct one.                  *)
THEOREM SessionStopsCorrect == Spec => []SessionStops
<1>1. IInv => SessionStops
  BY DEF IInv
<1> QED
  BY <1>1, Inductive, PTL

-----------------------------------------------------------------------------
(* The initial state of the game is the contract's.                        *)
LEMMA InitContract == Init => Contract!CInit
BY DEF Init, Contract!CInit, joined, endedPlayers

(* What the contract sees of a room, by its flags.                         *)
LEMMA PhaseByFlags ==
  ASSUME IInv
  PROVE  /\ endedAt => closed
         /\ ~ closed => collector = "away" /\ ~ endedAt
         /\ Listening => ~ closed \/ collector = "closing"
  BY DEF IInv, EndsWithLastPlayer, CloseHasReason, Listening

(* Every step of the game is a step of the contract or a stutter.          *)
LEMMA NextContract ==
  ASSUME IInv, IInv', [Next]_vars
  PROVE  [Contract!CNext]_(Contract!cvars)
<1>1. ASSUME NEW p \in Players, Admit(p)
      PROVE  UNCHANGED Contract!cvars
  BY <1>1 DEF Admit, Contract!cvars, joined, endedPlayers, flagVars, endVars, closeVars
<1>2. ASSUME NEW p \in Players, Join(p)
      PROVE  Contract!Enter(p)
  <2>1. joined' = joined \cup {p}
    BY <1>2 DEF Join, SessionsWith, joined
  <2>2. endedPlayers' = endedPlayers
    BY <1>2, NewSessionOK DEF Join, SessionsWith, joined, endedPlayers
  <2> QED
    BY <1>2, <2>1, <2>2
    DEF Contract!Enter, Join, Listening, flagVars, endVars, closeVars
<1>3. ASSUME Start
      PROVE  UNCHANGED Contract!cvars
  BY <1>3 DEF Contract!cvars, Start, Listening, joined, endedPlayers, endVars, closeVars
<1>4. ASSUME NEW p \in Players, NEW score \in Scores, Play(p, score)
      PROVE  Contract!GetDone(p) \/ Contract!Silence \/ UNCHANGED Contract!cvars
  <2>1. /\ joined' = joined /\ guessing' = {}
        /\ closed' = (closed \/ endedAt')
        /\ active' = (active /\ (closed \/ ~ endedAt'))
        /\ starting' = starting /\ collector' = collector
        /\ Listening \/ guessing # {}
    BY <1>4, PlaySession DEF Play
  <2>2. ~ closed => active /\ ~ starting /\ ~ endedAt /\ collector = "away"
    BY <1>4, PhaseByFlags, PlaySession
  <2>3. ~ closed \/ collector = "closing" \/ starting \/ guessing # {}
    BY <2>1 DEF Listening
  <2>4. closed \in BOOLEAN /\ closed' \in BOOLEAN /\ endedAt' \in BOOLEAN
        /\ endedAt \in BOOLEAN /\ starting \in BOOLEAN
    BY DEF IInv, TypeOK
  <2>5. CASE Ended(sessions'[p])
    <3>1. endedPlayers' = endedPlayers \cup {p} /\ p \in joined \ endedPlayers
          /\ endedAt' = (endedAt \/ endedPlayers' = joined)
      BY <1>4, <2>4, <2>5, PlaySession, PlayEnded
    <3>2. CASE closed
      BY <2>1, <2>3, <2>4, <3>1, <3>2 DEF Contract!GetDone
    <3>3. CASE ~ closed
      BY <2>1, <2>2, <2>3, <2>4, <3>1, <3>3 DEF Contract!GetDone
    <3> QED
      BY <3>2, <3>3
  <2>6. CASE ~ Ended(sessions'[p])
    <3>1. endedPlayers' = endedPlayers
      BY <1>4, <2>6, PlayEnded
    <3>2. endedAt' = endedAt
      <4>1. endedPlayers' # joined
        BY <1>4, <2>6, PlaySession, PlayEnded
      <4> QED
        BY <1>4, <2>4, <4>1, PlayEnded
    <3>3. CASE closed
      BY <2>1, <2>3, <2>4, <3>1, <3>2, <3>3 DEF Contract!Silence, Contract!cvars
    <3>4. CASE ~ closed
      BY <2>1, <2>2, <2>3, <2>4, <3>1, <3>2, <3>4 DEF Contract!cvars
    <3> QED
      BY <3>3, <3>4
  <2> QED
    BY <2>5, <2>6
<1>5. ASSUME Close
      PROVE  Contract!Abandon
  BY <1>5, PhaseByFlags DEF Contract!Abandon, Close, joined, endedPlayers
<1>6. CASE UNCHANGED vars
  BY <1>6 DEF vars, Contract!cvars, joined, endedPlayers, flagVars, endVars, closeVars
<1>7. ASSUME Started
      PROVE  Contract!Begin \/ Contract!Silence \/ UNCHANGED Contract!cvars
  <2>1. joined' = joined /\ endedPlayers' = endedPlayers /\ starting
        /\ ~ starting' /\ closed' = closed /\ endedAt' = endedAt
        /\ collector' = collector /\ guessing' = guessing
        /\ active' \in {active, TRUE}
    BY <1>7 DEF Started, joined, endedPlayers, endVars, closeVars
  <2>2. CASE closed
    BY <2>1, <2>2 DEF Contract!Silence, Contract!cvars
  <2>3. CASE ~ closed
    BY <2>1, <2>3, PhaseByFlags
    DEF Contract!Begin, Contract!cvars, IInv, TypeOK, StartWaits
  <2> QED
    BY <2>2, <2>3
<1>8. ASSUME GoDeaf
      PROVE  Contract!Silence \/ UNCHANGED Contract!cvars
  <2>1. closed
    BY <1>8 DEF GoDeaf, IInv, CloseHasReason
  <2> QED
    BY <1>8, <2>1 DEF GoDeaf, Contract!Silence, Contract!cvars, joined,
       endedPlayers, flagVars, endVars
<1> QED
  BY <1>1, <1>2, <1>3, <1>4, <1>5, <1>6, <1>7, <1>8 DEF Next, Contract!CNext

(* The game implements its contract, with the collector closing the room   *)
(* at any moment: it is finished by the last player to get done, which     *)
(* ends an undisturbed game at that step, and it never reopens.            *)
THEOREM Refinement == Spec => ImplementsContract
BY InitContract, NextContract, Inductive, PTL
DEF Spec, ImplementsContract, Contract!CSpec

-----------------------------------------------------------------------------
(* Append leaves the guesses made so far in front.                         *)
LEMMA AppendKeepsPrefix ==
  ASSUME NEW S, NEW s \in Seq(S), NEW w
  PROVE  IsPrefix(s, s) /\ IsPrefix(s, Append(s, w))
<1>1. Len(s) \in Nat /\ Len(s) <= Len(s)
  OBVIOUS
<1>2. SubSeq(s, 1, Len(s)) = SubSeq(Append(s, w), 1, Len(s))
  OBVIOUS
<1>3. Len(s) <= Len(Append(s, w))
  OBVIOUS
<1> QED
  BY <1>1, <1>2, <1>3 DEF IsPrefix

(* No step takes a session or a guess away: a join keeps the session it    *)
(* finds, and a guess is appended.                                         *)
LEMMA StepKeepsGuesses ==
  ASSUME IInv, [Next]_vars, NEW p, p \in joined
  PROVE  /\ p \in DOMAIN sessions'
         /\ IsPrefix(sessions[p].guesses, sessions'[p].guesses)
<1>1. sessions[p].guesses \in Seq(Guess)
  BY DEF IInv, TypeOK, Session
<1>2. CASE UNCHANGED sessions
  BY <1>1, <1>2, AppendKeepsPrefix DEF joined
<1>3. ASSUME NEW q \in Players, Join(q)
      PROVE  p \in DOMAIN sessions' /\ sessions'[p] = sessions[p]
  BY <1>3 DEF Join, SessionsWith, joined
<1>4. ASSUME NEW q \in Players, NEW score \in Scores, Play(q, score)
      PROVE  /\ p \in DOMAIN sessions'
             /\ \/ sessions'[p] = sessions[p]
                \/ sessions'[p].guesses =
                     Append(sessions[p].guesses, NewGuess(score, now))
  <2>1. /\ joined' = joined
        /\ sessions'[q] = AddGuess(sessions[q], NewGuess(score, now))
        /\ \A r \in joined : r # q => sessions'[r] = sessions[r]
    BY <1>4, PlaySession
  <2>2. AddGuess(sessions[q], NewGuess(score, now)).guesses =
          Append(sessions[q].guesses, NewGuess(score, now))
    BY DEF AddGuess
  <2>3. p \in DOMAIN sessions'
    BY <2>1 DEF joined
  <2>4. CASE p = q
    BY <2>1, <2>2, <2>3, <2>4
  <2>5. CASE p # q
    BY <2>1, <2>3, <2>5
  <2> QED
    BY <2>4, <2>5
<1>5. \/ UNCHANGED sessions
      \/ \E q \in Players : Join(q)
      \/ \E q \in Players, score \in Scores : Play(q, score)
  BY DEF Next, Admit, Start, Started, Close, GoDeaf, vars
<1>6. \A w : /\ IsPrefix(sessions[p].guesses, sessions[p].guesses)
             /\ IsPrefix(sessions[p].guesses, Append(sessions[p].guesses, w))
  BY <1>1, AppendKeepsPrefix
<1>7. CASE \E q \in Players : Join(q)
  BY <1>3, <1>6, <1>7
<1>8. CASE \E q \in Players, score \in Scores : Play(q, score)
  BY <1>4, <1>6, <1>8
<1> QED
  BY <1>2, <1>5, <1>7, <1>8

(* A player that reconnects finds all its guesses again.                   *)
THEOREM GuessesKeptCorrect == Spec => GuessesAreKept
<1>1. IInv /\ [Next]_vars =>
        [\A p \in joined :
           /\ p \in DOMAIN sessions'
           /\ IsPrefix(sessions[p].guesses, sessions'[p].guesses)]_vars
  BY StepKeepsGuesses
<1> QED
  BY <1>1, Inductive, PTL DEF Spec, GuessesAreKept

-----------------------------------------------------------------------------
(* Only a guess moves anybody on the board of an active room.              *)
LEMMA BoardRests ==
  ASSUME [Next]_vars, active
  PROVE  \/ UNCHANGED positions
         \/ \E p \in Players, score \in Scores : Play(p, score)
BY DEF Next, Admit, Join, Start, Started, Close, GoDeaf, vars, boardVars

(* A guess moves its own player up or not at all.                          *)
LEMMA PlayClimbs ==
  ASSUME IInv, NEW u \in Players, NEW score \in Scores, Play(u, score),
         NEW p, p \in DOMAIN positions, NEW q, q \in DOMAIN positions
  PROVE  /\ sessions'[p] # sessions[p] => positions'[p] <= positions[p]
         /\ /\ positions[p] < positions[q]
            /\ sessions'[p] = sessions[p]
            /\ sessions'[q] = sessions[q]
            => positions'[p] < positions'[q]
<1>1. PICK i \in Nat \ {0} : \E j \in 1..i :
        /\ \/ i \in DOMAIN ranks /\ ranks[i] = u
           \/ u \notin Range(ranks) /\ i = 1 /\ j = 1
        /\ LandsAt(ranks, sessions', i, j)
        /\ ranks' = MovedUp(ranks, i, j)
        /\ positions' = Repositioned(positions, ranks', i, j)
  BY PlayMove
<1>2. PICK j \in 1..i :
        /\ \/ i \in DOMAIN ranks /\ ranks[i] = u
           \/ u \notin Range(ranks) /\ i = 1 /\ j = 1
        /\ LandsAt(ranks, sessions', i, j)
        /\ ranks' = MovedUp(ranks, i, j)
        /\ positions' = Repositioned(positions, ranks', i, j)
  BY <1>1
<1>3. /\ ranks \in Seq(Players) /\ Consistent(ranks, positions)
      /\ positions \in [DOMAIN positions -> Nat]
      /\ p \in Range(ranks) /\ q \in Range(ranks)
      /\ p \in joined /\ q \in joined
  BY DEF IInv, TypeOK, BoardConsistent, BoardJoined, Consistent
<1>4. PICK k \in DOMAIN ranks : ranks[k] = p
  BY <1>3 DEF Range
<1>5. PICK m \in DOMAIN ranks : ranks[m] = q
  BY <1>3 DEF Range
<1>6. k \in Nat /\ m \in Nat /\ positions[p] = k - 1 /\ positions[q] = m - 1
  BY <1>3, <1>4, <1>5 DEF Consistent
<1> DEFINE to(n) == IF n = i THEN j - 1 ELSE IF n \in j..(i - 1) THEN n ELSE n - 1
<1>7. positions'[p] = to(k) /\ positions'[q] = to(m)
  BY <1>2, <1>3, <1>4, <1>5, MovedUpPositions
<1>8. sessions'[u] # sessions[u]
  <2>1. Len(sessions'[u].guesses) = Len(sessions[u].guesses) + 1
        /\ Len(sessions[u].guesses) \in Nat
    BY PlaySession, AddGuessType DEF Session
  <2> QED
    BY <2>1
<1>9. sessions'[p] # sessions[p] => p = u
  BY <1>3, PlaySession
<1>10. p = u => k = i
  BY <1>2, <1>3, <1>4, ConsistentInjective DEF Range
<1>11. /\ p # u /\ i \in DOMAIN ranks /\ ranks[i] = u => k # i
       /\ q # u /\ i \in DOMAIN ranks /\ ranks[i] = u => m # i
  BY <1>4, <1>5
<1>12. u \notin Range(ranks) => i = 1 /\ j = 1
  BY <1>2 DEF Range
<1>13. k >= 1 /\ m >= 1
  BY <1>3
<1>14. sessions'[p] # sessions[p] => positions'[p] <= positions[p]
  BY <1>6, <1>7, <1>9, <1>10
<1>15. ASSUME k < m, p # u, q # u
       PROVE  to(k) < to(m)
  BY <1>2, <1>6, <1>11, <1>13, <1>15
<1> QED
  BY <1>6, <1>7, <1>8, <1>14, <1>15

(* However guesses interleave, nobody is moved down by its own guess or    *)
(* past another by a third one's.                                          *)
THEOREM ClimbsCorrect == Spec => OnlyTheGuesserClimbs
<1>1. ASSUME IInv, [Next]_vars, active, NEW p, p \in DOMAIN positions,
             NEW q, q \in DOMAIN positions
      PROVE  /\ sessions'[p] # sessions[p] => positions'[p] <= positions[p]
             /\ /\ positions[p] < positions[q]
                /\ sessions'[p] = sessions[p]
                /\ sessions'[q] = sessions[q]
                => positions'[p] < positions'[q]
  <2>1. CASE UNCHANGED positions
    BY <1>1, <2>1 DEF IInv, TypeOK
  <2>2. CASE \E u \in Players, score \in Scores : Play(u, score)
    BY <1>1, <2>2, PlayClimbs
  <2> QED
    BY <1>1, <2>1, <2>2, BoardRests
<1>2. IInv /\ [Next]_vars =>
        [active =>
           \A p, q \in DOMAIN positions :
             /\ sessions'[p] # sessions[p] => positions'[p] <= positions[p]
             /\ /\ positions[p] < positions[q]
                /\ sessions'[p] = sessions[p]
                /\ sessions'[q] = sessions[q]
                => positions'[p] < positions'[q]]_vars
  BY <1>1
<1> QED
  BY <1>2, Inductive, PTL DEF Spec, OnlyTheGuesserClimbs
=============================================================================
