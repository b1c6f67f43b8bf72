-------------------------------- MODULE Game --------------------------------
(***************************************************************************)
(* One game and the flags of the room that runs it (game/game.go, and the  *)
(* parts of game/room.go that read or write the Game).  The run goroutine  *)
(* handles one message at a time.  The checks of an HTTP handler happen    *)
(* earlier, in a goroutine of its own: a join is two actions, Admit        *)
(* (CanJoin) and Join (the PJoin message).                                 *)
(*                                                                         *)
(* The hub's collector calls Room.Close without a lock while a handler may *)
(* be anywhere.  What that can change is kept apart: start waits for the   *)
(* service between Start and Started, a guess that has passed its checks   *)
(* when the flags change is still played, and run may pick messages until  *)
(* Close has set the channel to nil.                                       *)
(*                                                                         *)
(* Connections are the business of Room.tla: here any player that has a    *)
(* session may send a guess.                                               *)
(***************************************************************************)
EXTENDS RankBoard, FiniteSets

CONSTANTS Players,       \* usernames
          Creator,       \* Game.Creator
          Scores         \* the scores Check can give to a guess

ASSUME PlayersAssumption == IsFiniteSet(Players) /\ Creator \in Players
ASSUME ScoresAssumption == Scores \subseteq Score

VARIABLES
  sessions,   \* Game.Sessions: a function from the players that joined
  ranks,      \* Game.Leaderboard.Ranks
  positions,  \* Game.Leaderboard.Positions
  startedAt,  \* Game.StartedAt is set
  endedAt,    \* Game.EndedAt is set
  finished,   \* Game.finished
  active,     \* Room.active
  closed,     \* Room.closed
  starting,   \* start waits for StartGame
  guessing,   \* the player whose guess has passed the checks that read active
  collector,  \* where the collector's Close is: "away", "closing", "closed"
  admitted,   \* players past CanJoin whose PJoin is not processed yet
  now         \* the clock; every guess has a later PlayedAt than the last

boardVars == <<ranks, positions>>
flagVars == <<startedAt, active, starting>>
endVars == <<endedAt, finished, closed>>
closeVars == <<guessing, collector>>
vars == <<sessions, boardVars, flagVars, endVars, closeVars, admitted, now>>

joined == DOMAIN sessions

Init ==
  /\ sessions = [p \in {} |-> NewSession]
  /\ ranks = <<>>
  /\ positions = InitialPositions(ranks)
  /\ startedAt = FALSE
  /\ endedAt = FALSE
  /\ finished = 0
  /\ active = FALSE
  /\ closed = FALSE
  /\ starting = FALSE
  /\ guessing = {}
  /\ collector = "away"
  /\ admitted = {}
  /\ now = 1

-----------------------------------------------------------------------------
(* handler.live: CanJoin, then the upgrade and newPlayerConn, whose reader *)
(* can already send while the PJoin still waits for the run goroutine.     *)
CanJoin(p) == ~ closed /\ (active => p \in joined)

Admit(p) ==
  /\ CanJoin(p)
  /\ admitted' = admitted \cup {p}
  /\ UNCHANGED <<sessions, boardVars, flagVars, endVars, closeVars, now>>

(* run waits for a message.  Its own Close ends that at once; the          *)
(* collector's only when the channel is nil, for select may prefer a       *)
(* message to a cancelled context.                                         *)
Listening ==
  /\ guessing = {}
  /\ ~ starting
  /\ ~ closed \/ collector = "closing"

(* Room.join forgets to look for the session of a player that comes back.  *)
SessionsWithFresh(p) ==
  [q \in joined \cup {p} |-> IF q = p THEN NewSession ELSE sessions[q]]

(* Game.Join, called when Sessions has no entry for the player.            *)
SessionsWith(p) ==
  [q \in joined \cup {p} |-> IF q \in joined THEN sessions[q] ELSE NewSession]

Join(p) ==
  /\ Listening
  /\ p \in admitted
  /\ sessions' = SessionsWith(p)
  /\ admitted' = admitted \ {p}
  /\ UNCHANGED <<boardVars, flagVars, endVars, closeVars, now>>

(* Room.start by the creator up to the call of the service.                *)
Start ==
  /\ Listening
  /\ Creator \in admitted \cup joined
  /\ ~ active
  /\ startedAt' = TRUE
  /\ ranks' \in InitialRanks(sessions)
  /\ positions' = InitialPositions(ranks')
  /\ starting' = TRUE
  /\ UNCHANGED <<sessions, active, endVars, closeVars, admitted, now>>

(* StartGame returns.  active is set only when the game was stored, and    *)
(* then also on a room that has been closed meanwhile; after an error the  *)
(* creator may try again.                                                  *)
Started ==
  /\ starting
  /\ starting' = FALSE
  /\ active' \in {active, TRUE}
  /\ UNCHANGED <<sessions, boardVars, startedAt, endVars, closeVars, admitted, now>>

-----------------------------------------------------------------------------
(* Only winners counted, as Game.Resync does after a reload.               *)
CountsWinnersOnly(s) == Won(s)

CountsAsFinished(s) == Ended(s)

(* Counting the board instead of the sessions misses a late joiner.        *)
AllOnBoardFinished(n) == n = Len(ranks)

AllFinished(n) == n = Cardinality(joined)

(* Room.play without the checks of the session: only Room.active is read.  *)
MayPlayIfActive(p) == active /\ p \in joined

(* Room.play's checks and those of Game.Play.                              *)
MayPlay(p) ==
  /\ active
  /\ p \in joined
  /\ ~ Won(sessions[p])
  /\ CanPlay(sessions[p])
  /\ ~ Ended(sessions[p])

(* Room.play for a valid word: Game.Play and, when that set EndedAt, Close *)
(* in the same handler, which returns early if the collector closed the    *)
(* room.  FixPosition takes p from index i to index j.                     *)
Play(p, score) ==
  LET s == AddGuess(sessions[p], NewGuess(score, now))
      i == StartIndex(positions, p)
  IN
  /\ (Listening /\ MayPlay(p)) \/ p \in guessing
  /\ guessing' = {}
  /\ sessions' = [sessions EXCEPT ![p] = s]
  /\ \E j \in 1..i :
       /\ LandsAt(ranks, sessions', i, j)
       /\ ranks' = MovedUp(ranks, i, j)
       /\ positions' = Repositioned(positions, ranks', i, j)
  /\ finished' = IF CountsAsFinished(s) THEN finished + 1 ELSE finished
  /\ endedAt' = (endedAt \/ (CountsAsFinished(s) /\ AllFinished(finished')))
  /\ closed' = (closed \/ endedAt')
  /\ active' = (active /\ (closed \/ ~ endedAt'))
  /\ now' = now + 1
  /\ UNCHANGED <<startedAt, starting, collector, admitted>>

(* The collector's Close from the flags on no longer stops a guess that    *)
(* has passed Room.play's checks.                                          *)
GuessesUnderWay == {{}} \cup {{p} : p \in {q \in joined : MayPlay(q)}}

(* Room.Close called by the hub's collector, up to cancelCtx.              *)
Close ==
  /\ ~ closed
  /\ closed' = TRUE
  /\ active' = FALSE
  /\ collector' = "closing"
  /\ guessing' \in GuessesUnderWay
  /\ UNCHANGED <<sessions, boardVars, startedAt, starting, endedAt, finished, admitted, now>>

(* It sets the channel to nil.                                             *)
GoDeaf ==
  /\ collector = "closing"
  /\ collector' = "closed"
  /\ UNCHANGED <<sessions, boardVars, flagVars, endVars, guessing, admitted, now>>

Next ==
  \/ \E p \in Players : Admit(p) \/ Join(p)
  \/ Start
  \/ Started
  \/ \E p \in Players, score \in Scores : Play(p, score)
  \/ Close
  \/ GoDeaf

Spec == Init /\ [][Next]_vars

-----------------------------------------------------------------------------
(* Every variable has its type.                                            *)
TypeOK ==
  /\ joined \subseteq Players
  /\ sessions \in [joined -> Session]
  /\ ranks \in Seq(Players)
  /\ DOMAIN positions \subseteq Players
  /\ positions \in [DOMAIN positions -> Nat]
  /\ startedAt \in BOOLEAN /\ endedAt \in BOOLEAN
  /\ active \in BOOLEAN /\ closed \in BOOLEAN
  /\ starting \in BOOLEAN
  /\ guessing \subseteq Players
  /\ collector \in {"away", "closing", "closed"}
  /\ finished \in Nat
  /\ admitted \subseteq Players
  /\ now \in Nat \ {0}

endedPlayers == {p \in joined : Ended(sessions[p])}

(* Game.finished, incremented along the way in a room that was not loaded  *)
(* from redis, always equals the number of the sessions that have ended.   *)
FinishedCount == finished = Cardinality(endedPlayers)

(* EndedAt is set as soon as every player of a non-empty game has ended, a *)
(* late joiner included, and the room of such a game is closed.  Unless    *)
(* the collector's Close came in between, it is not set before, and nobody *)
(* enters or guesses afterwards.                                           *)
EndsWithLastPlayer ==
  /\ joined # {} /\ endedPlayers = joined => endedAt
  /\ endedAt => closed
  /\ endedAt /\ collector = "away" => endedPlayers = joined /\ ~ active

(* The two halves of the leaderboard agree: Ranks holds nobody twice and   *)
(* Positions is its inverse.                                               *)
BoardConsistent ==
  /\ DOMAIN positions = Range(ranks)
  /\ \A k \in DOMAIN ranks : positions[ranks[k]] = k - 1

(* However guesses of several players interleave, bubbling up only the one *)
(* that guessed keeps everybody with some letter right below nobody that   *)
(* it beats.  (A start that run still handles in a room that the collector *)
(* is closing mixes the board of the played game once more.)               *)
BoardSortedByScore ==
  collector = "away" =>
    \A i, j \in DOMAIN ranks :
      i < j /\ ScoreOf(sessions[ranks[j]].best) # <<0, 0>>
        => ~ Better(sessions, ranks[j], ranks[i])

(* The cached best guess is one of the guesses and none of them beats it.  *)
BestIsBest ==
  \A p \in joined :
    LET s == sessions[p] IN
    /\ s.guesses = <<>> <=> s.best = NoGuess
    /\ s.guesses # <<>> => s.best \in Range(s.guesses)
    /\ \A k \in DOMAIN s.guesses : ~ GreaterThan(s.guesses[k], s.best)

(* Nobody guesses on after a correct word, nor beyond MaxGuesses.          *)
SessionStops ==
  \A p \in joined :
    LET g == sessions[p].guesses IN
    /\ Len(g) <= MaxGuesses
    /\ \A k \in DOMAIN g : Correct(g[k]) => k = Len(g)

(* A guess never moves its own player down, and never changes the order of *)
(* two players that did not make it.                                       *)
OnlyTheGuesserClimbs ==
  [][active =>
       \A p, q \in DOMAIN positions :
         /\ sessions'[p] # sessions[p] => positions'[p] <= positions[p]
         /\ /\ positions[p] < positions[q]
            /\ sessions'[p] = sessions[p]
            /\ sessions'[q] = sessions[q]
            => positions'[p] < positions'[q]]_vars

(* A player that reconnects finds its guesses again: no step of anybody    *)
(* takes a session or a guess away.                                        *)
GuessesAreKept ==
  [][\A p \in joined :
       /\ p \in DOMAIN sessions'
       /\ IsPrefix(sessions[p].guesses, sessions'[p].guesses)]_vars

-----------------------------------------------------------------------------
(* The game implements its contract.                                       *)
Contract == INSTANCE GameContract WITH
  phase <- IF endedAt THEN "finished" ELSE IF closed THEN "abandoned"
           ELSE IF active THEN "playing" ELSE "lobby",
  heard <- ~ closed \/ collector = "closing" \/ starting \/ guessing # {},
  players <- joined,
  done <- endedPlayers

(* Every behaviour of the game is one the contract allows: it is finished  *)
(* by the last player that gets done, at that very step, is not reopened,  *)
(* and nobody is heard afterwards, whatever the collector closes meanwhile.*)
ImplementsContract == Contract!CSpec

-----------------------------------------------------------------------------
(* game.go:103 says that Join enters a game before it starts.              *)
NoLateJoin == [][active => joined = DOMAIN sessions']_vars
=============================================================================
