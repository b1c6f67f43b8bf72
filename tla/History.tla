------------------------------ MODULE History ------------------------------
(***************************************************************************)
(* What comes back of a game from the stores: the room that                *)
(* GameRepository.LoadGame makes from redis, and the answer to             *)
(* GET /room/{id} that FetchGame, setSessions and ToResponse make from the *)
(* rows FinishGame wrote.  Both forget the leaderboard's history and sort  *)
(* it again.  When and whether these calls happen is the business of       *)
(* Hub.tla and Archive.tla; here they are functions of the game's state.   *)
(*                                                                         *)
(* Times lose their nanoseconds in postgres: guesses of one game are made  *)
(* one after another, with a call to redis in between, so their order      *)
(* stays.  Check finds the same score again for the same two words.        *)
(***************************************************************************)
EXTENDS Game

(* Session.Resync keeping the last guess that is as good.                  *)
ResyncedToLast(guesses) ==
  [guesses |-> guesses, best |-> IF guesses = <<>> THEN NoGuess ELSE Last(guesses)]

(* Session.Resync plays the guesses once more.                             *)
Resynced(guesses) == FoldLeft(AddGuess, NewSession, guesses)

(* RankBoard.Resync sorts without looking at the best guesses.             *)
UnsortedBoards(sess) == SetToSeqs(DOMAIN sess)

(* What RankBoard.Resync may leave in Ranks.  Up to twelve sessions        *)
(* sort.Slice inserts one after another and leaves nobody right below one  *)
(* it beats.  For more it relies on an order in which being equal is       *)
(* transitive, which sessions without a letter break: those of them that   *)
(* have no guess equal all the others.  They may stand in any order, at    *)
(* the end, for every other session beats them.                            *)
SortedBoards(sess) ==
  {r \in SetToSeqs(DOMAIN sess) :
     \A k \in DOMAIN r :
       k > 1 /\ ScoreOf(sess[r[k]].best) # <<0, 0>> => ~ Better(sess, r[k], r[k - 1])}

(* One entry of game_performance or of the live leaderboard.               *)
Summary(r, sess, played, k) ==
  [username |-> r[k], rank |-> k - 1, best |-> ScoreOf(sess[r[k]].best), words_played |-> played[r[k]]]

(* ToLeaderboard.                                                          *)
ToLeaderboard(r, sess, played) == [k \in DOMAIN r |-> Summary(r, sess, played, k)]

Played(sess) == [p \in DOMAIN sess |-> Len(sess[p].guesses)]

(* The entries of players that have some letter right.                     *)
Scoring(board) == {e \in Range(board) : e.best # <<0, 0>>}

onBoard == [p \in Range(ranks) |-> sessions[p]]

liveBoard == ToLeaderboard(ranks, onBoard, Played(onBoard))

-----------------------------------------------------------------------------
(* LoadGame: the players that redis has are those of the start.            *)
Reloaded == [p \in Range(ranks) |-> Resynced(sessions[p].guesses)]

(* A player whose guesses have all reached redis finds the same session    *)
(* after a reload, and the players with some letter right find the same    *)
(* leaderboard, though LoadGame (repository/redis/game.go:112) starts from *)
(* any order and sorts, while the running game only ever moved up the one  *)
(* that guessed.                                                           *)
ReloadKeepsBoard ==
  active /\ collector = "away" =>
    /\ Reloaded = onBoard
    /\ \A r \in SortedBoards(Reloaded) :
         Scoring(ToLeaderboard(r, Reloaded, Played(Reloaded))) = Scoring(liveBoard)

-----------------------------------------------------------------------------
(* UpdateGamePlayer for the players that have a row, those of the start.   *)
Rows ==
  [p \in Range(ranks) |-> [played_words |-> sessions[p].guesses,
                           best_guess |-> sessions[p].best,
                           rank |-> StartIndex(positions, p) - 1]]

(* setSessions without the case of the asking player.                      *)
OnlyBest(rows, asker, p) == Resynced(<<rows[p].best_guess>>)

(* setSessions: the asking player gets all of its guesses back, the others *)
(* the best one only.                                                      *)
Fetched(rows, asker, p) ==
  Resynced(IF p = asker THEN rows[p].played_words ELSE <<rows[p].best_guess>>)

(* TotalWords, for SetWordsCount.                                          *)
WordsCount(rows) == [p \in DOMAIN rows |-> Len(rows[p].played_words)]

(* Ranks[rank] is set for each row: an entry that no row sets stays nil,   *)
(* and Resync would follow it.                                             *)
RanksFilled(rows) ==
  \A k \in 1..Cardinality(DOMAIN rows) : \E p \in DOMAIN rows : rows[p].rank = k - 1

(* What GET /room/{id} may answer to a player that has a row.              *)
Responses(rows, asker) ==
  LET sess == [p \in DOMAIN rows |-> Fetched(rows, asker, p)] IN
  {[guesses |-> sess[asker].guesses,
    performance |-> ToLeaderboard(r, sess, WordsCount(rows))] : r \in SortedBoards(sess)}

(* Once the game has ended, whoever asks for it sees its own guesses, and  *)
(* for everybody with some letter right the rank, best guess and number of *)
(* words that the last broadcast of the game showed, although other        *)
(* players' guesses are reduced to one and the board is sorted anew        *)
(* (repository/postgres/game.go:250-287, game/response.go:80-122).         *)
FetchShowsResults ==
  endedAt /\ collector = "away" =>
    /\ RanksFilled(Rows)
    /\ \A asker \in DOMAIN Rows : \A answer \in Responses(Rows, asker) :
         /\ answer.guesses = sessions[asker].guesses
         /\ Scoring(answer.performance) = Scoring(liveBoard)

-----------------------------------------------------------------------------
(* FixPosition, swap by swap: the board after n rounds of its loop and the *)
(* index of the player, which stays where the loop breaks.                 *)
Loop(r, pos, sess, p) ==
  LET i == StartIndex(pos, p)
      Round[n \in 0..(i - 1)] ==
        IF n = 0 THEN [ranks |-> r, positions |-> pos, at |-> i]
        ELSE LET b == Round[n - 1] IN
             IF b.at = i - n + 1 /\ Better(sess, b.ranks[b.at], b.ranks[b.at - 1])
             THEN [ranks |-> [b.ranks EXCEPT ![b.at] = b.ranks[b.at - 1], ![b.at - 1] = b.ranks[b.at]],
                   positions |-> [b.positions EXCEPT ![b.ranks[b.at]] = b.at - 2,
                                                     ![b.ranks[b.at - 1]] = b.at - 1],
                   at |-> b.at - 1]
             ELSE b
  IN Round[i - 1]

(* The move that Play makes in one step is what the loop of FixPosition    *)
(* (game/game.go:62-77) arrives at, on every board that occurs.            *)
PlayRunsTheLoop ==
  [][\A p \in joined :
       sessions'[p] # sessions[p] =>
         LET b == Loop(ranks, positions, sessions', p)
         IN ranks' = b.ranks /\ positions' = b.positions]_vars
=============================================================================
