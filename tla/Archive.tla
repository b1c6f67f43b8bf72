------------------------------ MODULE Archive ------------------------------
(***************************************************************************)
(* GET /room/{id} beside the life of the game in Hub.tla.  FetchGame of    *)
(* repository/postgres/game.go reads the game, all its players and the     *)
(* asking player in three queries without a transaction: rooms are         *)
(* started, finished and wiped in between.  What the answer is made of is  *)
(* the business of History.tla.                                            *)
(*                                                                         *)
(* What the answer takes from the first query never changes while the row  *)
(* is there, so the query needs no step of its own.  A request whose game  *)
(* is wiped before the second query finds no rows and fails at the third,  *)
(* since the game does not come back (ImplementsRecord).                   *)
(***************************************************************************)
EXTENDS Hub

VARIABLES
  read,   \* whether GamePlayers has answered the request, and the rows
  wiped   \* a wipe has deleted the row (read by no code)

archiveVars == <<vars, read, wiped>>

NoRead == [at |-> "idle", rows |-> NoGuesses]

ArchiveInit == Init /\ read = NoRead /\ wiped = FALSE

-----------------------------------------------------------------------------
(* Mutant: a number of words that is NULL is taken for 0.                  *)
NullIsZero(p) == TRUE

(* total_words of a player without results is NULL, and an int32 cannot be *)
(* scanned from it.                                                        *)
Counted(p) == p \in pg.recorded

(* FetchGame up to GamePlayers: no row at all is not an error.             *)
FetchPlayers ==
  /\ read.at = "idle"
  /\ pg.game
  /\ \A p \in pg.players : Counted(p)
  /\ read' = [at |-> "player", rows |-> [p \in pg.players |-> pg.results[p]]]

(* GamePlayer finds the row of the asking player: the request is answered. *)
Answers(asker) == read.at = "player" /\ asker \in pg.players

(* The request ends, with an answer or an error.                           *)
GamePlayer ==
  /\ read.at = "player"
  /\ read' = NoRead

Fetch == FetchPlayers \/ GamePlayer

ArchiveNext ==
  \/ /\ Next
     /\ wiped' = (wiped \/ (pg.game /\ ~pg'.game))
     /\ UNCHANGED read
  \/ Fetch /\ UNCHANGED <<vars, wiped>>

ArchiveSpec == ArchiveInit /\ [][ArchiveNext]_archiveVars

-----------------------------------------------------------------------------
(* The answer shows the word only when the game is over for everybody in   *)
(* it, as game/response.go:21 says.  FetchGame itself takes the time of    *)
(* creation for the time of the end (repository/postgres/game.go:182), so  *)
(* the word of a game that goes on is kept back only by the second query,  *)
(* which fails until every player has results.                             *)
WordShownAfterEnd ==
  \A asker \in Players :
    Answers(asker) => pg.ended /\ \A p \in DOMAIN read.rows : Ended(read.rows[p])

(* The three queries show one state of the game: the asking player is      *)
(* among the players, all of them have a rank, and the guesses of the last *)
(* query are those that the second one counted                             *)
(* (repository/postgres/game.go:256-282), whatever is finished again or    *)
(* wiped in between.                                                       *)
AnswerIsWhole ==
  \A asker \in Players :
    Answers(asker) =>
      /\ DOMAIN read.rows = pg.players /\ pg.players \subseteq pg.recorded
      /\ read.rows[asker] = pg.results[asker]

Sessions == UNION {[1..n -> {"hit", "miss"}] : n \in 0..MaxGuesses}

phase ==
  CASE wiped -> "deleted"
    [] ~wiped /\ ~pg.game -> "none"
    [] ~wiped /\ pg.game /\ pg.recorded # {} -> "recorded"
    [] ~wiped /\ pg.game /\ pg.recorded = {} -> IF pg.ended THEN "ended" ELSE "started"

Record == INSTANCE GameRecord
            WITH Over <- {s \in Sessions : Ended(s)},
                 rows <- pg.players,
                 results <- [p \in pg.recorded |-> pg.results[p]]

(* The rows of a game in postgres go through the phases of GameRecord: all *)
(* results come at once, for exactly the players of the start, and only    *)
(* after the end; a game begins at most once, and never after a wipe that  *)
(* has deleted its row, whatever start or finish is still under way        *)
(* (repository/postgres/game.go:29-167, game/room.go:334-363).  (A wipe    *)
(* that comes before the row lands deletes nothing, and the late row stays *)
(* as that of a game that has started.)                                    *)
ImplementsRecord == Record!Spec
=============================================================================
