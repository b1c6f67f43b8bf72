# TLA+ models of wordle-server

A verification development kept beside the Go sources of `wordle-server`: TLA+
modules translated from the code, TLC configurations that check them on small
instances, and theorems proved with TLAPS for every value of the constants.
Line numbers refer to the files of the repository (`game/game.go:149` etc.).
`PROJECT.json` lists the components, the runs, the mutants of each property,
the source lines of each definition, the findings and the hazards.

## 1. Inventory

A client logs in over HTTP, creates a room or asks for an invite to one, and
opens a websocket with the invite's token. From then on everything happens in
the room.

| part | state | operations | where |
|---|---|---|---|
| word | the status of each letter, time played | `Check`, `Correct`, `GreaterThan` | `game/word/word.go` |
| session | guesses, cached best guess | `play`, `Won`, `CanPlay`, `Ended`, `Resync` | `game/game.go:178-255` |
| leaderboard | `Ranks`, `Positions` | `NewRankBoard`, `FixPosition`, `Resync` | `game/game.go:28-78` |
| game | sessions, leaderboard, `StartedAt`, `EndedAt`, `finished` | `Join`, `Start`, `Play`, `Resync` | `game/game.go:80-176` |
| room | players' connections, `active`, `closed`, the channel `broadcast` | `run` and the handlers `start`, `message`, `play`, `join`, `leave`; `CanJoin`, `Close` | `game/room.go:86-416` |
| player connection | socket, `active` | `read`, `ping`, `write`, `close` | `game/room.go:425-516` |
| hub | map from game ID to room | `GetRoom`, `SetRoom`, `DeleteRoom`, collector `gc` | `service/hub_service.go` |
| service | none of its own | `NewRoom`, `GetRoom`, `StartGame`, `AddGuess`, `FinishGame`, `WipeGameData` | `service/service.go` |
| redis | the game without sessions, a list of guesses per player | `CreateGame`, `LoadGame`, `AddGuess`, `DeleteGame`, one hour's expiry | `repository/redis/game.go` |
| postgres | rows `game`, `game_player` | `StartGame`, `FinishGame`, `WipeGameData`, `FetchGame`, `GetGames` | `repository/postgres/game.go` |
| connections to postgres | pgxpool's connections, taken for a query or a transaction | every repository method | `repository/postgres/` |
| history | none: a game made again from rows | `FetchGame`, `setSessions`, `ToResponse` | `repository/postgres/game.go:169-287`, `game/response.go` |
| invites | token, player, game, creation time | `Store`, `Get`, `cleanup` | `service/random/random.go` |
| login | `session_ts` of a player, cookies | register, login, logout, middleware | `handler/`, `repository/postgres/player.go` |

**How they interact.** Each websocket has an HTTP handler that sends `PJoin`, a
reader and a ping goroutine. They all send to one unbuffered channel with
`tryBroadcast`, which gives up when the room's context is cancelled. The
goroutine `run` handles one message at a time, so game, sessions and
leaderboard have a single writer, except that the collector calls `Room.Close`
from its own goroutine without a lock, and that `CanJoin` reads them from the
HTTP handler. A handler of `run` calls postgres and redis synchronously, with
the room's context. A closed room calls `FinishGame` or `WipeGameData` with a
context of its own.

**Hard behaviours.** A join admitted before the start and handled after it; a
leave of a connection that is not the one in the room; the collector's `Close`
in the middle in the middle of a handler; senders blocked on a channel that becomes nil; a a
best guess and a leaderboard kept incrementally; an end of game decided by the
equality of two counts; two stores written one after the other, each of which
may fail; a crash, and a room made again from redis, between any two steps; a
mark that is fifteen minutes old when the sweep acts on it; a request that reads
one game in three queries; a transaction that needs a second connection of the
pool; cookies that are set and deleted by responses in any order, and checked
against a time in whole seconds.

**What makes each part correct.**

- *session and leaderboard*: the cached best guess is a guess that none beats,
  no guess after a win or beyond the limit, `Ranks` and `Positions` agree, the
  board is sorted, a guess moves only its player and only up;
- *game*: `finished` equals the number of ended sessions; the game ends at the
  guess of the last player and is never reopened, and once a room has stopped
  listening no message has an effect;
- *room*: its map holds open connections only, a replaced connection is closed,
  a closed one stays out, a vanished peer leaves, nobody waits forever;
- *hub and stores*: results are those of ended sessions, are not replaced, and
  are all there before a game is deleted as finished (unless its room was made
  from redis); the key of a game is sent to redis only while its row is in
  postgres; the hub locks nobody out of a game that goes on, and every room in
  it is taken out of it (one that another room's sweep takes out is not closed);
  the rows go through the phases of a record whose results are final until it is
  deleted;
- *history*: a reload and a fetch show the leaderboard that the game had, the
  word is shown only after the end, an answer shows one state of the game;
- *login and invites*: a session that was ended stays ended, and a request is
  let in only with the second of the last login or with the second before a
  login that logged out, both up to the grain of whole seconds. An invite is
  kept for an hour from when it was first made, which may end before the room
  does: nothing is claimed of it.

## 2. Modules

| module | models | built on |
|---|---|---|
| `Words` | a guess as its score (correct, exists) and its time; the order of guesses | |
| `WordCheck`, `MCWordCheck` | the two passes of `Check` over the letters of a guess, and its instance | |
| `WordCheckProofs` | theorems about `WordCheck` | `WordCheck` |
| `PlayerSession` | a session: guesses, best, `Won`, `CanPlay`, `Ended`, `play` | `Words` |
| `RankBoard` | the initial board and `FixPosition` | `PlayerSession` |
| `GameContract` | what a game promises: phase, players, who is done | |
| `Game` | the game as the handlers of one room drive it; implements `GameContract` | `RankBoard` |
| `History` | what a reload from redis and a fetch from postgres make of a game; the loop of `FixPosition` | `Game` |
| `MCGame` | instance of `Game`, with the properties of `History` | `History` |
| `RankBoardProofs`, `GameProofs` | lemmas on sessions and boards; theorems about `Game` | `Game` |
| `HistoryProofs` | theorems about a reload, a fetch and the loop of `FixPosition` | `History`, `GameProofs` |
| `Room` | connections, readers, pings, joins, leaves, broadcasts, `Close` | |
| `MCRoom`, `MCRoomPair` | two instances of `Room` | `Room` |
| `RoomProofs` | theorems about `Room` | `Room` |
| `Hub` | the life of one game across rooms, collector, redis, postgres, crashes | |
| `GameRecord` | what the permanent area promises of one game | |
| `Archive` | a fetch of the game beside its life in `Hub`; implements `GameRecord` | `Hub` |
| `MCHub`, `MCArchive` | instances of `Hub` and `Archive` | `Archive` |
| `HubProofs`, `ArchiveProofs` | theorems about `Hub`; with them those about `Archive` | `Hub`; `Archive` |
| `Login` | register, login, logout and the middleware for one account and its cookies | |
| `Access`, `MCAccess` | rooms and invites made by requests that were let in, the cleanup of invites, and the instance | `Login` |
| `AccessProofs` | theorems about `Access` and, with it, `Login` | `Access` |
| `Pool`, `MCPool` | the connections that `FinishGame` and other calls take, and the instance | |

Operators named after a mistake (`CountsWinnersOnly`, `KickNobody`, `StillThere`,
...) are mutants: each stands before the definition it replaces when a property
is tested for its power, and no specification uses it.

### WordCheck

State: the two words, `Stats`, the list that is being built, the dictionary of
the letters still to be found, the loop and its index. One action per letter of
each pass. `ChecksByTheRule` compares the result with the rule of the game
written with sets; `LettersAreAccountedFor` is the invariant of both loops. The
module stands alone: to a game the result is the score in `Words`.

### Game

State: `sessions` (its domain is `joined`), `ranks` and `positions` of the
board, `startedAt`, `endedAt`, `finished`, the room's `active` and `closed`,
`admitted` (players that `CanJoin` let in and whose `PJoin` is still to be
handled), `now` (the time of the next guess), and what a `Close` of the
collector finds half done: `starting`, `guessing`, `collector`.

- `Admit` is the check of `live`; `Join` is the handling of the `PJoin`, which
  looks at nothing but the player's session. So a join can be late, and a
  creator that is admitted may start before its own join.
- `Start` is the handler up to the call of the service, `Started` what follows
  its answer: an error leaves `startedAt` set and `active` unset, a success sets
  `active`, also in a room that was closed meanwhile. Anybody's order on the
  initial board is possible, for the code ranges over a map and sorts by a
  relation that leaves sessions without guesses incomparable.
- `Play` is `Room.play` for a valid word: checks, `Game.Play` with its
  `FixPosition`, and `Close` when that ended the game, all in one handler.
- `Close` is the collector's, up to `cancelCtx`. It takes no lock, so it may
  come when a guess has passed the checks of `play` (`guessing`): that guess is
  still counted, and may set `EndedAt`. `GoDeaf` sets the channel to nil; in
  between, `run` may still pick messages.

The contract says the same from outside: a game that is being played is finished
by the player that gets done last, at that step, and is silent from then on; an
abandoned one may be heard a little longer and even finish, until `Silence`.

A guess is a score and a time, since nothing else of it is compared; the
letters behind a score are `Check`'s business. Guesses of one game are made by
one goroutine with `time.Now`, taken to be strictly increasing. The loop of
`FixPosition` is a closed form: the session lands at the first index `j` above
which it is not better, everybody in between moves down by one. A player that
is not on the board has index 0, as for a missing key of a Go map. The handlers
run one after another in `run`, and nobody but `run` writes sessions and board,
so between the places named above nothing can come that they would notice.
While the collector closes a room, a start may mix the board of its game once
more, and a guess after it may be the last: `BoardSortedByScore`, the end of
`EndsWithLastPlayer` and the comparisons of `History` speak of rooms that it has
left alone.

### Room

State per connection: `stage` of its HTTP handler, `open` (`PlayerConn.active`),
`gone` (the peer has vanished), what `reader` and `ping` do or wait to send. Of
the room: `players`, `sessions`, `active`, `closed`, how far `Close` has come
(`closing`, `walk`), whether `run` still receives, and the message in its hand
when the collector closes. The unbuffered channel is the set of blocked
senders. One action per message type; `sendAll` marks the connections whose
write fails and takes them out as `leave` does, the nested broadcasts included.
A write to a vanished peer may fail or still succeed; a write to a closed one
fails. `Close` by the collector is split at each entry of the map, because a
handler may run beside it.

### Hub

One game ID. State: `hub` (the map's entry), `room` (what of each room matters
here), `pc` of each `run` goroutine and of the collector, `garbage` (the marked
room), `load` (each `GetRoom` in flight), `redis`, `pg`, `age`, `crashes`.
A handler is split at each database call. The writes that `run` makes with the
context of its room are two steps: sent (`StartPg`, `StartRedis`, `AddGuess`),
which fails when the context is cancelled, and landing or not (`Commit`,
`SetKey`, `Push`), maybe after a `Close` has cancelled and wiped. Every call may
take effect and still be reported as failed, since the answer may be lost.
`Check` and `Play` are the two sides of the checks of a guess. `Room.Close` is split into reading
the flag, setting it, deciding what to do and each call, since the collector
and `run` may both be in it. A tick that marks nothing, and its sweep, do
nothing and are left out. `age` has the two thresholds of the collector; time
may pass between any two steps. A session is the list of its guesses, "hit" or
"miss". `Crash` loses the memory and keeps both stores. A reloaded room has what
the code gives it: the players of the start, the guesses redis took, a counter
of winners, no player IDs, no end.

Narrowed: redis commands of one operation are one step (`Exists` and the
pipeline of `AddGuess`; reading the hub's map, `Exists` and `getGame` of a
load; `Get` and `Del` of `DeleteGame`), and lists of guesses disappear together
with the game's key, without which nobody reads them. A handler waits until its
write has landed or is lost: pgx gives up on a cancelled `COMMIT` earlier, but
what the handler then does, in a closed room, writes nothing. A write in flight
at a crash has landed before the next server is up, or is lost. Retries inside
the redis client are left out. The leaderboard hash in redis is never read.

### History

No state of its own: operators over the state of `Game`. `Resynced` plays the
guesses of a session again; `SortedBoards` is the set of boards that
`RankBoard.Resync` may leave: nobody with some letter right stands right below
somebody it beats. Sessions without a correct letter are not ordered among
themselves (one without a guess equals all the others) and may stand in another
order after a reload, so the properties compare the players with some letter
right. `Reloaded` is a reload
at a moment when redis has every guess (`Hub` has the others) and the collector
has not begun to close the room, `Rows` what
`FinishGame` writes, `Responses` what `GET /room/{id}` answers. Postgres keeps
times in microseconds; two guesses of a game have a call to redis between them,
so their order stays. A late joiner has no row and cannot ask.

### Archive and GameRecord

`Archive` adds to `Hub` one request at a time that reads the game. Its first query
reads what never changes while the row is there, so it is merged with the
second; a request whose game is wiped between the two finds no rows and fails at
the third, since a wiped game does not come back (`ImplementsRecord`).
Between the second query and the third, anything may happen. The second query
fails while a player has no results, since it scans the length of a NULL list
into an `int32`: `FetchGame` therefore answers only for recorded games, although
it takes the creation time for the end time (`repository/postgres/game.go:182`).
For the same reason a game that ended after a reload, whose sessions have no
IDs, can never be fetched. `GameRecord` is the abstract specification: none,
started, ended, recorded, deleted; all results at once, and none after the
deletion. `phase` and the rows are the refinement mapping. A wipe deletes a
record only when the row is there: one that comes before the row has landed
deletes nothing, and the late row stays as that of a game that was started. A
game may begin without players, when the creator starts before its own join.

### Login and Access

One account. `session` is the row's `session_ts`, a token is the second of its
login, `jar` the two cookies of a browser, `call` each request: where it stands,
the cookies it came with, the player it works with. `Login` and `Register` take the
time, `UpdatePlayerSession` and `CreatePlayer` write it, `Entered` is the response;
`Send`, `LetIn`, `Refuse` and `Refused` are the middleware, `Served` any handler
that only reads. Each response may be lost. A cookie is deleted by a header
without the path and domain it was set with, so a browser may keep it: both are
allowed. Cookies expire at any moment, since an hour and a year are beyond all
the seconds counted here. `stored`, `again`, `latest` and `left` only observe:
the seconds that logins have stored, twice, last, and those that a logout ended.

`Access` lets requests make a room and ask for invites. `Store` keeps the first
creation time of an invite, `Cleanup` may run at any moment and deletes those
older than `Life`. `Life` is one hour in the code; here it is one unit of the
same clock, because nothing compares the two but with themselves. Whether
`GetRoom` still finds the room is left open. `Crash` loses requests and invites.

### Pool

Each call is at a place where it holds none, one or two connections. `FinishGame`
holds one from `Begin` and asks for a second one at `r.q.FinishGame`. Starts,
wipes and single queries need one and are the `Queries`.

## 3. Runs

| run | question | instance | result |
|---|---|---|---|
| `words` | does `Check` follow the rule of the game, however letters repeat? | words of 1 to 4 letters over 3 letters, every pair | holds, 17 thousand states |
| `game` | do counter, board, sessions stay consistent, is the contract kept, and do a reload and a fetch show the same board? | 3 players, 2 guesses, words of 2 letters, scores (correct, exists) = (0,0), (0,1), (2,0) | holds, 1.2 million states |
| `game_late_join` | is `Join` only before the start (`game/game.go:103`)? | same | violated |
| `room` | what is in the map of players? | 3 connections, 2 of one player, 2 peers may vanish | holds, 3.0 million states |
| `room_live` | does everybody get out? | 2 connections of one player, fair | holds, 94 thousand states |
| `room_leave` | does a leave take out only its own connection (`game/room.go:307`)? | same as `room_live` | violated |
| `hub` | what may the stores and the map hold, what may a fetch show, and do the rows implement `GameRecord`? | 2 players, 1 guess, 2 rooms, 1 load in flight, 1 crash, 1 fetch in flight | holds, 3.9 million states |
| `hub_live` | are rooms collected and do their goroutines end? | 1 player, else as `hub`, fair | holds, 320 thousand states |
| `hub_read_only` | are recorded results read-only (`README.md:32`)? | as `hub`, without the fetch | violated |
| `hub_never_ends` | does the last guess end the game (`game/game.go:132`)? | as `hub`, without the fetch | violated |
| `access` | do ended sessions stay ended, and who is let in? | 1 browser, 2 requests in flight (1 once there is a game), 3 seconds, invites of 1 unit, 1 crash | holds, 1.6 million states |
| `pool` | does the write at the end of a game come to an end (`README.md:39`)? | 4 games, 1 other call, 4 connections, fair | violated |

**Bounds.** Four letters over three hold every way in which a letter of the guess
can be repeated while the answer has it more often, as often, less often or not
at all, in place and out of place. Three players are what it takes for a guess to
pass one player and stop at another, and for a late joiner to meet a board of two. Two guesses give
a session that improves, one that does not, one that fails and one that wins
early; the three scores are nothing, something and the word, and equal scores are
ordered by time. Players other than
the creator are interchangeable. Two connections of one player and one of
another are what replacing, leaving and broadcasting need; two vanished peers
let a broadcast fail at two connections at once. In `Hub` one guess per player
is enough for every outcome of a session; a second room is the first one that
is made from redis, and one crash is a crash at every point. A third room would
repeat the second, so a `GetRoom` is not followed when no room is left to be made
(`RoomsLeft`). While the collector is closing a room, `game` follows rooms of at
most two players (`ClosingBound`): a guess under way, a start and a join need no
third one. Two loads at the same time are beyond a run (section 5); the
theorems about `Hub` are for any number of loads. In `Access` three seconds are
what two adjacent logins and two that are not take; a response that is lost
leaves the one browser with the cookies another browser would have; two requests
can overtake each other at every step until a game is made, and what follows
concerns one request at a time (`OneWithGame`). Four is pgxpool's default; with
one connection more than games the same instance has no counterexample.

**Deadlock.** A closed room, and a game nobody returns to, stop for good: the
configurations say `CHECK_DEADLOCK FALSE`; that nobody is stuck on the way is
stated as liveness.

**Fairness.** Weak fairness of each goroutine that is not waiting for a client:
`run`, each blocked sender on its own, the collector's `Close`, readers and
pings of a connection that has failed. A sender in a Go `select` whose context
is done is always ready, so weak fairness is what the runtime gives. Database
calls return: that holds as long as the pool has a free connection, which is the
question of `pool`; there whoever waits for a connection gets one that is free
again and again (strong fairness: the pool serves its waiters in order). The ticker ticks and time
passes. Nothing is assumed of clients: nobody has to connect, guess or leave,
and the collector never has to be early.

**Findings.**

1. *Late join.* A player admitted before the start and handled after it gets a
   session after it, but no place on the leaderboard and no row in postgres.
2. *Leave by name.* A connection whose reader fails before its `PJoin` is
   handled takes the player's other connection out of the room. That one stays
   open and hears nothing.
3. *Results wiped.* `FinishGame` removes the room from the hub before the key
   from redis. A `GetRoom` in between makes a room that does not know the end,
   and an hour later the collector wipes the recorded results. A crash or a
   failed deletion at that point does the same.
4. *Never-ending game.* `Resync` counts winners only, so a reload that finds a
   player out of guesses leaves a game that no guess can end. It is wiped as
   abandoned.
5. *Empty pool.* `FinishGame` holds a connection while it waits for another one,
   without a deadline. When as many games end together as there are connections,
   none of these calls returns, their results are not written and no other
   query gets through.

Seen in the models without a run of their own. In `Hub`:

- *Lost results.* Sessions of a reloaded room have no player IDs
  (`repository/redis/game.go:150`), so its `FinishGame` changes no row of a
  player, succeeds and deletes the key: the results of a game that survived a
  restart are lost, though `README.md:31` says that the final results are stored
  at the end, and no fetch can show the game. This is why `FinishedIsRecorded`
  speaks of the first room only, and part of why `ResultsNotReplaced` holds.
- A failed start leaves `StartedAt` set, and a retry fails on the duplicate key
  when it was redis that failed, or when the answer of postgres was lost.
- A row or a key that was on its way when `Close` cancelled and wiped lands
  afterwards: a row that nobody deletes, or a key without a row, whose game can
  be loaded and played and has nowhere to put its results.
- A guess under way when the collector closes a room may be the last: whether
  that game is recorded or wiped depends on whether `Close` has looked yet.
- An empty room that is marked and then joined is swept together with its
  players. A sweep deletes the map's entry by ID: when the marked room was gone
  already, another room is taken out of the map and never closed.
- A game that one room has ended is listed with its word while another room,
  made from redis, still plays it.

In `Login`: sessions are told apart by whole seconds, so a logout makes the
login of one second before current again, and lets its cookies in, which a later
login had reset; two logins of one second share a session (the exceptions in
`EndedSessionStaysEnded` and `EntersBySession`); a logout that was let in before
a newer login ends the newer session; a late refresh mixes cookies of two
sessions, and the middleware refuses them until the access cookie expires. In
`Access`: the invites of a room are deleted an hour after they were first made,
but the room stays until the collector has ticked twice, and its game can be
loaded from redis for an hour from its start.

## 4. Theorems

Every safety invariant, every action property and both refinements that a
passing run checks on an instance is also proved for every value of the
constants. The assumptions are those declared with the constants: finitely many
players, positive lengths and limits, special values that are not members of
the sets they are added to, each connection owned by a player. Each proof module
has one inductive invariant (`IInv`, or a conjunction that contains it), a lemma
for each action, and the theorems, which follow from the invariant. The
invariants were model-checked before they were proved.

### GameProofs and RankBoardProofs

| theorem | states |
|---|---|
| `TypeCorrect` | `Spec => []TypeOK` |
| `FinishedCountCorrect` | `Spec => []FinishedCount` |
| `EndCorrect` | `Spec => []EndsWithLastPlayer` |
| `BoardCorrect` | `Spec => []BoardConsistent` |
| `BoardSortedCorrect` | `Spec => []BoardSortedByScore` |
| `BestCorrect` | `Spec => []BestIsBest` |
| `SessionStopsCorrect` | `Spec => []SessionStops` |
| `GuessesKeptCorrect` | `Spec => GuessesAreKept` |
| `ClimbsCorrect` | `Spec => OnlyTheGuesserClimbs` |
| `Refinement` | `Spec => ImplementsContract` |

The inductive invariant is the conjunction of the safety invariants with what
they need of each other:

- a closed room is not active, so no `Play` follows the end;
- whoever is on the board has a session, so that a step of `FixPosition`
  compares sessions that exist, while a late joiner may have one off the board;
- in an open room that is not active nobody has a guess, so the board of a
  start, in any order, is sorted (`NoGuessBeforeStart`);
- a room that is closed while its game goes on was closed by the collector
  (`CloseHasReason`); a guess that has passed the checks is that of a session
  which may still play (`GuessIsAllowed`), so it is counted once, whatever the
  flags are by then; the game is not active while a start waits (`StartWaits`).

The counter is tied to the sessions by cardinalities, which is why `Players`
has to be finite. `RankBoardProofs` has the lemmas: the order of guesses is
asymmetric, and a session with some letter right below one it does not beat
stays so down a chain; `MovedUpPositions` says where each player stands after a
`FixPosition`, `MovedUpConsistent` and `MovedUpSorted` that it keeps a
consistent and a sorted board. Sortedness needs the restriction to sessions
with some letter right: sessions that never scored are not ordered among
themselves by the code.

### HistoryProofs

| theorem | states |
|---|---|
| `HistoryInductive` | `Spec => []HistoryInv` |
| `ReloadCorrect` | `Spec => []ReloadKeepsBoard` |
| `FetchCorrect` | `Spec => []FetchShowsResults` |
| `LoopCorrect` | `Spec => PlayRunsTheLoop` |

These are about recursive functions: `Resynced` plays the guesses of a session
one after another, `Loop` counts the swaps of `FixPosition`. Induction over numbers is derived from
the well-foundedness of `<` (`NatMin`, `Induction`); a recursive function is
shown to exist by a witness (`WalkExists`, `LoopLands`) and to be unique by
induction (`WalksAgree`). That gives `ResyncedAppend`: playing one more guess is
what `Resynced` does with it.

- *Sessions.* `Unfolds` (playing the guesses again gives the session) is
  inductive by `ResyncedAppend`.
- *Boards.* Two sorted boards need not be equal. On each, nobody that scored
  stands right below somebody it beats; `AdjacentSorted` makes this "anywhere
  below", so the rank of a player is the number of players that
  beat it (`RankIsBeaters`), the same on both (`SameRank`). It takes `BestApart`:
  no two best guesses have one time, since otherwise neither would beat the other.
- *Loop.* The first place where nobody above is beaten is where the swaps stop:
  `RoundSwaps` above it, `RoundStays` at it, `LoopLands` by induction.

### WordCheckProofs

| theorem | states |
|---|---|
| `WordTypeCorrect` | `Spec => []TypeOK` |
| `LettersCorrect` | `Spec => []LettersAreAccountedFor` |
| `CheckCorrect` | `Spec => []ChecksByTheRule` |

Words of any length over any alphabet. The invariant says how far each loop has
come: the first pass has marked the letters in place before `i`, the second has
followed the rule before `i`. `LeftInSecond` is what makes the second pass
right: the dictionary has of each letter the places of the answer where it was
missed, minus the misplaced ones already passed, and never less than zero. The
letters are counted as finite sets of places, not along the sequence.

### RoomProofs

| theorem | states |
|---|---|
| `RoomTypeCorrect` | `Spec => []TypeOK` |
| `RoomHoldsCorrect` | `Spec => []RoomHoldsOpenConns` |
| `SingleConnCorrect` | `Spec => []SingleConnStaysIn` |
| `ReplacedCorrect` | `Spec => ReplacedIsClosed` |
| `ClosedStaysOutCorrect` | `Spec => ClosedConnStaysOut` |

Any connections and owners. Each action is shown to be `Orderly`: nobody opens
again, an entry of the map is taken out or given to a connection that joins and
closes the one before, an entry that stays is open, and who is taken out is
closed or has another connection. `SendAllEffect` says that a broadcast, with
the leaves nested in it, closes and takes out the same set of connections. The
invariant adds only that goroutines belong to connections that were made, since
a leave is sent by one of them. The exception "has another connection" is
finding 2, and is why `SingleConnStaysIn` speaks of players with one.

### HubProofs and ArchiveProofs

| theorem | states |
|---|---|
| `HubTypeCorrect` | `Spec => []TypeOK` |
| `HubRoomCorrect` | `Spec => []HubRoomOpenOrEnded` |
| `RecordedCorrect` | `Spec => []RecordedIsOver` |
| `StoredCorrect` | `Spec => KeyFollowsRow` |
| `ResultsCorrect` | `Spec => ResultsNotReplaced` |
| `FinishedCorrect` | `Spec => []FinishedIsRecorded` |
| `WordCorrect` | `ArchiveSpec => []WordShownAfterEnd` |
| `AnswerCorrect` | `ArchiveSpec => []AnswerIsWhole` |
| `RecordRefinement` | `ArchiveSpec => ImplementsRecord` |

Any number of rooms, of loads at the same time, of guesses and of crashes. The argument:

- Only the first room knows the players' IDs, so only its `FinishGame` changes
  rows of results (`Origin`); a room made from redis writes none. Therefore the
  rows are compared with the first room alone (`RowsInv`), and results are
  replaced, if at all, by the same ones.
- The first room has counted every ended session (`Counts`), so its end means
  that all players of the row are done. A reloaded one may count too few, which
  is finding 4; it never counts too many.
- A row can still come (`RowToCome`) only while the first room is open and has no
  row, or is waiting for its `COMMIT`: then nothing is in redis and no other room
  was made (`FreshAlone`). An open first room has the map for itself or is being
  swept (`FirstMapped`), so a room that is wiped before that is not another one
  (`WiperHasClosed`). Once gone, this chance does not come back
  (`ToComeBefore` in `ArchiveProofs`).
- Between the two writes of a start the collector may wipe the row, but then it
  has closed the room, whose context the second write is sent with (`StartRow`).
- Only the first room waits for a row or a key, and whoever waits knows what it
  does (`RunStands`): the game of a room that waits for its row has not ended.
- The collector takes a room out of the map before it closes it
  (`CollectorInv`), and whoever is past the decision in `Close` works on a closed
  room (`ClosingInv`).

For `Archive` every step of `Hub` is one of five moves of the rows: rest, begin,
end, record, delete (`NextMovesRows`). From them follows `FinishedIsRecorded`:
whoever deletes the first room's game has come from a transaction that took
effect (`DropBegins`), and no row can come after that (`DropGoesOn`). The
invariant of `Archive` adds that after a wipe which deleted a row no row can
come (`WipedForGood`), that results come all at once, and that the rows a fetch
holds are those of the game or the game was wiped (`ReadWhole`), in which case
the last query fails. The moves are then the actions of `GameRecord`, one by one
(`StepOfRecord`).

### AccessProofs

| theorem | states |
|---|---|
| `AccessTypeCorrect` | `AccessSpec => []TypeOK` |
| `SessionCorrect` | `AccessSpec => EndedSessionStaysEnded` |
| `EntersCorrect` | `AccessSpec => EntersBySession` |

Any number of browsers, requests and crashes, any length of time and any life
of an invite. The inductive invariant says where a token may come from: whatever
a cookie, a request or a response holds is no token or the second of a login
that was stored (`JarMinted`, `CallMinted`), and a stored second is not ahead of
the clock; and where the session may come from: it is the second stored last, or
the second before one that a logout has ended (`SessionSource`). A token that
equals the session is therefore entitled (`LetInInv`), and a logout writes back
from a stored second (`LogoutInv`), which is the exception in
`EndedSessionStaysEnded`. For the invites it adds that an invite has a game.

### Model-checked only

Everything under fairness, since liveness and `ENABLED` are beyond the prover:
`GoneLeavesRoom`, `ClosedReaderEnds` and `JoinSettles` of the run `room_live`,
`RoomsAreCollected` and `SweptRoomsEnd` of `hub_live`. The violations are
counterexamples, which an instance settles. Of `sort.Slice` the theorems use
only what `SortedBoards` says: it leaves nobody that scored right below somebody
it beats. That Go's sort does so is taken from its contract, since sessions that
scored are totally ordered and beat all the others; it is not proved.

## 5. Plan

Modelled since the first plan: the loop of `FixPosition`, the history, the
record in postgres, invites, login, the pool; the safety of each component is
proved. What is left:

1. `Hub` with two loads at the same time (`service/service.go:59`): the room
   that is overwritten in the map and that nobody collects. Its safety is
   within the theorems; the liveness question needs an instance beyond what a
   run can hold today.
2. The safety that the liveness of `room_live` rests on (who waits can still
   be heard, or the room is closed) as invariants of their own, with proofs.
3. Runs of their own for what section 3 lists without one: the results lost
   after a reload, the room that another one's sweep takes out of the map, the
   row or key that lands after a wipe, and the invites that end before the room.
4. Mutual exclusion of the writers of `Hub`: which threads may be in `Close` of
   one room at a time, and what a second one finds.

## 6. Not modelled

The wiring in `cmd`, configuration, mocks; password hashing and token
cryptography (libraries without state of their own); the word list; JSON and
HTTP layout, `GetGames` and `ToInitialData` (one read without a decision).
Undefined outcomes of the data races on `Room.players` (the runtime may abort
the program) are not represented; the orders in which both sides get through
are. Writes to a websocket return in the model; without a deadline they need not.
