-------------------------------- MODULE Hub --------------------------------
(***************************************************************************)
(* The life of one game across its rooms and its two stores: the hub       *)
(* (service/hub_service.go) maps the game's ID to a room and its collector *)
(* marks and sweeps old rooms; service/service.go keeps the running game   *)
(* in redis and its results in postgres, and makes a new room from redis   *)
(* when the hub has none; Room.Close records or wipes the game.            *)
(*                                                                         *)
(* Each database call is a step of its own and may fail, with or without   *)
(* its effect: the answer may be lost.  The calls that a handler makes     *)
(* with the context of its room are two steps: the write is sent, and it   *)
(* lands or not, maybe after Close has cancelled the context and has made  *)
(* its own calls.  (pgx does not wait for a cancelled COMMIT: what the     *)
(* handler does meanwhile in a closed room writes nothing.)  The server    *)
(* may crash between any two steps; a write that was sent has landed       *)
(* before the next server is up, or is lost.                               *)
(*                                                                         *)
(* A guess is "hit" or "miss": scores and the leaderboard are the business *)
(* of Game.tla, connections of Room.tla.                                   *)
(***************************************************************************)
EXTENDS Naturals, Sequences, FiniteSets

CONSTANTS Players,     \* usernames
          Rooms,       \* bound: the rooms that are made for the game
          First,       \* the room that Service.NewRoom makes
          Loaders,     \* bound: concurrent calls of Service.GetRoom
          Collector,   \* the goroutine of localStorage.gc
          NoRoom,      \* no entry in the map
          Nobody,      \* no player
          MaxGuesses,  \* session limit
          MaxCrashes   \* bound: crashes of the server

ASSUME RoomsAssumption == First \in Rooms /\ NoRoom \notin Rooms /\ Collector \notin Rooms
ASSUME NobodyAssumption == Nobody \notin Players
ASSUME PlayersAssumption == IsFiniteSet(Players)
ASSUME LimitsAssumption == MaxGuesses \in Nat \ {0} /\ MaxCrashes \in Nat

VARIABLES
  hub,      \* localStorage.rooms at the game's ID
  room,     \* the rooms
  pc,       \* where the run goroutine of a room, and the collector, stand
  garbage,  \* the room that the collector has marked and not yet closed
  load,     \* where each GetRoom stands
  redis,    \* the temporary area: the game's key and the lists of guesses
  pg,       \* the permanent area: the rows of game and game_player
  age,      \* time since CreatedAt: 1 from EmptyRoomDuration, 2 from RoomDuration
  crashes

vars == <<hub, room, pc, garbage, load, redis, pg, age, crashes>>

Threads == Rooms \cup {Collector}

Target(t) == IF t \in Rooms THEN t ELSE garbage

-----------------------------------------------------------------------------
(* Sessions, as lists of guesses.                                          *)

(* The best guess is correct.                                              *)
Won(s) == \E k \in DOMAIN s : s[k] = "hit"

Ended(s) == Len(s) = MaxGuesses \/ Won(s)

(* The tests of play before a guess counts: a list that two rooms have     *)
(* written may be longer than a session.                                   *)
CanPlay(s) == ~Won(s) /\ Len(s) < MaxGuesses

NoGuesses == [p \in Players |-> <<>>]

(* Mutant: counts the players that have guessed instead of all.            *)
AllGuessed(rm) == rm.finished = Cardinality({p \in rm.joined : rm.guesses[p] # <<>>})

(* The test of Play for the end of the game.                               *)
AllFinished(rm) == rm.finished = Cardinality(rm.joined)

(* Mutant: Resync runs twice on a loaded game.                             *)
RecountedTwice(players, guesses) == 2 * Cardinality({p \in players : Won(guesses[p])})

(* Resync counts the sessions that are won.                                *)
Recounted(players, guesses) == Cardinality({p \in players : Won(guesses[p])})

-----------------------------------------------------------------------------
(* Rooms.  "life" is that of the run goroutine, "deaf" a nil channel,      *)
(* "known" sessions that hold the players' IDs, "joined" the domain of     *)
(* Game.Sessions, "adding" the player whose play run is handling.          *)

NewRoom == [life |-> "open", known |-> TRUE, started |-> FALSE, active |-> FALSE,
            closed |-> FALSE, deaf |-> FALSE, ended |-> FALSE,
            finished |-> 0, joined |-> {}, guesses |-> NoGuesses, adding |-> Nobody]

Unmade == [NewRoom EXCEPT !.life = "unmade"]

(* What a crash leaves of a room.                                          *)
Lost == [NewRoom EXCEPT !.life = "over"]

(* Mutant: the IDs are restored.                                           *)
LoadedWithIDs(players, lists) ==
  [NewRoom EXCEPT !.started = TRUE, !.active = TRUE, !.joined = players,
                  !.guesses = [p \in Players |-> IF p \in players THEN lists[p] ELSE <<>>],
                  !.finished = Recounted(players, lists)]

(* A room made from redis: the game was saved after Start and before its   *)
(* end, and getSessions fills in the usernames only.                       *)
Loaded(players, lists) == [LoadedWithIDs(players, lists) EXCEPT !.known = FALSE]

(* Mutant: the context is not cancelled.                                   *)
DeactivatedOnly(rm) == [rm EXCEPT !.active = FALSE]

Deactivated(rm) == [rm EXCEPT !.closed = TRUE, !.active = FALSE]

(* Mutant: calls are made with a context of their own.                     *)
AnyContext(r) == TRUE

(* Calls that run makes with the room's context fail once it is cancelled. *)
Uncancelled(r) == ~room[r].closed

Listening(r) == room[r].life = "open" /\ pc[r] = "idle" /\ ~room[r].deaf

-----------------------------------------------------------------------------
(* The stores.                                                             *)

(* The key of the game and, with it, all that can be reached are gone.     *)
Emptied == [game |-> FALSE, players |-> {}, lists |-> NoGuesses]

NoRows == [game |-> FALSE, ended |-> FALSE, players |-> {}, recorded |-> {}, results |-> NoGuesses]

Init ==
  /\ hub = First
  /\ room = [r \in Rooms |-> IF r = First THEN NewRoom ELSE Unmade]
  /\ pc = [t \in Threads |-> "idle"]
  /\ garbage = NoRoom
  /\ load = [l \in Loaders |-> [at |-> "idle", players |-> {}]]
  /\ redis = Emptied
  /\ pg = NoRows
  /\ age = 0 /\ crashes = 0

-----------------------------------------------------------------------------
(* Messages that the run goroutine of a room handles.                      *)

(* Players let in by CanJoin before the start may be handled after it; a   *)
(* room made from redis is active and lets in the players it has.          *)
Join(r, p) ==
  /\ Listening(r) /\ room[r].known
  /\ p \notin room[r].joined
  /\ room' = [room EXCEPT ![r].joined = @ \cup {p}]
  /\ UNCHANGED <<hub, pc, garbage, load, redis, pg, age, crashes>>

(* start, by the creator, whose own join may be handled later: StartedAt   *)
(* is set before the game is stored.                                       *)
Start(r) ==
  /\ Listening(r) /\ ~room[r].active
  /\ room' = [room EXCEPT ![r].started = TRUE]
  /\ pc' = [pc EXCEPT ![r] = "start_pg"]
  /\ UNCHANGED <<hub, garbage, load, redis, pg, age, crashes>>

(* The transaction of postgres StartGame, up to the COMMIT that is sent:   *)
(* the insert fails on a game that has a row.                              *)
StartPg(r) ==
  /\ pc[r] = "start_pg"
  /\ \/ /\ Uncancelled(r) /\ ~pg.game
        /\ pc' = [pc EXCEPT ![r] = "start_commit"]
     \/ pc' = [pc EXCEPT ![r] = "idle"]
  /\ UNCHANGED <<hub, room, garbage, load, redis, pg, age, crashes>>

(* Mutant: the error of postgres is logged and the start goes on.          *)
ErrorLogged(r) == "start_redis"

(* Service.StartGame returns the error.                                    *)
RowFailed(r) == "idle"

(* The rows are there, and the handler hears of it or not.                 *)
Commit(r) ==
  /\ pc[r] = "start_commit"
  /\ \/ /\ pg' = [NoRows EXCEPT !.game = TRUE, !.players = room[r].joined]
        /\ pc' \in {[pc EXCEPT ![r] = at] : at \in {"start_redis", RowFailed(r)}}
     \/ /\ pc' = [pc EXCEPT ![r] = RowFailed(r)]
        /\ UNCHANGED pg
  /\ UNCHANGED <<hub, room, garbage, load, redis, age, crashes>>

(* redis CreateGame, up to the SETEX that is sent.                         *)
StartRedis(r) ==
  /\ pc[r] = "start_redis"
  /\ \/ /\ Uncancelled(r) /\ ~redis.game
        /\ pc' = [pc EXCEPT ![r] = "start_set"]
     \/ pc' = [pc EXCEPT ![r] = "idle"]
  /\ UNCHANGED <<hub, room, garbage, load, redis, pg, age, crashes>>

(* The key lands; when the handler hears of it, it activates the room, a   *)
(* closed one included.                                                    *)
SetKey(r) ==
  /\ pc[r] = "start_set"
  /\ \/ /\ redis' = [redis EXCEPT !.game = TRUE, !.players = room[r].joined]
        /\ room' \in {room, [room EXCEPT ![r].active = TRUE]}
     \/ UNCHANGED <<redis, room>>
  /\ pc' = [pc EXCEPT ![r] = "idle"]
  /\ UNCHANGED <<hub, garbage, load, pg, age, crashes>>

(* play, up to Game.Play: what it has tested may change before it plays,   *)
(* since Close takes no lock.                                              *)
Check(r, p) ==
  /\ Listening(r) /\ room[r].active
  /\ p \in room[r].joined /\ CanPlay(room[r].guesses[p])
  /\ room' = [room EXCEPT ![r].adding = p]
  /\ pc' = [pc EXCEPT ![r] = "play"]
  /\ UNCHANGED <<hub, garbage, load, redis, pg, age, crashes>>

(* Game.Play.                                                              *)
Play(r, guess) ==
  /\ pc[r] = "play"
  /\ LET p == room[r].adding
         done == Ended(Append(room[r].guesses[p], guess))
         played == [room[r] EXCEPT !.guesses[p] = Append(@, guess),
                                   !.finished = IF done THEN @ + 1 ELSE @]
     IN room' = [room EXCEPT ![r] = [played EXCEPT !.ended = @ \/ (done /\ AllFinished(played))]]
  /\ pc' = [pc EXCEPT ![r] = "add_guess"]
  /\ UNCHANGED <<hub, garbage, load, redis, pg, age, crashes>>

(* A guess that is stored or not: the failure is logged and the game goes  *)
(* on.                                                                     *)
Stored(r) ==
  /\ room' = [room EXCEPT ![r].adding = Nobody]
  /\ pc' = [pc EXCEPT ![r] = IF room[r].ended THEN "close" ELSE "idle"]

(* redis AddGuess, up to the RPUSH that is sent.                           *)
AddGuess(r) ==
  /\ pc[r] = "add_guess"
  /\ \/ /\ Uncancelled(r) /\ redis.game
        /\ pc' = [pc EXCEPT ![r] = "add_push"]
        /\ UNCHANGED room
     \/ Stored(r)
  /\ UNCHANGED <<hub, garbage, load, redis, pg, age, crashes>>

(* A list without the game's key is read by nobody.                        *)
Push(r) ==
  /\ pc[r] = "add_push"
  /\ LET p == room[r].adding
         guess == room[r].guesses[p][Len(room[r].guesses[p])]
     IN redis' \in {redis, IF redis.game THEN [redis EXCEPT !.lists[p] = Append(@, guess)] ELSE redis}
  /\ Stored(r)
  /\ UNCHANGED <<hub, garbage, load, pg, age, crashes>>

(* run finds the context cancelled.                                        *)
RunReturns(r) ==
  /\ room[r].life = "open" /\ pc[r] = "idle" /\ room[r].closed
  /\ room' = [room EXCEPT ![r].life = "over"]
  /\ UNCHANGED <<hub, pc, garbage, load, redis, pg, age, crashes>>

-----------------------------------------------------------------------------
(* Room.Close, by the run goroutine of the room or by the collector; the   *)
(* flag is read and written without a lock.                                *)

Go(t, at) ==
  /\ pc' = [pc EXCEPT ![t] = at]
  /\ garbage' = IF t = Collector /\ at = "idle" THEN NoRoom ELSE garbage

CloseCheck(t) ==
  /\ pc[t] = "close"
  /\ Go(t, IF room[Target(t)].closed THEN "idle" ELSE "flags")
  /\ UNCHANGED <<hub, room, load, redis, pg, age, crashes>>

CloseFlags(t) ==
  /\ pc[t] = "flags"
  /\ room' = [room EXCEPT ![Target(t)] = Deactivated(@)]
  /\ Go(t, "decide")
  /\ UNCHANGED <<hub, load, redis, pg, age, crashes>>

(* The connections are closed, the channel becomes nil; a game that was    *)
(* started is recorded if it has ended and wiped if it has not.            *)
CloseDecide(t) ==
  /\ pc[t] = "decide"
  /\ LET rm == room[Target(t)]
     IN Go(t, CASE ~rm.started -> "idle"
                [] rm.started /\ rm.ended -> "finish_row"
                [] rm.started /\ ~rm.ended -> "wipe")
  /\ room' = [room EXCEPT ![Target(t)].deaf = TRUE]
  /\ UNCHANGED <<hub, load, redis, pg, age, crashes>>

(* postgres FinishGame reads the game in its transaction and writes        *)
(* ended_at outside of it.                                                 *)
FinishRow(t) ==
  /\ pc[t] = "finish_row"
  /\ \/ /\ pg.game
        /\ pg' = [pg EXCEPT !.ended = TRUE]
        /\ Go(t, "finish_tx") \/ Go(t, "idle")
     \/ /\ Go(t, "idle")
        /\ UNCHANGED pg
  /\ UNCHANGED <<hub, room, load, redis, age, crashes>>

(* Mutant: the error of postgres is logged and the game is deleted.        *)
ResultsLogged(t) == "drop_room"

(* Service.FinishGame returns the error before it deletes anything.        *)
ResultsFailed(t) == "idle"

(* The transaction: UpdateGamePlayer changes the rows of the players whose *)
(* IDs the sessions hold.                                                  *)
FinishTx(t) ==
  /\ pc[t] = "finish_tx"
  /\ \/ /\ LET rm == room[Target(t)]
               updated == IF rm.known THEN pg.players \cap rm.joined ELSE {}
           IN pg' = [pg EXCEPT !.recorded = @ \cup updated,
                       !.results = [p \in Players |-> IF p \in updated THEN rm.guesses[p] ELSE @[p]]]
        /\ Go(t, "drop_room") \/ Go(t, ResultsFailed(t))
     \/ /\ Go(t, ResultsFailed(t))
        /\ UNCHANGED pg
  /\ UNCHANGED <<hub, room, load, redis, age, crashes>>

(* Service.FinishGame deletes whatever room the hub has for the game.      *)
DropRoom(t) ==
  /\ pc[t] = "drop_room"
  /\ hub' = NoRoom
  /\ Go(t, "drop_redis")
  /\ UNCHANGED <<room, load, redis, pg, age, crashes>>

(* WipeGameData deletes the rows in one transaction.                       *)
Wipe(t) ==
  /\ pc[t] = "wipe"
  /\ \/ /\ pg' = NoRows
        /\ Go(t, "drop_redis") \/ Go(t, "idle")
     \/ /\ Go(t, "idle")
        /\ UNCHANGED pg
  /\ UNCHANGED <<hub, room, load, redis, age, crashes>>

(* redis DeleteGame; Close only logs that it has failed.                   *)
DropRedis(t) ==
  /\ pc[t] = "drop_redis"
  /\ redis' \in {redis, Emptied}
  /\ Go(t, "idle")
  /\ UNCHANGED <<hub, room, load, pg, age, crashes>>

Close(t) ==
  \/ CloseCheck(t) \/ CloseFlags(t) \/ CloseDecide(t)
  \/ FinishRow(t) \/ FinishTx(t) \/ DropRoom(t) \/ Wipe(t) \/ DropRedis(t)

-----------------------------------------------------------------------------
(* The collector.                                                          *)

(* Mutant: the age alone is no reason.                                     *)
EmptyOnly(r) == age >= 1 /\ room[r].joined = {}

Abandoned(r) == age = 2 \/ (age >= 1 /\ room[r].joined = {})

(* Mutant: the map is left alone.                                          *)
StillThere(entry) == entry

(* The map after a sweep.                                                  *)
Swept(entry) == NoRoom

(* A tick that finds nothing to mark, and the sweep after it, do nothing.  *)
Mark ==
  /\ garbage = NoRoom
  /\ hub # NoRoom /\ Abandoned(hub)
  /\ garbage' = hub
  /\ UNCHANGED <<hub, room, pc, load, redis, pg, age, crashes>>

(* sweep deletes the entry by the game's ID and closes the marked room.    *)
Sweep ==
  /\ garbage # NoRoom /\ pc[Collector] = "idle"
  /\ hub' = Swept(hub)
  /\ pc' = [pc EXCEPT ![Collector] = "close"]
  /\ UNCHANGED <<room, garbage, load, redis, pg, age, crashes>>

-----------------------------------------------------------------------------
(* Service.GetRoom: the hub has no room and redis has the game.            *)

LoadGame(l) ==
  /\ load[l].at = "idle"
  /\ hub = NoRoom /\ redis.game
  /\ load' = [load EXCEPT ![l] = [at |-> "sessions", players |-> redis.players]]
  /\ UNCHANGED <<hub, room, pc, garbage, redis, pg, age, crashes>>

(* getSessions, Resync, NewRoom and SetRoom: a list without key is empty.  *)
LoadSessions(l) ==
  /\ load[l].at = "sessions"
  /\ \/ \E r \in Rooms :
          /\ room[r].life = "unmade"
          /\ room' = [room EXCEPT ![r] = Loaded(load[l].players, redis.lists)]
          /\ hub' = r
     \/ UNCHANGED <<room, hub>>
  /\ load' = [load EXCEPT ![l] = [at |-> "idle", players |-> {}]]
  /\ UNCHANGED <<pc, garbage, redis, pg, age, crashes>>

-----------------------------------------------------------------------------
(* The environment.                                                        *)

Age ==
  /\ age < 2
  /\ age' = age + 1
  /\ UNCHANGED <<hub, room, pc, garbage, load, redis, pg, crashes>>

(* The game's key lives GameExp from the start, the lists a little longer. *)
Expire ==
  /\ age = 2 /\ redis.game
  /\ redis' = Emptied
  /\ UNCHANGED <<hub, room, pc, garbage, load, pg, age, crashes>>

(* The process dies; a new one starts with an empty hub.                   *)
Crash ==
  /\ crashes < MaxCrashes
  /\ crashes' = crashes + 1
  /\ hub' = NoRoom
  /\ room' = [r \in Rooms |-> IF room[r] = Unmade THEN Unmade ELSE Lost]
  /\ pc' = [t \in Threads |-> "idle"]
  /\ garbage' = NoRoom
  /\ load' = [l \in Loaders |-> [at |-> "idle", players |-> {}]]
  /\ UNCHANGED <<redis, pg, age>>

-----------------------------------------------------------------------------
Handle(r) ==
  \/ \E p \in Players : Join(r, p) \/ Check(r, p)
  \/ \E guess \in {"hit", "miss"} : Play(r, guess)
  \/ Start(r) \/ StartPg(r) \/ Commit(r) \/ StartRedis(r) \/ SetKey(r)
  \/ AddGuess(r) \/ Push(r) \/ RunReturns(r)

Get(l) == LoadGame(l) \/ LoadSessions(l)

Next ==
  \/ \E r \in Rooms : Handle(r)
  \/ \E t \in Threads : Close(t)
  \/ \E l \in Loaders : Get(l)
  \/ Mark \/ Sweep \/ Age \/ Expire \/ Crash

Spec == Init /\ [][Next]_vars

(* Database calls return, goroutines run, the collector's ticker ticks and *)
(* time passes; nobody has to connect, guess or ask for the room.          *)
FairSpec ==
  /\ Spec
  /\ WF_vars(Mark) /\ WF_vars(Sweep) /\ WF_vars(Age)
  /\ \A t \in Threads : WF_vars(Close(t))
  /\ \A r \in Rooms : /\ WF_vars(StartPg(r)) /\ WF_vars(Commit(r))
                      /\ WF_vars(StartRedis(r)) /\ WF_vars(SetKey(r))
                      /\ WF_vars(\E guess \in {"hit", "miss"} : Play(r, guess))
                      /\ WF_vars(AddGuess(r)) /\ WF_vars(Push(r)) /\ WF_vars(RunReturns(r))
-----------------------------------------------------------------------------
Lists == [Players -> Seq({"hit", "miss"})]

RoomRecord ==
  [life : {"unmade", "open", "over"}, known : BOOLEAN, started : BOOLEAN, active : BOOLEAN,
   closed : BOOLEAN, deaf : BOOLEAN, ended : BOOLEAN,
   finished : 0..Cardinality(Players), joined : SUBSET Players, guesses : Lists, adding : Players \cup {Nobody}]

(* Type invariant.  It also bounds Game.finished by the number of players  *)
(* (game/game.go:149-154, 163).                                            *)
TypeOK ==
  /\ hub \in Rooms \cup {NoRoom}
  /\ room \in [Rooms -> RoomRecord]
  /\ pc \in [Threads -> {"idle", "start_pg", "start_commit", "start_redis", "start_set", "play",
                         "add_guess", "add_push", "close", "flags", "decide", "finish_row",
                         "finish_tx", "drop_room", "wipe", "drop_redis"}]
  /\ garbage \in Rooms \cup {NoRoom}
  /\ load \in [Loaders -> [at : {"idle", "sessions"}, players : SUBSET Players]]
  /\ redis \in [game : BOOLEAN, players : SUBSET Players, lists : Lists]
  /\ pg \in [game : BOOLEAN, ended : BOOLEAN, players : SUBSET Players,
            recorded : SUBSET Players, results : Lists]
  /\ age \in 0..2
  /\ crashes \in 0..MaxCrashes

(* The key of the game is sent to redis only while postgres has its row:   *)
(* StartGame (service/service.go:41) writes the row first, its error ends  *)
(* the start, and a Close of the collector that wipes the row in between   *)
(* has cancelled the context that the redis call uses (game/room.go:342,   *)
(* 168).  (A key that is on its way when Close cancels and wipes still     *)
(* lands: that game can be loaded and played, and no row takes its         *)
(* results.)                                                               *)
KeyFollowsRow == [][\A r \in Rooms : pc'[r] = "start_set" => pc[r] = "start_set" \/ pg.game]_vars

(* Results in postgres are those of sessions that have ended, and the game *)
(* has an end time (game/game.go:151-154, game/room.go:351-361).  Start    *)
(* failures, reloads from redis with lost guesses, late joins and the      *)
(* collector's Close may all come in between.                              *)
RecordedIsOver ==
  \A p \in pg.recorded : Ended(pg.results[p]) /\ pg.ended

(* The first room of a game is deleted as finished, and with it the key in *)
(* redis, only when each player of the row has its result, whatever has    *)
(* failed, was tried again or came back without an answer                  *)
(* (service/service.go:82-90, game/room.go:351-361).  (A room made from    *)
(* redis has lost the players' IDs, and with them the results: its         *)
(* FinishGame changes no row of a player and deletes the game.)            *)
FinishedIsRecorded ==
  \A t \in Threads :
    pc[t] = "drop_room" /\ room[Target(t)].known => pg.players \subseteq pg.recorded

(* A result once recorded is never replaced by another one for the same    *)
(* player (repository/postgres/game.go:141-164), though FinishGame may run *)
(* again for a room made from redis after the first one.                   *)
ResultsNotReplaced ==
  [][\A p \in pg.recorded \cap pg'.recorded : pg'.results[p] = pg.results[p]]_vars

(* A closed room that the hub still has is one whose game has ended: the   *)
(* collector deletes a room from the map before it closes it               *)
(* (service/hub_service.go:96-113), so the players of a game that goes on  *)
(* are never locked out by a closed room.                                  *)
HubRoomOpenOrEnded == hub # NoRoom /\ room[hub].closed => room[hub].ended

(* Every room in the hub is taken out of it (service/hub_service.go:72-89),*)
(* the one whose game failed to be recorded included.                      *)
RoomsAreCollected == \A r \in Rooms : hub = r ~> hub # r

(* The run goroutine of a room that a sweep has taken ends                 *)
(* (service/hub_service.go:106-111, game/room.go:341, 370-372), whatever   *)
(* message it is handling.                                                 *)
SweptRoomsEnd == \A r \in Rooms : (pc[Collector] = "close" /\ garbage = r) ~> room[r].life = "over"

-----------------------------------------------------------------------------
(* README.md:32 says "When the results of a game are written to the        *)
(* permanent area, it becomes Read ONLY".  A room made from redis between  *)
(* FinishGame and the deletion of the key does not know the end and is     *)
(* swept and wiped like an abandoned game.                                 *)
ResultsAreReadOnly == [][pg.recorded # {} => pg' = pg]_vars

(* game/game.go:132 says "Play also sets the EndTime of the game if the    *)
(* game has ended for every player".  After a reload the counter has lost  *)
(* the players that failed.                                                *)
PlayEndsGame ==
  [][\A r \in Rooms :
       room[r].life = "open"
       /\ (\E p \in Players : Len(room'[r].guesses[p]) > Len(room[r].guesses[p]))
       /\ (\A p \in room'[r].joined : Ended(room'[r].guesses[p]))
       => room'[r].ended]_vars
=============================================================================
