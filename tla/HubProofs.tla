----------------------------- MODULE HubProofs -----------------------------
(***************************************************************************)
(* Theorems about Hub for any finite set of players, any number of rooms,  *)
(* loads, guesses and crashes.                                             *)
(***************************************************************************)
EXTENDS Hub, FiniteSetTheorems, TLAPS

EndedIn(r) == {p \in room[r].joined : Ended(room[r].guesses[p])}

-----------------------------------------------------------------------------
(* One room and its run goroutine.                                         *)

Handling == {"start_pg", "start_commit", "start_redis", "start_set", "play", "add_guess", "add_push"}

(* A handler that waits for a database call knows what it is doing; only   *)
(* the first room writes a row or a key; a run goroutine closes its room   *)
(* at the end of the game, and so never wipes.                             *)
RunStands(r) ==
  /\ room[r].life # "open" => pc[r] = "idle"
  /\ pc[r] \in {"start_pg", "start_commit", "start_redis", "start_set"} =>
       room[r].started /\ ~room[r].active
  /\ pc[r] \in {"start_commit", "start_redis", "start_set"} => r = First
  /\ pc[r] = "start_commit" => ~room[r].ended
  /\ pc[r] = "play" => /\ room[r].adding \in room[r].joined
                       /\ CanPlay(room[r].guesses[room[r].adding])
                       /\ room[r].started /\ (room[r].active \/ room[r].closed)
  /\ pc[r] \in {"add_guess", "add_push"} =>
       room[r].adding \in Players /\ room[r].guesses[room[r].adding] # <<>>
  /\ pc[r] \in {"close", "flags", "decide"} => room[r].ended
  /\ pc[r] # "wipe"

FlagsAgree(r) ==
  /\ room[r].active => room[r].started
  /\ room[r].ended => room[r].started /\ (room[r].active \/ room[r].closed)
  /\ room[r].life = "unmade" => room[r] = Unmade

(* The first room knows its players' IDs; the others are made from redis,  *)
(* where a game has been started and IDs are lost.                         *)
Origin(r) ==
  IF r = First THEN room[r].known /\ room[r].life # "unmade"
  ELSE /\ room[r].started => ~room[r].known
       /\ room[r].life = "open" => room[r].started /\ (room[r].active \/ room[r].closed)

(* A reload counts too few ended sessions; the first room counts them all. *)
Counts(r) ==
  /\ \A p \in Players : p \notin room[r].joined => room[r].guesses[p] = <<>>
  /\ room[r].finished <= Cardinality(EndedIn(r))
  /\ room[r].known => room[r].finished = Cardinality(EndedIn(r))

RoomInv(r) == RunStands(r) /\ FlagsAgree(r) /\ Origin(r) /\ Counts(r)

-----------------------------------------------------------------------------
(* The hub, the threads that close and the stores.                         *)

Late == {"decide", "finish_row", "finish_tx", "drop_room", "wipe", "drop_redis"}

(* What is in the hub or marked was made, and a room that is being swept   *)
(* is not in the hub any more.                                             *)
CollectorInv ==
  /\ garbage = NoRoom => pc[Collector] = "idle"
  /\ pc[Collector] \notin Handling
  /\ pc[Collector] # "idle" => hub # garbage
  /\ \A r \in {hub, garbage} \ {NoRoom} : room[r].life # "unmade"

ClosesWell(t) ==
  /\ pc[t] \in Late => room[Target(t)].closed
  /\ pc[t] \in {"finish_row", "finish_tx", "drop_room"}
       => room[Target(t)].started /\ room[Target(t)].ended

ClosingInv == \A t \in Threads : ClosesWell(t)

(* The first room, as long as nobody has closed it, has the map for itself *)
(* or is being swept.                                                      *)
FirstOpen == room[First].life = "open" /\ ~room[First].closed

OthersUnmade ==
  /\ \A r \in Rooms \ {First} : room[r].life = "unmade"
  /\ \A l \in Loaders : load[l].at = "idle"

FirstMapped ==
  FirstOpen => \/ hub = First /\ OthersUnmade
               \/ garbage = First /\ pc[Collector] \in {"close", "flags"}

(* While the row may still be sent or is on its way, nothing is in redis,  *)
(* so no other room was made.                                              *)
RowToCome == (FirstOpen /\ ~pg.game) \/ pc[First] = "start_commit"

FreshAlone == RowToCome => ~pg.game /\ ~redis.game /\ OthersUnmade

(* After the first write of a start the row stays, or the room is closed.  *)
StartRow == \A r \in Rooms : pc[r] \in {"start_redis", "start_set"} /\ ~room[r].closed => pg.game

(* The rows against the first room, the only one that writes results.      *)
RowsInv ==
  /\ pg.recorded \subseteq pg.players
  /\ ~pg.game => pg.players = {} /\ ~pg.ended
  /\ room[First].life = "open" /\ ~room[First].started => pg.players = {}
  /\ room[First].started => pg.players \subseteq room[First].joined
  /\ room[First].ended => \A p \in pg.players : Ended(room[First].guesses[p])
  /\ room[First].started => \A p \in pg.recorded : pg.results[p] = room[First].guesses[p]
  /\ \A t \in Threads : pc[t] = "finish_tx" => pg.ended \/ pg.players = {}

InLimit == \A p \in Players : Len(room[First].guesses[p]) <= MaxGuesses

(* The inductive invariant.                                                *)
IInv ==
  /\ TypeOK
  /\ \A r \in Rooms : RoomInv(r)
  /\ CollectorInv /\ ClosingInv /\ HubRoomOpenOrEnded
  /\ FirstMapped /\ FreshAlone /\ StartRow
  /\ RowsInv /\ RecordedIsOver /\ InLimit

USE RoomsAssumption, NobodyAssumption, LimitsAssumption

-----------------------------------------------------------------------------
(* Types.                                                                  *)

LEMMA CardPlayers == Cardinality(Players) \in Nat
BY PlayersAssumption, FS_CardinalityType

LEMMA NoGuessesType == NoGuesses \in Lists
BY DEF NoGuesses, Lists

LEMMA NewRoomType == NewRoom \in RoomRecord /\ Unmade \in RoomRecord /\ Lost \in RoomRecord
<1>1. 0 \in 0..Cardinality(Players)
  BY CardPlayers
<1>2. QED BY <1>1, NoGuessesType DEF NewRoom, Unmade, Lost, RoomRecord

LEMMA StoresEmptyTypes ==
  /\ Emptied \in [game : BOOLEAN, players : SUBSET Players, lists : Lists]
  /\ NoRows \in [game : BOOLEAN, ended : BOOLEAN, players : SUBSET Players,
                 recorded : SUBSET Players, results : Lists]
BY NoGuessesType DEF Emptied, NoRows

(* A step that writes one room.                                            *)
LEMMA OneRoom ==
  ASSUME TypeOK, NEW r \in Rooms, NEW new \in RoomRecord, room' = [room EXCEPT ![r] = new]
  PROVE  /\ room' \in [Rooms -> RoomRecord]
         /\ room'[r] = new
         /\ \A x \in Rooms : x # r => room'[x] = room[x]
BY DEF TypeOK

LEMMA FieldTypes ==
  ASSUME TypeOK, NEW r \in Rooms
  PROVE  /\ room[r] \in RoomRecord
         /\ room[r].life \in {"unmade", "open", "over"}
         /\ room[r].known \in BOOLEAN /\ room[r].started \in BOOLEAN /\ room[r].active \in BOOLEAN
         /\ room[r].closed \in BOOLEAN /\ room[r].deaf \in BOOLEAN /\ room[r].ended \in BOOLEAN
         /\ room[r].finished \in 0..Cardinality(Players) /\ room[r].finished \in Nat
         /\ room[r].joined \in SUBSET Players
         /\ room[r].guesses \in Lists
         /\ room[r].adding \in Players \cup {Nobody}
BY CardPlayers DEF TypeOK, RoomRecord

Places == {"idle", "start_pg", "start_commit", "start_redis", "start_set", "play",
           "add_guess", "add_push", "close", "flags", "decide", "finish_row",
           "finish_tx", "drop_room", "wipe", "drop_redis"}

LEMMA OnePlace ==
  ASSUME TypeOK, NEW t \in Threads, NEW at \in Places, pc' = [pc EXCEPT ![t] = at]
  PROVE  /\ pc' \in [Threads -> Places]
         /\ pc'[t] = at
         /\ \A x \in Threads : x # t => pc'[x] = pc[x]
BY DEF TypeOK, Places

LEMMA ThreadsAre ==
  /\ Collector \in Threads /\ Collector \notin Rooms
  /\ \A r \in Rooms : r \in Threads /\ r # Collector /\ Target(r) = r
  /\ Target(Collector) = garbage
BY DEF Threads, Target

(* Where a thread closes a room there is a room.                           *)
LEMMA TargetIsRoom ==
  ASSUME IInv, NEW t \in Threads, pc[t] # "idle"
  PROVE  Target(t) \in Rooms /\ room[Target(t)].life # "unmade"
<1>1. CASE t = Collector
  BY <1>1, ThreadsAre DEF IInv, TypeOK, CollectorInv
<1>2. CASE t # Collector
  <2>1. t \in Rooms /\ Target(t) = t
    BY <1>2, ThreadsAre DEF Threads
  <2>2. QED BY <2>1 DEF IInv, RoomInv, RunStands
<1>3. QED BY <1>1, <1>2

(* What a thread that closes does to the collector's variables.            *)
LEMMA Goes ==
  ASSUME TypeOK, NEW t \in Threads, NEW at \in Places, Go(t, at)
  PROVE  /\ pc' \in [Threads -> Places]
         /\ pc'[t] = at
         /\ \A x \in Threads : x # t => pc'[x] = pc[x]
         /\ garbage' = IF t = Collector /\ at = "idle" THEN NoRoom ELSE garbage
         /\ garbage' \in Rooms \cup {NoRoom}
BY OnePlace DEF Go, TypeOK

-----------------------------------------------------------------------------
(* Steps that write no room and move no run goroutine.                     *)

After == {"finish_tx", "drop_room", "drop_redis"}

LEMMA RoomInvKept ==
  ASSUME NEW r \in Rooms, RoomInv(r), room'[r] = room[r],
         \/ pc'[r] \in {pc[r], "idle"}
         \/ pc[r] = "close" /\ pc'[r] = "flags"
         \/ pc[r] # "idle" /\ pc'[r] \in After
  PROVE  RoomInv(r)'
<1>1. RunStands(r)'
  BY DEF RoomInv, RunStands, After
<1>2. FlagsAgree(r)' /\ Origin(r)' /\ Counts(r)'
  BY DEF RoomInv, FlagsAgree, Origin, Counts, EndedIn
<1>3. QED BY <1>1, <1>2 DEF RoomInv

LEMMA EnvironmentInv ==
  ASSUME IInv, Mark \/ Age \/ Expire \/ \E l \in Loaders : LoadGame(l)
  PROVE  IInv'
<1>1. UNCHANGED <<hub, room, pc, pg, crashes>>
  BY DEF Mark, Age, Expire, LoadGame
<1>2. TypeOK'
  <2>1. age' \in 0..2 /\ garbage' \in Rooms \cup {NoRoom}
    BY DEF Mark, Age, Expire, LoadGame, IInv, TypeOK
  <2>2. load' \in [Loaders -> [at : {"idle", "sessions"}, players : SUBSET Players]]
    BY DEF Mark, Age, Expire, LoadGame, IInv, TypeOK
  <2>3. redis' \in [game : BOOLEAN, players : SUBSET Players, lists : Lists]
    BY StoresEmptyTypes DEF Mark, Age, Expire, LoadGame, IInv, TypeOK
  <2>4. QED BY <1>1, <2>1, <2>2, <2>3 DEF IInv, TypeOK
<1>3. \A r \in Rooms : RoomInv(r)'
  <2> TAKE r \in Rooms
  <2>1. RoomInv(r) /\ room'[r] = room[r] /\ pc'[r] = pc[r]
    BY <1>1 DEF IInv
  <2>2. QED BY <2>1, RoomInvKept
<1>4. CollectorInv'
  BY <1>1 DEF Mark, Age, Expire, LoadGame, IInv, TypeOK, CollectorInv
<1>5. ClosingInv'
  <2>1. CASE garbage' = garbage
    BY <1>1, <2>1 DEF IInv, ClosingInv, ClosesWell, Target
  <2>2. CASE garbage = NoRoom
    BY <1>1, <2>2, ThreadsAre DEF IInv, ClosingInv, ClosesWell, CollectorInv, Target, Threads, Late
  <2>3. QED BY <2>1, <2>2 DEF Mark, Age, Expire, LoadGame
<1>6. HubRoomOpenOrEnded' /\ StartRow'
  BY <1>1 DEF IInv, HubRoomOpenOrEnded, StartRow
<1>7. FreshAlone' /\ FirstMapped'
  <2>1. CASE load' = load /\ redis' \in {redis, Emptied} /\ (garbage' = garbage \/ garbage = NoRoom)
    <3>1. redis'.game => redis.game
      BY <2>1 DEF Emptied
    <3>2. garbage = First => garbage' = First
      BY <2>1
    <3>3. FreshAlone'
      BY <1>1, <2>1, <3>1 DEF IInv, FreshAlone, RowToCome, FirstOpen, OthersUnmade
    <3>4. FirstMapped'
      BY <1>1, <2>1, <3>2 DEF IInv, FirstMapped, FirstOpen, OthersUnmade
    <3>5. QED BY <3>3, <3>4
  <2>2. CASE \E l \in Loaders : LoadGame(l)
    <3>1. hub = NoRoom /\ redis.game /\ garbage' = garbage /\ First # NoRoom
      BY <2>2 DEF LoadGame
    <3>2. ~RowToCome
      BY <3>1 DEF IInv, FreshAlone
    <3>3. FreshAlone'
      BY <1>1, <3>2 DEF FreshAlone, RowToCome, FirstOpen
    <3>4. FirstMapped'
      BY <1>1, <3>1 DEF IInv, FirstMapped, FirstOpen
    <3>5. QED BY <3>3, <3>4
  <2>3. QED BY <2>1, <2>2 DEF Mark, Age, Expire
<1>8. RowsInv' /\ RecordedIsOver' /\ InLimit'
  BY <1>1 DEF IInv, RowsInv, RecordedIsOver, InLimit
<1>9. QED BY <1>2, <1>3, <1>4, <1>5, <1>6, <1>7, <1>8 DEF IInv

-----------------------------------------------------------------------------
(* Steps of Close that leave the rooms as they are.                        *)

LEMMA CloseGoesOn ==
  ASSUME IInv, NEW t \in Threads, NEW at \in Places, Go(t, at), room' = room,
         pc[t] \in Late \cup {"close"},
         \/ at = "idle"
         \/ at = "flags" /\ pc[t] = "close"
         \/ at \in After /\ pc[t] \in Late,
         at = "idle" /\ pc[t] = "close" => room[Target(t)].closed,
         at \in {"finish_tx", "drop_room"} => pc[t] \in {"finish_row", "finish_tx"},
         load' = load,
         hub' = hub \/ (hub' = NoRoom /\ pc[t] \in Late)
  PROVE  /\ \A r \in Rooms : RoomInv(r)'
         /\ CollectorInv' /\ ClosingInv' /\ HubRoomOpenOrEnded' /\ InLimit' /\ FirstMapped'
         /\ pc' \in [Threads -> Places] /\ garbage' \in Rooms \cup {NoRoom}
<1>1. /\ pc' \in [Threads -> Places]
      /\ pc'[t] = at
      /\ \A x \in Threads : x # t => pc'[x] = pc[x]
      /\ garbage' = IF t = Collector /\ at = "idle" THEN NoRoom ELSE garbage
      /\ garbage' \in Rooms \cup {NoRoom}
  BY Goes DEF IInv
<1>2. \A r \in Rooms : RoomInv(r)'
  <2> TAKE r \in Rooms
  <2>1. RoomInv(r) /\ room'[r] = room[r] /\ r \in Threads
    BY ThreadsAre DEF IInv
  <2>2. \/ pc'[r] \in {pc[r], "idle"}
        \/ pc[r] = "close" /\ pc'[r] = "flags"
        \/ pc[r] # "idle" /\ pc'[r] \in After
    BY <1>1, <2>1 DEF Late
  <2>3. QED BY <2>1, <2>2, RoomInvKept
<1>3. CollectorInv'
  BY <1>1, ThreadsAre DEF IInv, CollectorInv, Late, After, Handling
<1>4. ClosingInv'
  <2> SUFFICES ASSUME NEW x \in Threads
               PROVE  ClosesWell(x)'
    BY DEF ClosingInv, Threads
  <2>1. pc'[x] \in Late => Target(x)' = Target(x)
    BY <1>1 DEF Target, Late, Threads
  <2>2. /\ pc'[x] \in Late => pc[x] \in Late
        /\ pc'[x] \in {"finish_row", "finish_tx", "drop_room"}
             => pc[x] \in {"finish_row", "finish_tx", "drop_room"}
    BY <1>1 DEF Late, After
  <2>3. QED BY <2>1, <2>2 DEF IInv, ClosingInv, ClosesWell, Late
<1>5. HubRoomOpenOrEnded' /\ InLimit'
  BY DEF IInv, HubRoomOpenOrEnded, InLimit
<1>6. FirstMapped'
  <2> SUFFICES ASSUME FirstOpen
               PROVE  FirstMapped'
    BY DEF FirstMapped, FirstOpen
  <2>1. Target(t) \in Rooms /\ room[Target(t)].life # "unmade"
    BY TargetIsRoom DEF Late
  <2>2. CASE hub = First /\ OthersUnmade
    <3>1. Target(t) = First
      BY <2>1, <2>2 DEF OthersUnmade
    <3>2. pc[t] \notin Late
      BY <3>1 DEF IInv, ClosingInv, ClosesWell, FirstOpen
    <3>3. QED BY <2>2, <3>2 DEF FirstMapped, OthersUnmade
  <2>3. CASE garbage = First /\ pc[Collector] \in {"close", "flags"}
    <3>1. CASE t # Collector
      BY <1>1, <2>3, <3>1, ThreadsAre DEF FirstMapped
    <3>2. CASE t = Collector
      <4>1. Target(t) = First /\ pc[t] = "close"
        BY <2>3, <3>2, ThreadsAre DEF Late
      <4>2. at = "flags"
        BY <4>1 DEF FirstOpen, Late
      <4>3. QED BY <1>1, <2>3, <3>2, <4>2 DEF FirstMapped
    <3>3. QED BY <3>1, <3>2
  <2>4. QED BY <2>2, <2>3 DEF IInv, FirstMapped
<1>7. QED BY <1>1, <1>2, <1>3, <1>4, <1>5, <1>6

(* As long as Close leaves the row, or the first room is closed, what is   *)
(* to come of the start stays the same.                                    *)
LEMMA CloseKeepsAlone ==
  ASSUME IInv, NEW t \in Threads, NEW at \in Places, Go(t, at), at # "start_commit",
         room' = room, load' = load, redis'.game => redis.game,
         pg'.game = pg.game \/ (~pg'.game /\ ~FirstOpen)
  PROVE  FreshAlone'
<1>1. pc'[First] = "start_commit" => pc[First] = "start_commit"
  BY Goes, ThreadsAre DEF IInv
<1>2. RowToCome' => RowToCome /\ ~pg'.game
  BY <1>1 DEF IInv, FreshAlone, RowToCome, FirstOpen
<1>3. QED BY <1>2 DEF IInv, FreshAlone, OthersUnmade

LEMMA CloseCheckInv ==
  ASSUME IInv, NEW t \in Threads, CloseCheck(t)
  PROVE  IInv'
<1> DEFINE at == IF room[Target(t)].closed THEN "idle" ELSE "flags"
<1>1. at \in Places /\ at \in {"idle", "flags"} /\ Go(t, at) /\ pc[t] = "close"
  BY DEF CloseCheck, Places
<1>2. UNCHANGED <<hub, room, load, redis, pg, age, crashes>>
  BY DEF CloseCheck
<1>10. at = "idle" => room[Target(t)].closed
  OBVIOUS
<1> HIDE DEF at
<1>3. /\ \A r \in Rooms : RoomInv(r)'
      /\ CollectorInv' /\ ClosingInv' /\ HubRoomOpenOrEnded' /\ InLimit' /\ FirstMapped'
      /\ pc' \in [Threads -> Places] /\ garbage' \in Rooms \cup {NoRoom}
  BY <1>1, <1>2, <1>10, CloseGoesOn DEF Late, After
<1>4. TypeOK'
  BY <1>2, <1>3 DEF IInv, TypeOK, Places
<1>5. \A x \in Threads : x # t => pc'[x] = pc[x]
  BY <1>1, Goes DEF IInv
<1>6. FreshAlone' /\ RecordedIsOver'
  <2>1. FreshAlone'
    BY <1>1, <1>2, CloseKeepsAlone
  <2>2. QED BY <1>2, <2>1 DEF IInv, RecordedIsOver
<1>7. StartRow'
  <2>1. pc'[t] \in {"idle", "flags"}
    BY <1>1, Goes DEF IInv
  <2>2. QED BY <1>2, <1>5, <2>1, ThreadsAre DEF IInv, StartRow
<1>8. RowsInv'
  <2>1. pc'[t] \in {"idle", "flags"}
    BY <1>1, Goes DEF IInv
  <2>2. QED BY <1>2, <1>5, <2>1 DEF IInv, RowsInv
<1>9. QED BY <1>3, <1>4, <1>6, <1>7, <1>8 DEF IInv

(* Only the collector wipes, and the room it has closed is the first one   *)
(* or was made after that.                                                 *)
LEMMA WiperHasClosed ==
  ASSUME IInv, NEW t \in Threads, pc[t] = "wipe"
  PROVE  ~FirstOpen
<1> SUFFICES ASSUME FirstOpen PROVE FALSE
  OBVIOUS
<1>1. t = Collector
  BY DEF IInv, RoomInv, RunStands, Threads
<1>2. garbage \in Rooms /\ room[garbage].life # "unmade" /\ room[garbage].closed
  BY <1>1, TargetIsRoom, ThreadsAre DEF IInv, ClosingInv, ClosesWell, Late
<1>3. garbage # First
  BY <1>2 DEF FirstOpen
<1>4. hub = First /\ OthersUnmade
  BY <1>1, <1>3 DEF IInv, FirstMapped
<1>5. QED BY <1>2, <1>3, <1>4 DEF OthersUnmade

(* A start on its way is that of the first room.                           *)
LEMMA StarterIsOpen ==
  ASSUME IInv, NEW r \in Rooms,
         pc[r] \in {"start_pg", "start_commit", "start_redis", "start_set"}, ~room[r].closed
  PROVE  r = First /\ FirstOpen
<1>1. RunStands(r) /\ Origin(r)
  BY DEF IInv, RoomInv
<1>2. room[r].life = "open" /\ ~room[r].active
  BY <1>1 DEF RunStands
<1>3. r = First
  BY <1>1, <1>2 DEF Origin
<1>4. QED BY <1>2, <1>3 DEF FirstOpen

LEMMA FinishRowInv ==
  ASSUME IInv, NEW t \in Threads, FinishRow(t)
  PROVE  IInv'
<1>1. PICK at \in {"finish_tx", "idle"} :
        /\ Go(t, at)
        /\ pg' = pg \/ (pg.game /\ pg' = [pg EXCEPT !.ended = TRUE])
        /\ at = "finish_tx" => pg.game /\ pg' = [pg EXCEPT !.ended = TRUE]
  BY DEF FinishRow
<1>2. UNCHANGED <<hub, room, load, redis, age, crashes>> /\ pc[t] = "finish_row" /\ at \in Places
  BY <1>1 DEF FinishRow, Places
<1>3. /\ \A r \in Rooms : RoomInv(r)'
      /\ CollectorInv' /\ ClosingInv' /\ HubRoomOpenOrEnded' /\ InLimit' /\ FirstMapped'
      /\ pc' \in [Threads -> Places] /\ garbage' \in Rooms \cup {NoRoom}
  BY <1>1, <1>2, CloseGoesOn DEF Late, After
<1>4. /\ pg' \in [game : BOOLEAN, ended : BOOLEAN, players : SUBSET Players,
                  recorded : SUBSET Players, results : Lists]
      /\ pg'.game = pg.game /\ pg'.players = pg.players /\ pg'.recorded = pg.recorded
      /\ pg'.results = pg.results
      /\ pg'.ended => pg.ended \/ pg.game
      /\ pg.ended => pg'.ended
      /\ at = "finish_tx" => pg'.ended
  <2>1. CASE pg' = pg /\ at = "idle"
    BY <2>1 DEF IInv, TypeOK
  <2>2. CASE pg.game /\ pg' = [pg EXCEPT !.ended = TRUE]
    BY <2>2 DEF IInv, TypeOK
  <2>3. QED BY <1>1, <2>1, <2>2
<1>5. TypeOK'
  BY <1>2, <1>3, <1>4 DEF IInv, TypeOK, Places
<1>6. pc'[t] = at /\ \A x \in Threads : x # t => pc'[x] = pc[x]
  BY <1>1, <1>2, Goes DEF IInv
<1>7. FreshAlone' /\ RecordedIsOver'
  <2>1. FreshAlone'
    BY <1>1, <1>2, <1>4, CloseKeepsAlone
  <2>2. QED BY <1>2, <1>4, <2>1 DEF IInv, RecordedIsOver
<1>8. StartRow'
  BY <1>2, <1>4, <1>6, ThreadsAre DEF IInv, StartRow
<1>9. RowsInv'
  BY <1>2, <1>4, <1>6 DEF IInv, RowsInv
<1>10. QED BY <1>3, <1>5, <1>7, <1>8, <1>9 DEF IInv

(* FinishTx writes nothing, or the results of the first room for all the   *)
(* players of the start.                                                   *)
LEMMA FinishTxWrites ==
  ASSUME IInv, NEW t \in Threads, FinishTx(t)
  PROVE  /\ pg' \in [game : BOOLEAN, ended : BOOLEAN, players : SUBSET Players,
                     recorded : SUBSET Players, results : Lists]
         /\ pg'.game = pg.game /\ pg'.players = pg.players /\ pg'.ended = pg.ended
         /\ \/ pg'.recorded = pg.recorded /\ pg'.results = pg.results
            \/ /\ pg.ended /\ room[First].started
               /\ pg'.recorded = pg.players
               /\ \A p \in pg.players : /\ pg'.results[p] = room[First].guesses[p]
                                        /\ Ended(room[First].guesses[p])
<1> DEFINE rm == room[Target(t)]
           updated == IF rm.known THEN pg.players \cap rm.joined ELSE {}
           res == [p \in Players |-> IF p \in updated THEN rm.guesses[p] ELSE pg.results[p]]
<1>1. pg' = pg \/ pg' = [pg EXCEPT !.recorded = pg.recorded \cup updated, !.results = res]
  BY DEF FinishTx, IInv, TypeOK
<1>2. /\ Target(t) \in Rooms /\ rm.started /\ rm.ended
      /\ pg.ended \/ pg.players = {}
  BY TargetIsRoom DEF FinishTx, IInv, ClosingInv, ClosesWell, RowsInv
<1>3. /\ rm.guesses \in Lists /\ pg.results \in Lists /\ pg.recorded \in SUBSET Players
      /\ pg.players \in SUBSET Players
      /\ pg \in [game : BOOLEAN, ended : BOOLEAN, players : SUBSET Players,
                 recorded : SUBSET Players, results : Lists]
  BY <1>2, FieldTypes DEF IInv, TypeOK
<1>4. CASE pg' = pg
  BY <1>3, <1>4
<1>5. CASE pg' # pg
  <2>1. res \in Lists /\ updated \in SUBSET Players
    BY <1>3 DEF Lists
  <2>2. \A p \in Players : res[p] = IF p \in updated THEN rm.guesses[p] ELSE pg.results[p]
    OBVIOUS
  <2>3. updated = {} => res = pg.results
    BY <1>3 DEF Lists
  <2>4. updated # {} => /\ Target(t) = First /\ updated = pg.players /\ pg.ended
                        /\ room[First].started
                        /\ \A p \in pg.players : Ended(room[First].guesses[p])
    <3> SUFFICES ASSUME updated # {}
                 PROVE  /\ Target(t) = First /\ updated = pg.players /\ pg.ended
                        /\ room[First].started
                        /\ \A p \in pg.players : Ended(room[First].guesses[p])
      OBVIOUS
    <3>1. rm.known /\ pg.ended
      BY <1>2
    <3>2. Target(t) = First
      BY <1>2, <3>1 DEF IInv, RoomInv, Origin
    <3>3. QED BY <1>2, <3>1, <3>2 DEF IInv, RowsInv
  <2> HIDE DEF res, updated
  <2>5. pg' = [pg EXCEPT !.recorded = pg.recorded \cup updated, !.results = res]
    BY <1>1, <1>5
  <2>6. /\ pg' \in [game : BOOLEAN, ended : BOOLEAN, players : SUBSET Players,
                    recorded : SUBSET Players, results : Lists]
        /\ pg'.game = pg.game /\ pg'.players = pg.players /\ pg'.ended = pg.ended
        /\ pg'.recorded = pg.recorded \cup updated /\ pg'.results = res
    BY <1>3, <2>1, <2>5
  <2>7. CASE updated = {}
    BY <2>3, <2>6, <2>7
  <2>8. CASE updated # {}
    <3>1. pg'.recorded = pg.players
      BY <2>4, <2>6, <2>8 DEF IInv, RowsInv
    <3>2. \A p \in pg.players : pg'.results[p] = room[First].guesses[p]
      BY <1>3, <2>2, <2>4, <2>6, <2>8
    <3>3. QED BY <2>4, <2>6, <2>8, <3>1, <3>2
  <2>9. QED BY <2>7, <2>8
<1>6. QED BY <1>4, <1>5

LEMMA FinishTxInv ==
  ASSUME IInv, NEW t \in Threads, FinishTx(t)
  PROVE  /\ IInv'
         /\ \A p \in pg.recorded \cap pg'.recorded : pg'.results[p] = pg.results[p]
<1>1. PICK at \in {"drop_room", "idle"} : Go(t, at)
  BY DEF FinishTx, ResultsFailed
<1>2. UNCHANGED <<hub, room, load, redis, age, crashes>> /\ pc[t] = "finish_tx" /\ at \in Places
  BY <1>1 DEF FinishTx, Places
<1>3. /\ \A r \in Rooms : RoomInv(r)'
      /\ CollectorInv' /\ ClosingInv' /\ HubRoomOpenOrEnded' /\ InLimit' /\ FirstMapped'
      /\ pc' \in [Threads -> Places] /\ garbage' \in Rooms \cup {NoRoom}
  BY <1>1, <1>2, CloseGoesOn DEF Late, After
<1>4. /\ pg' \in [game : BOOLEAN, ended : BOOLEAN, players : SUBSET Players,
                  recorded : SUBSET Players, results : Lists]
      /\ pg'.game = pg.game /\ pg'.players = pg.players /\ pg'.ended = pg.ended
      /\ \/ pg'.recorded = pg.recorded /\ pg'.results = pg.results
         \/ /\ pg.ended /\ room[First].started
            /\ pg'.recorded = pg.players
            /\ \A p \in pg.players : /\ pg'.results[p] = room[First].guesses[p]
                                     /\ Ended(room[First].guesses[p])
  BY FinishTxWrites
<1>5. TypeOK'
  BY <1>2, <1>3, <1>4 DEF IInv, TypeOK, Places
<1>6. pc'[t] = at /\ \A x \in Threads : x # t => pc'[x] = pc[x]
  BY <1>1, <1>2, Goes DEF IInv
<1>7. FreshAlone'
  BY <1>1, <1>2, <1>4, CloseKeepsAlone
<1>8. StartRow'
  BY <1>1, <1>2, <1>4, <1>6, ThreadsAre DEF IInv, StartRow
<1>9. RecordedIsOver'
  BY <1>4 DEF IInv, RecordedIsOver
<1>10. /\ pg'.recorded \subseteq pg'.players
       /\ room[First].started => \A p \in pg'.recorded : pg'.results[p] = room[First].guesses[p]
  BY <1>4 DEF IInv, RowsInv
<1>11. \A x \in Threads : pc'[x] = "finish_tx" => pc[x] = "finish_tx"
  BY <1>1, <1>6
<1>12. RowsInv'
  BY <1>2, <1>4, <1>10, <1>11 DEF IInv, RowsInv
<1>13. \A p \in pg.recorded \cap pg'.recorded : pg'.results[p] = pg.results[p]
  BY <1>4 DEF IInv, RowsInv
<1>14. QED BY <1>3, <1>5, <1>7, <1>8, <1>9, <1>12, <1>13 DEF IInv

LEMMA DropRoomInv ==
  ASSUME IInv, NEW t \in Threads, DropRoom(t)
  PROVE  IInv'
<1>1. /\ Go(t, "drop_redis") /\ pc[t] = "drop_room" /\ "drop_redis" \in Places
      /\ hub' = NoRoom
      /\ UNCHANGED <<room, load, redis, pg, age, crashes>>
  BY DEF DropRoom, Places
<1>2. /\ \A r \in Rooms : RoomInv(r)'
      /\ CollectorInv' /\ ClosingInv' /\ HubRoomOpenOrEnded' /\ InLimit' /\ FirstMapped'
      /\ pc' \in [Threads -> Places] /\ garbage' \in Rooms \cup {NoRoom}
  BY <1>1, CloseGoesOn DEF Late, After
<1>3. TypeOK'
  BY <1>1, <1>2 DEF IInv, TypeOK, Places
<1>4. pc'[t] = "drop_redis" /\ \A x \in Threads : x # t => pc'[x] = pc[x]
  BY <1>1, Goes DEF IInv
<1>5. FreshAlone' /\ RecordedIsOver'
  <2>1. FreshAlone'
    BY <1>1, CloseKeepsAlone
  <2>2. QED BY <1>1, <2>1 DEF IInv, RecordedIsOver
<1>6. StartRow'
  BY <1>1, <1>4, ThreadsAre DEF IInv, StartRow
<1>7. RowsInv'
  BY <1>1, <1>4 DEF IInv, RowsInv
<1>8. QED BY <1>2, <1>3, <1>5, <1>6, <1>7 DEF IInv

LEMMA WipeInv ==
  ASSUME IInv, NEW t \in Threads, Wipe(t)
  PROVE  IInv'
<1>1. PICK at \in {"drop_redis", "idle"} :
        /\ Go(t, at)
        /\ pg' = NoRows \/ pg' = pg
  BY DEF Wipe
<1>2. UNCHANGED <<hub, room, load, redis, age, crashes>> /\ pc[t] = "wipe" /\ at \in Places
  BY <1>1 DEF Wipe, Places
<1>3. /\ \A r \in Rooms : RoomInv(r)'
      /\ CollectorInv' /\ ClosingInv' /\ HubRoomOpenOrEnded' /\ InLimit' /\ FirstMapped'
      /\ pc' \in [Threads -> Places] /\ garbage' \in Rooms \cup {NoRoom}
  BY <1>1, <1>2, CloseGoesOn DEF Late, After
<1>4. TypeOK'
  BY <1>1, <1>2, <1>3, StoresEmptyTypes DEF IInv, TypeOK, Places
<1>5. pc'[t] = at /\ \A x \in Threads : x # t => pc'[x] = pc[x]
  BY <1>1, <1>2, Goes DEF IInv
<1>6. FreshAlone'
  <2>1. ~FirstOpen
    BY <1>2, WiperHasClosed
  <2>2. pg'.game = pg.game \/ ~pg'.game
    BY <1>1 DEF NoRows
  <2>3. QED BY <1>1, <1>2, <2>1, <2>2, CloseKeepsAlone
<1>7. RecordedIsOver'
  BY <1>1 DEF IInv, RecordedIsOver, NoRows
<1>8. StartRow'
  <2> SUFFICES ASSUME NEW r \in Rooms, pc'[r] \in {"start_redis", "start_set"}, ~room'[r].closed
               PROVE  FALSE
    BY DEF StartRow
  <2>1. pc[r] \in {"start_redis", "start_set"} /\ ~room[r].closed
    BY <1>1, <1>2, <1>5, ThreadsAre
  <2>2. FirstOpen
    BY <2>1, StarterIsOpen
  <2>3. QED BY <1>2, <2>2, WiperHasClosed
<1>9. RowsInv'
  <2>1. \A x \in Threads : pc'[x] = "finish_tx" => pc[x] = "finish_tx"
    BY <1>1, <1>5
  <2>2. QED BY <1>1, <1>2, <2>1 DEF IInv, RowsInv, NoRows
<1>10. QED BY <1>3, <1>4, <1>6, <1>7, <1>8, <1>9 DEF IInv

LEMMA DropRedisInv ==
  ASSUME IInv, NEW t \in Threads, DropRedis(t)
  PROVE  IInv'
<1>1. /\ Go(t, "idle") /\ pc[t] = "drop_redis" /\ "idle" \in Places
      /\ redis' \in {redis, Emptied}
      /\ UNCHANGED <<hub, room, load, pg, age, crashes>>
  BY DEF DropRedis, Places
<1>2. /\ \A r \in Rooms : RoomInv(r)'
      /\ CollectorInv' /\ ClosingInv' /\ HubRoomOpenOrEnded' /\ InLimit' /\ FirstMapped'
      /\ pc' \in [Threads -> Places] /\ garbage' \in Rooms \cup {NoRoom}
  BY <1>1, CloseGoesOn DEF Late, After
<1>3. TypeOK'
  BY <1>1, <1>2, StoresEmptyTypes DEF IInv, TypeOK, Places
<1>4. pc'[t] = "idle" /\ \A x \in Threads : x # t => pc'[x] = pc[x]
  BY <1>1, Goes DEF IInv
<1>5. FreshAlone' /\ RecordedIsOver'
  <2>1. redis'.game => redis.game
    BY <1>1 DEF Emptied
  <2>2. FreshAlone'
    BY <1>1, <2>1, CloseKeepsAlone
  <2>3. QED BY <1>1, <2>2 DEF IInv, RecordedIsOver
<1>6. StartRow'
  BY <1>1, <1>4, ThreadsAre DEF IInv, StartRow
<1>7. RowsInv'
  BY <1>1, <1>4 DEF IInv, RowsInv
<1>8. QED BY <1>2, <1>3, <1>5, <1>6, <1>7 DEF IInv

-----------------------------------------------------------------------------
(* Steps of Close that write the room, and the sweep before it.            *)

LEMMA CloseFlagsInv ==
  ASSUME IInv, NEW t \in Threads, CloseFlags(t)
  PROVE  IInv'
<1> DEFINE q == Target(t)
           new == [room[q] EXCEPT !.closed = TRUE, !.active = FALSE]
<1>1. /\ pc[t] = "flags" /\ Go(t, "decide") /\ "decide" \in Places
      /\ room' = [room EXCEPT ![q] = new]
      /\ UNCHANGED <<hub, load, redis, pg, age, crashes>>
  BY DEF CloseFlags, Deactivated, Places
<1>2. q \in Rooms /\ room[q].life # "unmade" /\ room[q] \in RoomRecord
  BY <1>1, TargetIsRoom, FieldTypes DEF IInv
<1>3. /\ new \in RoomRecord
      /\ new = [room[q] EXCEPT !.closed = TRUE, !.active = FALSE]
  BY <1>2 DEF RoomRecord
<1>4. /\ new.life = room[q].life /\ new.known = room[q].known /\ new.started = room[q].started
      /\ new.ended = room[q].ended /\ new.finished = room[q].finished
      /\ new.joined = room[q].joined /\ new.guesses = room[q].guesses
      /\ new.adding = room[q].adding /\ new.closed /\ ~new.active
  BY <1>2 DEF RoomRecord
<1> HIDE DEF new
<1>5. /\ room' \in [Rooms -> RoomRecord]
      /\ room'[q] = new
      /\ \A x \in Rooms : x # q => room'[x] = room[x]
  BY <1>1, <1>2, <1>3, OneRoom DEF IInv
<1>6. /\ pc' \in [Threads -> Places]
      /\ pc'[t] = "decide"
      /\ \A x \in Threads : x # t => pc'[x] = pc[x]
      /\ garbage' = garbage
  BY <1>1, Goes DEF IInv, Go
<1>7. t \in Rooms => q = t
  BY ThreadsAre
<1> HIDE DEF q
<1>8. TypeOK'
  BY <1>1, <1>5, <1>6 DEF IInv, TypeOK, Places
<1>9. \A r \in Rooms : RoomInv(r)'
  <2> TAKE r \in Rooms
  <2>1. r \in Threads /\ RoomInv(r)
    BY ThreadsAre DEF IInv
  <2>2. \/ pc'[r] = pc[r]
        \/ pc[r] = "flags" /\ pc'[r] = "decide"
    BY <1>1, <1>6, <2>1
  <2>3. CASE r # q
    <3>1. room'[r] = room[r]
      BY <1>5, <2>3
    <3>2. pc'[r] = pc[r]
      BY <1>6, <1>7, <2>1, <2>3
    <3>3. QED BY <2>1, <3>1, <3>2, RoomInvKept
  <2>4. CASE r = q
    <3>1. RunStands(r)'
      BY <1>4, <1>5, <2>1, <2>2, <2>4 DEF RoomInv, RunStands, Late
    <3>2. FlagsAgree(r)' /\ Origin(r)'
      BY <1>2, <1>4, <1>5, <2>1, <2>4 DEF RoomInv, FlagsAgree, Origin
    <3>3. Counts(r)'
      BY <1>4, <1>5, <2>1, <2>4 DEF RoomInv, Counts, EndedIn
    <3>4. QED BY <3>1, <3>2, <3>3 DEF RoomInv
  <2>5. QED BY <2>3, <2>4
<1>10. \A x \in Rooms : /\ room'[x].life = room[x].life /\ room'[x].started = room[x].started
                        /\ room'[x].ended = room[x].ended /\ room'[x].joined = room[x].joined
                        /\ room'[x].guesses = room[x].guesses
                        /\ room[x].closed => room'[x].closed
  BY <1>4, <1>5
<1>11. CollectorInv'
  BY <1>1, <1>6, <1>10, ThreadsAre DEF IInv, TypeOK, CollectorInv, Handling
<1>12. ClosingInv'
  <2> SUFFICES ASSUME NEW x \in Threads
               PROVE  ClosesWell(x)'
    BY DEF ClosingInv, Threads
  <2>1. Target(x)' = Target(x)
    BY <1>6 DEF Target
  <2>2. CASE x = t
    BY <1>4, <1>5, <1>6, <2>1, <2>2 DEF ClosesWell, q
  <2>3. CASE x # t /\ pc[x] \in Late
    <3>1. Target(x) \in Rooms
      BY <2>3, TargetIsRoom DEF Late
    <3>2. QED BY <1>6, <1>10, <2>1, <2>3, <3>1 DEF IInv, ClosingInv, ClosesWell
  <2>4. CASE x # t /\ pc[x] \notin Late
    BY <1>6, <2>4 DEF ClosesWell, Late
  <2>5. QED BY <2>2, <2>3, <2>4
<1>13. HubRoomOpenOrEnded'
  <2>1. CASE hub # q
    BY <1>1, <1>5, <1>10, <2>1 DEF IInv, TypeOK, HubRoomOpenOrEnded
  <2>2. CASE hub = q
    <3>1. t \in Rooms
      BY <1>1, <2>2, ThreadsAre DEF IInv, CollectorInv, Threads, q
    <3>2. room[t].ended
      BY <1>1, <3>1 DEF IInv, RoomInv, RunStands
    <3>3. QED BY <1>1, <1>2, <1>7, <1>10, <2>2, <3>1, <3>2 DEF HubRoomOpenOrEnded
  <2>3. QED BY <2>1, <2>2
<1>14. FreshAlone' /\ FirstMapped'
  <2>1. FirstOpen' => FirstOpen /\ q # First
    BY <1>4, <1>5, <1>10 DEF FirstOpen
  <2>2. pc'[First] = "start_commit" => pc[First] = "start_commit"
    BY <1>6, ThreadsAre
  <2>3. OthersUnmade => OthersUnmade'
    BY <1>1, <1>10 DEF OthersUnmade
  <2>4. FreshAlone'
    BY <1>1, <2>1, <2>2, <2>3 DEF IInv, FreshAlone, RowToCome
  <2>5. FirstMapped'
    <3>1. garbage = First /\ pc[Collector] \in {"close", "flags"} /\ q # First
            => garbage' = First /\ pc'[Collector] \in {"close", "flags"}
      BY <1>6, ThreadsAre DEF q
    <3>2. QED BY <1>1, <2>1, <2>3, <3>1 DEF IInv, FirstMapped
  <2>6. QED BY <2>4, <2>5
<1>15. StartRow'
  BY <1>1, <1>6, <1>10, ThreadsAre DEF IInv, StartRow
<1>16. RowsInv'
  <2>1. \A x \in Threads : pc'[x] = "finish_tx" => pc[x] = "finish_tx"
    BY <1>6
  <2>2. QED BY <1>1, <1>10, <2>1 DEF IInv, RowsInv
<1>17. RecordedIsOver' /\ InLimit'
  BY <1>1, <1>10 DEF IInv, RecordedIsOver, InLimit
<1>18. QED BY <1>8, <1>9, <1>11, <1>12, <1>13, <1>14, <1>15, <1>16, <1>17 DEF IInv

LEMMA CloseDecideInv ==
  ASSUME IInv, NEW t \in Threads, CloseDecide(t)
  PROVE  IInv'
<1> DEFINE q == Target(t)
           new == [room[q] EXCEPT !.deaf = TRUE]
           at == CASE ~room[q].started -> "idle"
                   [] room[q].started /\ room[q].ended -> "finish_row"
                   [] room[q].started /\ ~room[q].ended -> "wipe"
<1>1. /\ pc[t] = "decide" /\ Go(t, at)
      /\ room' = [room EXCEPT ![q] = new]
      /\ UNCHANGED <<hub, load, redis, pg, age, crashes>>
  BY DEF CloseDecide
<1>2. q \in Rooms /\ room[q].life # "unmade" /\ room[q] \in RoomRecord /\ room[q].closed
  BY <1>1, TargetIsRoom, FieldTypes DEF IInv, ClosingInv, ClosesWell, Late
<1>3. /\ at \in {"idle", "finish_row", "wipe"} /\ at \in Places
      /\ at = "finish_row" => room[q].started /\ room[q].ended
  BY <1>2 DEF Places, RoomRecord
<1>4. /\ new \in RoomRecord
      /\ new.life = room[q].life /\ new.known = room[q].known /\ new.started = room[q].started
      /\ new.ended = room[q].ended /\ new.finished = room[q].finished
      /\ new.joined = room[q].joined /\ new.guesses = room[q].guesses
      /\ new.adding = room[q].adding /\ new.closed = room[q].closed /\ new.active = room[q].active
  BY <1>2 DEF RoomRecord
<1> HIDE DEF new, at
<1>5. /\ room' \in [Rooms -> RoomRecord]
      /\ room'[q] = new
      /\ \A x \in Rooms : x # q => room'[x] = room[x]
  BY <1>1, <1>2, <1>4, OneRoom DEF IInv
<1>6. /\ pc' \in [Threads -> Places]
      /\ pc'[t] = at
      /\ \A x \in Threads : x # t => pc'[x] = pc[x]
      /\ garbage' = IF t = Collector /\ at = "idle" THEN NoRoom ELSE garbage
      /\ garbage' \in Rooms \cup {NoRoom}
  BY <1>1, <1>3, Goes DEF IInv
<1>7. \A x \in Rooms : /\ room'[x].life = room[x].life /\ room'[x].known = room[x].known
                       /\ room'[x].started = room[x].started /\ room'[x].ended = room[x].ended
                       /\ room'[x].finished = room[x].finished /\ room'[x].joined = room[x].joined
                       /\ room'[x].guesses = room[x].guesses /\ room'[x].adding = room[x].adding
                       /\ room'[x].closed = room[x].closed /\ room'[x].active = room[x].active
                       /\ room[x].life = "unmade" => room'[x] = room[x]
  BY <1>2, <1>4, <1>5
<1> HIDE DEF q
<1>8. TypeOK'
  BY <1>1, <1>5, <1>6 DEF IInv, TypeOK, Places
<1>9. \A r \in Rooms : RoomInv(r)'
  <2> TAKE r \in Rooms
  <2>1. r \in Threads /\ RoomInv(r)
    BY ThreadsAre DEF IInv
  <2>2. \/ pc'[r] = pc[r]
        \/ pc[r] = "decide" /\ pc'[r] \in {"idle", "finish_row", "wipe"}
    BY <1>1, <1>3, <1>6, <2>1
  <2>7. pc'[r] = "wipe" => pc[r] = "wipe"
    <3>1. CASE r = t
      <4>1. q = r /\ room[q].ended /\ room[q].started
        BY <1>1, <2>1, <3>1, ThreadsAre DEF RoomInv, RunStands, FlagsAgree, q
      <4>2. QED BY <1>6, <3>1, <4>1 DEF at
    <3>2. CASE r # t
      BY <1>6, <2>1, <3>2
    <3>3. QED BY <3>1, <3>2
  <2>3. RunStands(r)'
    BY <1>7, <2>1, <2>2, <2>7 DEF RoomInv, RunStands
  <2>4. FlagsAgree(r)' /\ Origin(r)'
    BY <1>7, <2>1 DEF RoomInv, FlagsAgree, Origin
  <2>5. Counts(r)'
    BY <1>7, <2>1 DEF RoomInv, Counts, EndedIn
  <2>6. QED BY <2>3, <2>4, <2>5 DEF RoomInv
<1>10. CollectorInv'
  BY <1>1, <1>3, <1>6, <1>7, ThreadsAre DEF IInv, TypeOK, CollectorInv, Handling
<1>11. ClosingInv'
  <2> SUFFICES ASSUME NEW x \in Threads
               PROVE  ClosesWell(x)'
    BY DEF ClosingInv, Threads
  <2>1. pc'[x] \in Late => Target(x)' = Target(x)
    BY <1>6 DEF Target, Late, Threads
  <2>2. CASE pc'[x] \in Late
    <3>1. pc[x] \in Late
      BY <1>1, <1>6, <2>2 DEF Late
    <3>2. Target(x) \in Rooms
      BY <3>1, TargetIsRoom DEF Late
    <3>3. ClosesWell(x)
      BY DEF IInv, ClosingInv
    <3>4. room'[Target(x)].closed
      BY <1>7, <3>1, <3>2, <3>3 DEF ClosesWell
    <3>5. pc'[x] \in {"finish_row", "finish_tx", "drop_room"}
            => room'[Target(x)].started /\ room'[Target(x)].ended
      BY <1>3, <1>6, <1>7, <3>2, <3>3 DEF ClosesWell, q
    <3>6. QED BY <2>1, <2>2, <3>4, <3>5 DEF ClosesWell
  <2>3. CASE pc'[x] \notin Late
    BY <2>3 DEF ClosesWell, Late
  <2>4. QED BY <2>2, <2>3
<1>12. HubRoomOpenOrEnded'
  BY <1>1, <1>7 DEF IInv, TypeOK, HubRoomOpenOrEnded
<1>13. FreshAlone' /\ FirstMapped'
  <2>1. FirstOpen' => FirstOpen /\ q # First
    BY <1>2, <1>7 DEF FirstOpen
  <2>2. pc'[First] = "start_commit" => pc[First] = "start_commit"
    BY <1>3, <1>6, ThreadsAre
  <2>3. OthersUnmade => OthersUnmade'
    BY <1>1, <1>7 DEF OthersUnmade
  <2>4. FreshAlone'
    BY <1>1, <2>1, <2>2, <2>3 DEF IInv, FreshAlone, RowToCome
  <2>5. FirstMapped'
    <3>1. garbage = First /\ pc[Collector] \in {"close", "flags"}
            => garbage' = First /\ pc'[Collector] \in {"close", "flags"}
      BY <1>1, <1>6, ThreadsAre
    <3>2. QED BY <1>1, <2>1, <2>3, <3>1 DEF IInv, FirstMapped
  <2>6. QED BY <2>4, <2>5
<1>14. StartRow'
  BY <1>1, <1>3, <1>6, <1>7, ThreadsAre DEF IInv, StartRow
<1>15. RowsInv'
  <2>1. \A x \in Threads : pc'[x] = "finish_tx" => pc[x] = "finish_tx"
    BY <1>3, <1>6
  <2>2. QED BY <1>1, <1>7, <2>1 DEF IInv, RowsInv
<1>16. RecordedIsOver' /\ InLimit'
  BY <1>1, <1>7 DEF IInv, RecordedIsOver, InLimit
<1>17. QED BY <1>8, <1>9, <1>10, <1>11, <1>12, <1>13, <1>14, <1>15, <1>16 DEF IInv

LEMMA SweepInv ==
  ASSUME IInv, Sweep
  PROVE  IInv'
<1>1. /\ garbage # NoRoom /\ pc[Collector] = "idle" /\ hub' = NoRoom
      /\ pc' = [pc EXCEPT ![Collector] = "close"]
      /\ UNCHANGED <<room, garbage, load, redis, pg, age, crashes>>
  BY DEF Sweep, Swept
<1>2. /\ pc' \in [Threads -> Places]
      /\ pc'[Collector] = "close"
      /\ \A x \in Threads : x # Collector => pc'[x] = pc[x]
  BY <1>1, OnePlace, ThreadsAre DEF IInv, Places
<1>3. TypeOK'
  BY <1>1, <1>2 DEF IInv, TypeOK, Places
<1>4. \A r \in Rooms : RoomInv(r)'
  <2> TAKE r \in Rooms
  <2>1. RoomInv(r) /\ room'[r] = room[r] /\ pc'[r] = pc[r]
    BY <1>1, <1>2, ThreadsAre DEF IInv
  <2>2. QED BY <2>1, RoomInvKept
<1>5. CollectorInv'
  BY <1>1, <1>2 DEF IInv, TypeOK, CollectorInv, Handling
<1>6. ClosingInv'
  <2> SUFFICES ASSUME NEW x \in Threads
               PROVE  ClosesWell(x)'
    BY DEF ClosingInv, Threads
  <2>1. Target(x)' = Target(x)
    BY <1>1 DEF Target
  <2>2. QED BY <1>1, <1>2, <2>1 DEF IInv, ClosingInv, ClosesWell, Late
<1>7. HubRoomOpenOrEnded' /\ RecordedIsOver' /\ InLimit'
  BY <1>1 DEF IInv, HubRoomOpenOrEnded, RecordedIsOver, InLimit
<1>11. FreshAlone'
  BY <1>1, <1>2, ThreadsAre DEF IInv, FreshAlone, RowToCome, FirstOpen, OthersUnmade
<1>12. FirstMapped'
  <2> SUFFICES ASSUME FirstOpen
               PROVE  garbage = First
    BY <1>1, <1>2 DEF FirstMapped, FirstOpen
  <2>1. OthersUnmade
    BY <1>1 DEF IInv, FirstMapped
  <2>2. QED BY <1>1, <2>1 DEF IInv, TypeOK, CollectorInv, OthersUnmade
<1>8. StartRow'
  BY <1>1, <1>2, ThreadsAre DEF IInv, StartRow
<1>9. RowsInv'
  BY <1>1, <1>2 DEF IInv, RowsInv
<1>10. QED BY <1>3, <1>4, <1>5, <1>6, <1>7, <1>8, <1>9, <1>11, <1>12 DEF IInv

-----------------------------------------------------------------------------
(* Steps of the run goroutine of a room.                                   *)

(* What such a step owes, once its own room has been seen to.              *)
LEMMA RunStep ==
  ASSUME IInv, NEW r \in Rooms, NEW new \in RoomRecord, NEW at \in Places,
         room' = [room EXCEPT ![r] = new], pc' = [pc EXCEPT ![r] = at],
         UNCHANGED <<hub, garbage, load>>,
         at \notin Late,
         room[r].life = "open", new.life \in {"open", "over"},
         new.closed = room[r].closed,
         room[r].started => new.started,
         room[r].ended => new.ended,
         RoomInv(r)'
  PROVE  /\ \A x \in Rooms : RoomInv(x)'
         /\ CollectorInv' /\ ClosingInv' /\ HubRoomOpenOrEnded' /\ FirstMapped'
         /\ FirstOpen' => FirstOpen
         /\ OthersUnmade => OthersUnmade'
         /\ room' \in [Rooms -> RoomRecord]
         /\ room'[r] = new
         /\ \A x \in Rooms : x # r => room'[x] = room[x]
         /\ pc' \in [Threads -> Places]
         /\ pc'[r] = at
         /\ \A x \in Threads : x # r => pc'[x] = pc[x]
<1>1. /\ room' \in [Rooms -> RoomRecord]
      /\ room'[r] = new
      /\ \A x \in Rooms : x # r => room'[x] = room[x]
  BY OneRoom DEF IInv
<1>2. /\ pc' \in [Threads -> Places]
      /\ pc'[r] = at
      /\ \A x \in Threads : x # r => pc'[x] = pc[x]
  BY OnePlace, ThreadsAre DEF IInv
<1>3. \A x \in Rooms : RoomInv(x)'
  <2> TAKE x \in Rooms
  <2>1. CASE x = r
    BY <2>1
  <2>2. CASE x # r
    <3>1. RoomInv(x) /\ room'[x] = room[x] /\ pc'[x] = pc[x]
      BY <1>1, <1>2, <2>2, ThreadsAre DEF IInv
    <3>2. QED BY <3>1, RoomInvKept
  <2>3. QED BY <2>1, <2>2
<1>4. \A x \in Rooms : /\ room'[x].life = "unmade" <=> room[x].life = "unmade"
                       /\ room'[x].life = "open" => room[x].life = "open"
                       /\ room'[x].closed = room[x].closed
                       /\ room[x].started => room'[x].started
                       /\ room[x].ended => room'[x].ended
  BY <1>1
<1>5. CollectorInv'
  BY <1>2, <1>4, ThreadsAre DEF IInv, TypeOK, CollectorInv
<1>6. ClosingInv'
  <2> SUFFICES ASSUME NEW x \in Threads
               PROVE  ClosesWell(x)'
    BY DEF ClosingInv, Threads
  <2>1. CASE pc'[x] \in Late
    <3>1. pc'[x] = pc[x] /\ Target(x)' = Target(x)
      BY <1>2, <2>1 DEF Target
    <3>2. Target(x) \in Rooms
      BY <2>1, <3>1, TargetIsRoom DEF Late
    <3>3. ClosesWell(x)
      BY DEF IInv, ClosingInv
    <3>4. QED BY <1>4, <3>1, <3>2, <3>3 DEF ClosesWell
  <2>2. CASE pc'[x] \notin Late
    BY <2>2 DEF ClosesWell, Late
  <2>3. QED BY <2>1, <2>2
<1>7. HubRoomOpenOrEnded'
  BY <1>4 DEF IInv, TypeOK, HubRoomOpenOrEnded
<1>8. (FirstOpen' => FirstOpen) /\ (OthersUnmade => OthersUnmade')
  BY <1>4 DEF FirstOpen, OthersUnmade
<1>9. FirstMapped'
  BY <1>2, <1>8, ThreadsAre DEF IInv, FirstMapped
<1>10. QED BY <1>1, <1>2, <1>3, <1>5, <1>6, <1>7, <1>8, <1>9

(* A room that listens knows the IDs of its players or is in play.         *)
LEMMA ListeningRoom ==
  ASSUME IInv, NEW r \in Rooms, Listening(r)
  PROVE  /\ room[r].life = "open" /\ pc[r] = "idle"
         /\ room[r] \in RoomRecord
         /\ RoomInv(r)
         /\ room[r].known => r = First
         /\ r # First => room[r].started
BY FieldTypes DEF IInv, RoomInv, Origin, Listening

LEMMA NotEndedYet == ~Ended(<<>>)
BY DEF Ended, Won

(* A step that leaves the rows and the guesses alone.                      *)
LEMMA QuietRun ==
  ASSUME IInv, NEW r \in Rooms, NEW new \in RoomRecord, NEW at \in Places,
         room' = [room EXCEPT ![r] = new], pc' = [pc EXCEPT ![r] = at],
         UNCHANGED <<hub, garbage, load, pg, age, crashes>>,
         redis' \in [game : BOOLEAN, players : SUBSET Players, lists : Lists],
         redis'.game = redis.game,
         at \notin Late, at # "start_redis",
         at = "start_commit" => r = First /\ ~room[r].closed /\ ~pg.game,
         at = "start_set" => pc[r] = "start_redis",
         room[r].life = "open", new.life \in {"open", "over"},
         new.closed = room[r].closed, new.ended = room[r].ended,
         room[r].started => new.started,
         room[r].joined \subseteq new.joined, new.guesses = room[r].guesses,
         RoomInv(r)'
  PROVE  IInv'
<1>1. /\ \A x \in Rooms : RoomInv(x)'
      /\ CollectorInv' /\ ClosingInv' /\ HubRoomOpenOrEnded' /\ FirstMapped'
      /\ FirstOpen' => FirstOpen
      /\ OthersUnmade => OthersUnmade'
      /\ room' \in [Rooms -> RoomRecord]
      /\ room'[r] = new
      /\ \A x \in Rooms : x # r => room'[x] = room[x]
      /\ pc' \in [Threads -> Places]
      /\ pc'[r] = at
      /\ \A x \in Threads : x # r => pc'[x] = pc[x]
  BY RunStep
<1>2. TypeOK'
  BY <1>1 DEF IInv, TypeOK, Places
<1>3. FreshAlone'
  <2>1. RowToCome' => RowToCome
    BY <1>1, ThreadsAre DEF RowToCome, FirstOpen
  <2>2. QED BY <1>1, <2>1 DEF IInv, FreshAlone
<1>4. StartRow'
  BY <1>1, ThreadsAre DEF IInv, StartRow
<1>5. RecordedIsOver' /\ InLimit'
  BY <1>1 DEF IInv, RecordedIsOver, InLimit
<1>6. RowsInv'
  <2>1. \A x \in Threads : pc'[x] = "finish_tx" => pc[x] = "finish_tx"
    BY <1>1 DEF Late
  <2>2. CASE r # First
    BY <1>1, <2>1, <2>2 DEF IInv, RowsInv
  <2>3. CASE r = First /\ room[r].started
    BY <1>1, <2>1, <2>3 DEF IInv, RowsInv
  <2>4. CASE r = First /\ ~room[r].started
    <3>1. pg.players = {} /\ pg.recorded = {}
      BY <2>4 DEF IInv, RowsInv
    <3>2. QED BY <1>1, <2>1, <2>4, <3>1 DEF IInv, RowsInv
  <2>5. QED BY <2>2, <2>3, <2>4, FieldTypes DEF IInv
<1>7. QED BY <1>1, <1>2, <1>3, <1>4, <1>5, <1>6 DEF IInv

LEMMA JoinInv ==
  ASSUME IInv, NEW r \in Rooms, NEW p \in Players, Join(r, p)
  PROVE  IInv'
<1> DEFINE new == [room[r] EXCEPT !.joined = @ \cup {p}]
<1>1. /\ Listening(r) /\ room[r].known /\ p \notin room[r].joined
      /\ room' = [room EXCEPT ![r] = new]
      /\ UNCHANGED <<hub, pc, garbage, load, redis, pg, age, crashes>>
  BY DEF Join
<1>2. /\ room[r].life = "open" /\ pc[r] = "idle" /\ room[r] \in RoomRecord
      /\ RoomInv(r) /\ r = First
  BY <1>1, ListeningRoom
<1>3. /\ new \in RoomRecord
      /\ new.life = room[r].life /\ new.known = room[r].known /\ new.started = room[r].started
      /\ new.active = room[r].active /\ new.closed = room[r].closed /\ new.ended = room[r].ended
      /\ new.finished = room[r].finished /\ new.guesses = room[r].guesses
      /\ new.joined = room[r].joined \cup {p}
  BY <1>2 DEF RoomRecord
<1> HIDE DEF new
<1>4. room'[r] = new /\ \A x \in Rooms : x # r => room'[x] = room[x]
  BY <1>1, <1>3, OneRoom DEF IInv
<1>5. pc' = [pc EXCEPT ![r] = "idle"] /\ "idle" \in Places /\ "idle" \notin Late
  BY <1>1, <1>2, ThreadsAre DEF IInv, TypeOK, Places, Late
<1>6. RoomInv(r)'
  <2>1. RunStands(r)' /\ FlagsAgree(r)' /\ Origin(r)'
    BY <1>1, <1>2, <1>3, <1>4 DEF RoomInv, RunStands, FlagsAgree, Origin
  <2>2. room[r].guesses[p] = <<>>
    BY <1>1, <1>2 DEF RoomInv, Counts
  <2>3. EndedIn(r)' = EndedIn(r)
    BY <1>3, <1>4, <2>2, NotEndedYet DEF EndedIn
  <2>4. Counts(r)'
    BY <1>2, <1>3, <1>4, <2>3 DEF RoomInv, Counts
  <2>5. QED BY <2>1, <2>4 DEF RoomInv
<1>7. redis \in [game : BOOLEAN, players : SUBSET Players, lists : Lists]
  BY DEF IInv, TypeOK
<1>8. QED BY <1>1, <1>2, <1>3, <1>5, <1>6, <1>7, QuietRun

LEMMA StartInv ==
  ASSUME IInv, NEW r \in Rooms, Start(r)
  PROVE  IInv'
<1> DEFINE new == [room[r] EXCEPT !.started = TRUE]
<1>1. /\ Listening(r) /\ ~room[r].active
      /\ room' = [room EXCEPT ![r] = new]
      /\ pc' = [pc EXCEPT ![r] = "start_pg"] /\ "start_pg" \in Places /\ "start_pg" \notin Late
      /\ UNCHANGED <<hub, garbage, load, redis, pg, age, crashes>>
  BY DEF Start, Places, Late
<1>2. /\ room[r].life = "open" /\ pc[r] = "idle" /\ room[r] \in RoomRecord
      /\ RoomInv(r)
      /\ r # First => room[r].started
  BY <1>1, ListeningRoom
<1>3. /\ new \in RoomRecord
      /\ new.life = room[r].life /\ new.known = room[r].known /\ new.started
      /\ new.active = room[r].active /\ new.closed = room[r].closed /\ new.ended = room[r].ended
      /\ new.finished = room[r].finished /\ new.guesses = room[r].guesses
      /\ new.joined = room[r].joined
  BY <1>2 DEF RoomRecord
<1> HIDE DEF new
<1>4. room'[r] = new /\ \A x \in Rooms : x # r => room'[x] = room[x]
  BY <1>1, <1>3, OneRoom DEF IInv
<1>5. pc'[r] = "start_pg" /\ \A x \in Threads : x # r => pc'[x] = pc[x]
  BY <1>1, OnePlace, ThreadsAre DEF IInv
<1>6. RoomInv(r)'
  <2>1. RunStands(r)'
    BY <1>1, <1>2, <1>3, <1>4, <1>5 DEF RunStands
  <2>2. FlagsAgree(r)' /\ Origin(r)'
    BY <1>2, <1>3, <1>4 DEF RoomInv, FlagsAgree, Origin
  <2>3. Counts(r)'
    BY <1>2, <1>3, <1>4 DEF RoomInv, Counts, EndedIn
  <2>4. QED BY <2>1, <2>2, <2>3 DEF RoomInv
<1>7. redis \in [game : BOOLEAN, players : SUBSET Players, lists : Lists]
  BY DEF IInv, TypeOK
<1>8. QED BY <1>1, <1>2, <1>3, <1>6, <1>7, QuietRun

(* A step that only moves the goroutine on.                                *)
LEMMA MoveInv ==
  ASSUME IInv, NEW r \in Rooms, NEW at \in Places, pc' = [pc EXCEPT ![r] = at],
         UNCHANGED <<hub, room, garbage, load, redis, pg, age, crashes>>,
         \/ pc[r] \in {"start_pg", "start_redis"} /\ at = "idle"
         \/ pc[r] = "start_pg" /\ at = "start_commit" /\ ~room[r].closed /\ ~pg.game
         \/ pc[r] = "start_redis" /\ at = "start_set"
         \/ pc[r] = "add_guess" /\ at = "add_push"
  PROVE  IInv'
<1>1. /\ room[r] \in RoomRecord /\ RoomInv(r) /\ room[r].life = "open"
      /\ room' = [room EXCEPT ![r] = room[r]]
      /\ redis \in [game : BOOLEAN, players : SUBSET Players, lists : Lists]
  BY FieldTypes DEF IInv, RoomInv, RunStands, TypeOK
<1>2. at \notin Late /\ at # "start_redis"
  BY DEF Late
<1>3. at = "start_commit" => r = First /\ ~room[r].closed /\ ~pg.game /\ ~room[r].ended
  <2> SUFFICES ASSUME at = "start_commit"
               PROVE  r = First /\ ~room[r].closed /\ ~pg.game /\ ~room[r].ended
    OBVIOUS
  <2>1. pc[r] = "start_pg" /\ ~room[r].closed /\ ~pg.game
    OBVIOUS
  <2>2. r = First
    BY <2>1, StarterIsOpen
  <2>3. ~room[r].ended
    BY <1>1, <2>1 DEF RoomInv, RunStands, FlagsAgree
  <2>4. QED BY <2>1, <2>2, <2>3
<1>4. pc'[r] = at
  BY OnePlace, ThreadsAre DEF IInv
<1>5. RoomInv(r)'
  <2>1. RunStands(r)'
    BY <1>1, <1>3, <1>4 DEF RoomInv, RunStands
  <2>2. FlagsAgree(r)' /\ Origin(r)' /\ Counts(r)'
    BY <1>1 DEF RoomInv, FlagsAgree, Origin, Counts, EndedIn
  <2>3. QED BY <2>1, <2>2 DEF RoomInv
<1>6. at = "start_set" => pc[r] = "start_redis"
  OBVIOUS
<1>7. QED BY <1>1, <1>2, <1>3, <1>5, <1>6, QuietRun

LEMMA StartPgInv ==
  ASSUME IInv, NEW r \in Rooms, StartPg(r)
  PROVE  IInv'
<1>1. PICK at \in {"start_commit", "idle"} :
        /\ pc' = [pc EXCEPT ![r] = at]
        /\ at = "start_commit" => ~room[r].closed /\ ~pg.game
  BY DEF StartPg, Uncancelled
<1>2. /\ pc[r] = "start_pg" /\ at \in Places
      /\ UNCHANGED <<hub, room, garbage, load, redis, pg, age, crashes>>
  BY <1>1 DEF StartPg, Places
<1>3. QED BY <1>1, <1>2, MoveInv

LEMMA CommitInv ==
  ASSUME IInv, NEW r \in Rooms, Commit(r)
  PROVE  IInv'
<1>1. PICK at \in {"start_redis", "idle"} :
        /\ pc' = [pc EXCEPT ![r] = at]
        /\ \/ pg' = [NoRows EXCEPT !.game = TRUE, !.players = room[r].joined]
           \/ pg' = pg /\ at = "idle"
  BY DEF Commit, RowFailed
<1>2. /\ pc[r] = "start_commit" /\ at \in Places /\ at \notin Late
      /\ UNCHANGED <<hub, room, garbage, load, redis, age, crashes>>
  BY <1>1 DEF Commit, Places, Late
<1>3. /\ room[r] \in RoomRecord /\ RoomInv(r) /\ r = First
      /\ room[r].life = "open" /\ room[r].started /\ ~room[r].active /\ ~room[r].ended
  BY <1>2, FieldTypes DEF IInv, RoomInv, RunStands
<1>4. room' = [room EXCEPT ![r] = room[r]]
  BY <1>2 DEF IInv, TypeOK
<1>5. pc'[r] = at
  BY <1>1, <1>2, OnePlace, ThreadsAre DEF IInv
<1>6. RoomInv(r)'
  <2>1. RunStands(r)'
    BY <1>2, <1>3, <1>5 DEF RunStands
  <2>2. FlagsAgree(r)' /\ Origin(r)' /\ Counts(r)'
    BY <1>2, <1>3 DEF RoomInv, FlagsAgree, Origin, Counts, EndedIn
  <2>3. QED BY <2>1, <2>2 DEF RoomInv
<1>7. /\ \A x \in Rooms : RoomInv(x)'
      /\ CollectorInv' /\ ClosingInv' /\ HubRoomOpenOrEnded' /\ FirstMapped'
      /\ OthersUnmade => OthersUnmade'
      /\ pc' \in [Threads -> Places]
      /\ \A x \in Threads : x # r => pc'[x] = pc[x]
  BY <1>1, <1>2, <1>3, <1>4, <1>6, RunStep
<1>8. ~pg.game /\ ~redis.game /\ OthersUnmade
  BY <1>2, <1>3 DEF IInv, FreshAlone, RowToCome
<1>9. FreshAlone'
  <2>1. RowToCome' => ~pg'.game
    BY <1>3, <1>5 DEF RowToCome
  <2>2. QED BY <1>2, <1>7, <1>8, <2>1 DEF FreshAlone
<1>10. InLimit'
  BY <1>2 DEF IInv, InLimit
<1>11. CASE pg' = pg /\ at = "idle"
  <2>1. TypeOK'
    BY <1>2, <1>7, <1>11 DEF IInv, TypeOK, Places
  <2>2. RecordedIsOver' /\ RowsInv'
    BY <1>2, <1>5, <1>7, <1>11 DEF IInv, RecordedIsOver, RowsInv
  <2>3. StartRow'
    BY <1>2, <1>5, <1>7, <1>11, ThreadsAre DEF IInv, StartRow
  <2>4. QED BY <1>7, <1>9, <1>10, <2>1, <2>2, <2>3 DEF IInv
<1>12. CASE pg' = [NoRows EXCEPT !.game = TRUE, !.players = room[r].joined]
  <2>1. /\ pg' \in [game : BOOLEAN, ended : BOOLEAN, players : SUBSET Players,
                    recorded : SUBSET Players, results : Lists]
        /\ pg'.game /\ pg'.players = room[First].joined /\ pg'.recorded = {}
    BY <1>3, <1>12, StoresEmptyTypes, FieldTypes DEF IInv, NoRows
  <2>2. TypeOK'
    BY <1>2, <1>7, <2>1 DEF IInv, TypeOK, Places
  <2>3. StartRow' /\ RecordedIsOver'
    BY <2>1 DEF StartRow, RecordedIsOver
  <2>4. \A x \in Threads : pc'[x] # "finish_tx"
    <3> SUFFICES ASSUME NEW x \in Threads, pc'[x] = "finish_tx"
                 PROVE  FALSE
      OBVIOUS
    <3>1. pc[x] = "finish_tx"
      BY <1>5, <1>7
    <3>2. Target(x) \in Rooms /\ room[Target(x)].life # "unmade" /\ room[Target(x)].ended
      BY <3>1, TargetIsRoom DEF IInv, ClosingInv, ClosesWell
    <3>3. QED BY <1>3, <1>8, <3>2 DEF OthersUnmade
  <2>5. RowsInv'
    BY <1>2, <1>3, <2>1, <2>4 DEF RowsInv
  <2>6. QED BY <1>7, <1>9, <1>10, <2>2, <2>3, <2>5 DEF IInv
<1>13. QED BY <1>1, <1>11, <1>12

LEMMA StartRedisInv ==
  ASSUME IInv, NEW r \in Rooms, StartRedis(r)
  PROVE  IInv' /\ (pc'[r] = "start_set" => pg.game)
<1>1. PICK at \in {"start_set", "idle"} :
        /\ pc' = [pc EXCEPT ![r] = at]
        /\ at = "start_set" => ~room[r].closed
  BY DEF StartRedis, Uncancelled
<1>2. /\ pc[r] = "start_redis" /\ at \in Places
      /\ UNCHANGED <<hub, room, garbage, load, redis, pg, age, crashes>>
  BY <1>1 DEF StartRedis, Places
<1>3. IInv'
  BY <1>1, <1>2, MoveInv
<1>4. pc'[r] = at
  BY <1>1, <1>2, OnePlace, ThreadsAre DEF IInv
<1>5. QED BY <1>1, <1>2, <1>3, <1>4 DEF IInv, StartRow

LEMMA SetKeyInv ==
  ASSUME IInv, NEW r \in Rooms, SetKey(r)
  PROVE  IInv'
<1>1. PICK heard \in BOOLEAN :
        /\ redis' \in {redis, [redis EXCEPT !.game = TRUE, !.players = room[r].joined]}
        /\ heard => room' = [room EXCEPT ![r].active = TRUE]
        /\ ~heard => room' = room
  BY DEF SetKey
<1> DEFINE new == IF heard THEN [room[r] EXCEPT !.active = TRUE] ELSE room[r]
<1>2. /\ pc[r] = "start_set" /\ pc' = [pc EXCEPT ![r] = "idle"]
      /\ "idle" \in Places /\ "idle" \notin Late
      /\ UNCHANGED <<hub, garbage, load, pg, age, crashes>>
      /\ room' = [room EXCEPT ![r] = new]
  BY <1>1 DEF SetKey, Places, Late, IInv, TypeOK
<1>3. /\ room[r] \in RoomRecord /\ RoomInv(r) /\ r = First
      /\ room[r].life = "open" /\ room[r].started
  BY <1>2, FieldTypes DEF IInv, RoomInv, RunStands
<1>4. ~RowToCome
  <2>1. FirstOpen => pg.game
    BY <1>2, <1>3 DEF IInv, StartRow, FirstOpen
  <2>2. QED BY <1>2, <1>3, <2>1 DEF RowToCome
<1>5. /\ new \in RoomRecord
      /\ new.life = room[r].life /\ new.known = room[r].known /\ new.started = room[r].started
      /\ new.closed = room[r].closed /\ new.ended = room[r].ended
      /\ new.finished = room[r].finished /\ new.guesses = room[r].guesses
      /\ new.joined = room[r].joined
      /\ room[r].active => new.active
  BY <1>3 DEF RoomRecord
<1> HIDE DEF new
<1>6. room'[r] = new /\ \A x \in Rooms : x # r => room'[x] = room[x]
  BY <1>2, <1>5, OneRoom DEF IInv
<1>7. pc'[r] = "idle" /\ \A x \in Threads : x # r => pc'[x] = pc[x]
  BY <1>2, OnePlace, ThreadsAre DEF IInv
<1>8. RoomInv(r)'
  <2>1. RunStands(r)'
    BY <1>3, <1>5, <1>6, <1>7 DEF RunStands
  <2>2. FlagsAgree(r)' /\ Origin(r)'
    BY <1>3, <1>5, <1>6 DEF RoomInv, FlagsAgree, Origin
  <2>3. Counts(r)'
    BY <1>3, <1>5, <1>6 DEF RoomInv, Counts, EndedIn
  <2>4. QED BY <2>1, <2>2, <2>3 DEF RoomInv
<1>9. /\ \A x \in Rooms : RoomInv(x)'
      /\ CollectorInv' /\ ClosingInv' /\ HubRoomOpenOrEnded' /\ FirstMapped'
      /\ FirstOpen' => FirstOpen
      /\ room' \in [Rooms -> RoomRecord] /\ pc' \in [Threads -> Places]
  BY <1>2, <1>3, <1>5, <1>8, RunStep
<1>10. redis' \in [game : BOOLEAN, players : SUBSET Players, lists : Lists]
  BY <1>1, FieldTypes DEF IInv, TypeOK
<1>11. TypeOK'
  BY <1>2, <1>9, <1>10 DEF IInv, TypeOK, Places
<1>12. FreshAlone'
  BY <1>2, <1>3, <1>4, <1>7, <1>9 DEF FreshAlone, RowToCome
<1>13. RecordedIsOver' /\ InLimit'
  BY <1>2, <1>5, <1>6 DEF IInv, RecordedIsOver, InLimit
<1>14. StartRow'
  BY <1>2, <1>6, <1>7, ThreadsAre DEF IInv, StartRow
<1>15. RowsInv'
  <2>1. \A x \in Threads : pc'[x] = "finish_tx" => pc[x] = "finish_tx"
    BY <1>7
  <2>2. QED BY <1>2, <1>5, <1>6, <2>1 DEF IInv, RowsInv
<1>16. QED BY <1>9, <1>11, <1>12, <1>13, <1>14, <1>15 DEF IInv

LEMMA CheckInv ==
  ASSUME IInv, NEW r \in Rooms, NEW p \in Players, Check(r, p)
  PROVE  IInv'
<1> DEFINE new == [room[r] EXCEPT !.adding = p]
<1>1. /\ Listening(r) /\ room[r].active /\ p \in room[r].joined /\ CanPlay(room[r].guesses[p])
      /\ room' = [room EXCEPT ![r] = new]
      /\ pc' = [pc EXCEPT ![r] = "play"] /\ "play" \in Places /\ "play" \notin Late
      /\ UNCHANGED <<hub, garbage, load, redis, pg, age, crashes>>
  BY DEF Check, Places, Late
<1>2. /\ room[r].life = "open" /\ room[r] \in RoomRecord /\ RoomInv(r) /\ room[r].started
  BY <1>1, ListeningRoom DEF RoomInv, FlagsAgree
<1>3. /\ new \in RoomRecord
      /\ new.life = room[r].life /\ new.known = room[r].known /\ new.started = room[r].started
      /\ new.active = room[r].active /\ new.closed = room[r].closed /\ new.ended = room[r].ended
      /\ new.finished = room[r].finished /\ new.guesses = room[r].guesses
      /\ new.joined = room[r].joined /\ new.adding = p
  BY <1>2 DEF RoomRecord
<1> HIDE DEF new
<1>4. room'[r] = new /\ \A x \in Rooms : x # r => room'[x] = room[x]
  BY <1>1, <1>3, OneRoom DEF IInv
<1>5. pc'[r] = "play"
  BY <1>1, OnePlace, ThreadsAre DEF IInv
<1>6. RoomInv(r)'
  <2>1. RunStands(r)'
    BY <1>1, <1>2, <1>3, <1>4, <1>5 DEF RunStands
  <2>2. FlagsAgree(r)' /\ Origin(r)'
    BY <1>2, <1>3, <1>4 DEF RoomInv, FlagsAgree, Origin
  <2>3. Counts(r)'
    BY <1>2, <1>3, <1>4 DEF RoomInv, Counts, EndedIn
  <2>4. QED BY <2>1, <2>2, <2>3 DEF RoomInv
<1>7. redis \in [game : BOOLEAN, players : SUBSET Players, lists : Lists]
  BY DEF IInv, TypeOK
<1>8. QED BY <1>1, <1>2, <1>3, <1>6, <1>7, QuietRun

(* The guess is stored, or not.                                            *)
LEMMA StoredInv ==
  ASSUME IInv, NEW r \in Rooms, pc[r] \in {"add_guess", "add_push"}, Stored(r),
         UNCHANGED <<hub, garbage, load, pg, age, crashes>>,
         redis' \in [game : BOOLEAN, players : SUBSET Players, lists : Lists],
         redis'.game = redis.game
  PROVE  IInv'
<1> DEFINE new == [room[r] EXCEPT !.adding = Nobody]
           at == IF room[r].ended THEN "close" ELSE "idle"
<1>1. /\ pc' = [pc EXCEPT ![r] = at] /\ room' = [room EXCEPT ![r] = new]
      /\ at \in Places /\ at \notin Late
  BY DEF Stored, Places, Late
<1>2. /\ room[r] \in RoomRecord /\ RoomInv(r) /\ room[r].life = "open"
  BY FieldTypes DEF IInv, RoomInv, RunStands
<1>3. /\ new \in RoomRecord
      /\ new.life = room[r].life /\ new.known = room[r].known /\ new.started = room[r].started
      /\ new.closed = room[r].closed /\ new.ended = room[r].ended /\ new.active = room[r].active
      /\ new.finished = room[r].finished /\ new.guesses = room[r].guesses
      /\ new.joined = room[r].joined
  BY <1>2 DEF RoomRecord
<1>4. /\ at \in {"close", "idle"}
      /\ at = "close" => room[r].ended
  OBVIOUS
<1> HIDE DEF new, at
<1>5. room'[r] = new /\ \A x \in Rooms : x # r => room'[x] = room[x]
  BY <1>1, <1>3, OneRoom DEF IInv
<1>6. pc'[r] = at
  BY <1>1, OnePlace, ThreadsAre DEF IInv
<1>7. RoomInv(r)'
  <2>1. RunStands(r)'
    BY <1>2, <1>3, <1>4, <1>5, <1>6 DEF RunStands
  <2>2. FlagsAgree(r)' /\ Origin(r)'
    BY <1>2, <1>3, <1>5 DEF RoomInv, FlagsAgree, Origin
  <2>3. Counts(r)'
    BY <1>2, <1>3, <1>5 DEF RoomInv, Counts, EndedIn
  <2>4. QED BY <2>1, <2>2, <2>3 DEF RoomInv
<1>8. QED BY <1>1, <1>2, <1>3, <1>4, <1>7, QuietRun

LEMMA AddGuessInv ==
  ASSUME IInv, NEW r \in Rooms, AddGuess(r)
  PROVE  IInv'
<1>1. /\ pc[r] = "add_guess" /\ "add_push" \in Places
      /\ UNCHANGED <<hub, garbage, load, redis, pg, age, crashes>>
      /\ redis \in [game : BOOLEAN, players : SUBSET Players, lists : Lists]
  BY DEF AddGuess, Places, IInv, TypeOK
<1>2. CASE pc' = [pc EXCEPT ![r] = "add_push"] /\ UNCHANGED room
  BY <1>1, <1>2, MoveInv
<1>3. CASE Stored(r)
  BY <1>1, <1>3, StoredInv
<1>4. QED BY <1>2, <1>3 DEF AddGuess

LEMMA PushInv ==
  ASSUME IInv, NEW r \in Rooms, Push(r)
  PROVE  IInv'
<1> DEFINE p == room[r].adding
           guess == room[r].guesses[p][Len(room[r].guesses[p])]
<1>1. /\ pc[r] = "add_push" /\ Stored(r)
      /\ UNCHANGED <<hub, garbage, load, pg, age, crashes>>
      /\ redis' = redis \/ redis' = [redis EXCEPT !.lists[p] = Append(@, guess)]
  BY DEF Push
<1>2. room[r] \in RoomRecord /\ p \in Players /\ room[r].guesses[p] # <<>>
  BY <1>1, FieldTypes DEF IInv, RoomInv, RunStands
<1>3. guess \in {"hit", "miss"}
  <2>1. room[r].guesses[p] \in Seq({"hit", "miss"})
    BY <1>2 DEF RoomRecord, Lists
  <2>2. QED BY <1>2, <2>1
<1>4. redis \in [game : BOOLEAN, players : SUBSET Players, lists : Lists]
  BY DEF IInv, TypeOK
<1> HIDE DEF guess, p
<1>5. /\ redis' \in [game : BOOLEAN, players : SUBSET Players, lists : Lists]
      /\ redis'.game = redis.game
  <2>1. CASE redis' = redis
    BY <1>4, <2>1
  <2>2. CASE redis' = [redis EXCEPT !.lists[p] = Append(@, guess)]
    <3>1. Append(redis.lists[p], guess) \in Seq({"hit", "miss"})
      BY <1>2, <1>3, <1>4 DEF Lists
    <3>2. [redis.lists EXCEPT ![p] = Append(redis.lists[p], guess)] \in Lists
      BY <1>4, <3>1 DEF Lists
    <3>3. redis' = [redis EXCEPT !.lists = [redis.lists EXCEPT ![p] = Append(redis.lists[p], guess)]]
      BY <1>4, <2>2
    <3>4. QED BY <1>4, <3>2, <3>3
  <2>3. QED BY <1>1, <2>1, <2>2
<1>6. QED BY <1>1, <1>5, StoredInv

LEMMA RunReturnsInv ==
  ASSUME IInv, NEW r \in Rooms, RunReturns(r)
  PROVE  IInv'
<1> DEFINE new == [room[r] EXCEPT !.life = "over"]
<1>1. /\ room[r].life = "open" /\ pc[r] = "idle" /\ room[r].closed
      /\ room' = [room EXCEPT ![r] = new]
      /\ UNCHANGED <<hub, pc, garbage, load, redis, pg, age, crashes>>
  BY DEF RunReturns
<1>2. room[r] \in RoomRecord /\ RoomInv(r)
  BY FieldTypes DEF IInv
<1>3. /\ new \in RoomRecord
      /\ new.life = "over" /\ new.known = room[r].known /\ new.started = room[r].started
      /\ new.closed = room[r].closed /\ new.ended = room[r].ended /\ new.active = room[r].active
      /\ new.finished = room[r].finished /\ new.guesses = room[r].guesses
      /\ new.joined = room[r].joined
  BY <1>2 DEF RoomRecord
<1> HIDE DEF new
<1>4. room'[r] = new /\ \A x \in Rooms : x # r => room'[x] = room[x]
  BY <1>1, <1>3, OneRoom DEF IInv
<1>5. pc' = [pc EXCEPT ![r] = "idle"] /\ "idle" \in Places /\ "idle" \notin Late
  BY <1>1, ThreadsAre DEF IInv, TypeOK, Places, Late
<1>6. RoomInv(r)'
  <2>1. RunStands(r)'
    BY <1>1, <1>3, <1>4 DEF RunStands
  <2>2. FlagsAgree(r)' /\ Origin(r)'
    BY <1>2, <1>3, <1>4 DEF RoomInv, FlagsAgree, Origin
  <2>3. Counts(r)'
    BY <1>2, <1>3, <1>4 DEF RoomInv, Counts, EndedIn
  <2>4. QED BY <2>1, <2>2, <2>3 DEF RoomInv
<1>7. redis \in [game : BOOLEAN, players : SUBSET Players, lists : Lists]
  BY DEF IInv, TypeOK
<1>8. QED BY <1>1, <1>3, <1>5, <1>6, <1>7, QuietRun

LEMMA EndedInIsFinite ==
  ASSUME TypeOK, NEW r \in Rooms
  PROVE  /\ IsFiniteSet(room[r].joined) /\ IsFiniteSet(EndedIn(r))
         /\ Cardinality(EndedIn(r)) \in Nat /\ Cardinality(room[r].joined) \in Nat
<1>1. EndedIn(r) \subseteq Players /\ room[r].joined \subseteq Players
  BY FieldTypes DEF EndedIn
<1>2. QED BY <1>1, PlayersAssumption, FS_Subset, FS_CardinalityType

LEMMA PlayInv ==
  ASSUME IInv, NEW r \in Rooms, NEW guess \in {"hit", "miss"}, Play(r, guess)
  PROVE  IInv'
<1> DEFINE p == room[r].adding
           list == Append(room[r].guesses[p], guess)
           done == Ended(list)
           count == IF done THEN room[r].finished + 1 ELSE room[r].finished
           played == [room[r] EXCEPT !.guesses[p] = Append(@, guess),
                                     !.finished = IF done THEN @ + 1 ELSE @]
           over == room[r].ended \/ (done /\ count = Cardinality(room[r].joined))
           lists == [room[r].guesses EXCEPT ![p] = list]
           new == [room[r] EXCEPT !.guesses = lists, !.finished = count, !.ended = over]
<1>1. /\ pc[r] = "play"
      /\ room' = [room EXCEPT ![r] = [played EXCEPT !.ended = @ \/ (done /\ AllFinished(played))]]
      /\ pc' = [pc EXCEPT ![r] = "add_guess"] /\ "add_guess" \in Places /\ "add_guess" \notin Late
      /\ UNCHANGED <<hub, garbage, load, redis, pg, age, crashes>>
  BY DEF Play, Places, Late
<1>2. /\ room[r].life = "open" /\ room[r] \in RoomRecord /\ RoomInv(r)
      /\ room[r].started /\ (room[r].active \/ room[r].closed)
      /\ p \in room[r].joined /\ CanPlay(room[r].guesses[p])
  BY <1>1, FieldTypes DEF IInv, RoomInv, RunStands
<1>24. p \in Players /\ ~Ended(room[r].guesses[p])
  BY <1>2, FieldTypes DEF IInv, CanPlay, Ended
<1>3. room' = [room EXCEPT ![r] = new]
  <2>1. played = [room[r] EXCEPT !.guesses = lists, !.finished = count]
    BY <1>2 DEF RoomRecord
  <2>2. /\ played.joined = room[r].joined /\ played.finished = count /\ played.ended = room[r].ended
    BY <1>2, <2>1 DEF RoomRecord
  <2>3. [played EXCEPT !.ended = @ \/ (done /\ AllFinished(played))] = new
    BY <1>2, <2>1, <2>2 DEF RoomRecord, AllFinished
  <2>4. QED BY <1>1, <2>3
<1> HIDE DEF p
<1>4. room[r].guesses \in Lists /\ room[r].joined \subseteq Players /\ room[r].finished \in Nat
      /\ room[r].ended \in BOOLEAN
  BY FieldTypes DEF IInv
<1>5. /\ list # <<>> /\ list \in Seq({"hit", "miss"})
      /\ Len(list) = Len(room[r].guesses[p]) + 1 /\ Len(room[r].guesses[p]) \in Nat
  BY <1>4, <1>24 DEF Lists
<1>6. /\ lists \in Lists /\ lists[p] = list
      /\ \A x \in Players : x # p => lists[x] = room[r].guesses[x]
  BY <1>4, <1>5, <1>24 DEF Lists
<1> HIDE DEF list, played, lists
<1>7. LET now == {x \in room[r].joined : Ended(lists[x])}
      IN /\ now = IF done THEN EndedIn(r) \cup {p} ELSE EndedIn(r)
         /\ Cardinality(now) = IF done THEN Cardinality(EndedIn(r)) + 1 ELSE Cardinality(EndedIn(r))
         /\ now \subseteq room[r].joined
         /\ Cardinality(now) <= Cardinality(Players)
         /\ now # room[r].joined => Cardinality(now) < Cardinality(room[r].joined)
  <2> DEFINE now == {x \in room[r].joined : Ended(lists[x])}
  <2>1. p \notin EndedIn(r)
    BY <1>24 DEF EndedIn
  <2>2. now = IF done THEN EndedIn(r) \cup {p} ELSE EndedIn(r)
    BY <1>2, <1>4, <1>6, <2>1 DEF EndedIn
  <2>3. /\ IsFiniteSet(room[r].joined) /\ IsFiniteSet(EndedIn(r))
        /\ Cardinality(EndedIn(r)) \in Nat
    BY EndedInIsFinite DEF IInv
  <2>4. Cardinality(EndedIn(r) \cup {p}) = Cardinality(EndedIn(r)) + 1
    BY <2>1, <2>3, FS_AddElement
  <2>5. now \subseteq room[r].joined /\ now \subseteq Players
    BY <1>4
  <2>6. Cardinality(now) <= Cardinality(Players)
    BY <2>5, PlayersAssumption, FS_Subset
  <2>7. now # room[r].joined => Cardinality(now) < Cardinality(room[r].joined)
    BY <2>3, <2>5, FS_Subset, FS_CardinalityType
  <2> HIDE DEF done
  <2>8. QED BY <2>2, <2>4, <2>5, <2>6, <2>7
<1>8. /\ EndedIn(r) \in SUBSET Players
      /\ Cardinality(EndedIn(r)) \in Nat /\ Cardinality(room[r].joined) \in Nat
      /\ room[r].finished <= Cardinality(EndedIn(r))
      /\ room[r].known => room[r].finished = Cardinality(EndedIn(r))
  BY <1>2, <1>4, EndedInIsFinite DEF IInv, RoomInv, Counts, EndedIn
<1> HIDE DEF done
<1>9. count \in 0..Cardinality(Players)
  BY <1>4, <1>7, <1>8, CardPlayers
<1> HIDE DEF count
<1>10. over \in BOOLEAN
  BY <1>4
<1> HIDE DEF over
<1>11. /\ new \in RoomRecord
       /\ new.life = room[r].life /\ new.known = room[r].known /\ new.started = room[r].started
       /\ new.closed = room[r].closed /\ new.active = room[r].active
       /\ new.joined = room[r].joined
       /\ new.guesses = lists /\ new.adding = p /\ new.finished = count /\ new.ended = over
  BY <1>2, <1>6, <1>9, <1>10 DEF RoomRecord, p
<1> HIDE DEF new
<1>12. room'[r] = new /\ \A x \in Rooms : x # r => room'[x] = room[x]
  BY <1>3, <1>11, OneRoom DEF IInv
<1>13. pc'[r] = "add_guess" /\ \A x \in Threads : x # r => pc'[x] = pc[x]
  BY <1>1, OnePlace, ThreadsAre DEF IInv
<1>14. RoomInv(r)'
  <2>1. RunStands(r)'
    BY <1>2, <1>5, <1>6, <1>11, <1>12, <1>13, <1>24 DEF RunStands
  <2>2. FlagsAgree(r)' /\ Origin(r)'
    BY <1>1, <1>2, <1>11, <1>12 DEF RoomInv, FlagsAgree, Origin
  <2>3. Counts(r)'
    <3>1. EndedIn(r)' = {x \in room[r].joined : Ended(lists[x])}
      BY <1>11, <1>12 DEF EndedIn
    <3>2. \A x \in Players : x \notin room[r].joined => lists[x] = <<>>
      BY <1>2, <1>6 DEF RoomInv, Counts
    <3>3. count <= Cardinality(EndedIn(r)')
      BY <1>4, <1>7, <1>8, <3>1 DEF count
    <3>4. room[r].known => count = Cardinality(EndedIn(r)')
      BY <1>4, <1>7, <1>8, <3>1 DEF count
    <3>5. QED BY <1>11, <1>12, <3>2, <3>3, <3>4 DEF Counts
  <2>4. QED BY <2>1, <2>2, <2>3 DEF RoomInv
<1>15. room[r].ended => over
  BY DEF over
<1>16. /\ \A x \in Rooms : RoomInv(x)'
       /\ CollectorInv' /\ ClosingInv' /\ HubRoomOpenOrEnded' /\ FirstMapped'
       /\ FirstOpen' => FirstOpen
       /\ OthersUnmade => OthersUnmade'
       /\ room' \in [Rooms -> RoomRecord] /\ pc' \in [Threads -> Places]
  BY <1>1, <1>2, <1>3, <1>11, <1>14, <1>15, RunStep
<1>17. TypeOK'
  BY <1>1, <1>16 DEF IInv, TypeOK, Places
<1>18. FreshAlone'
  BY <1>1, <1>13, <1>16, ThreadsAre DEF IInv, FreshAlone, RowToCome
<1>19. RecordedIsOver'
  BY <1>1 DEF IInv, RecordedIsOver
<1>20. InLimit'
  <2>1. Len(room[r].guesses[p]) < MaxGuesses
    BY <1>2 DEF CanPlay
  <2>2. Len(list) <= MaxGuesses
    BY <1>5, <2>1
  <2>3. QED BY <1>6, <1>11, <1>12, <2>2 DEF IInv, InLimit
<1>21. StartRow'
  BY <1>1, <1>11, <1>12, <1>13, ThreadsAre DEF IInv, StartRow
<1>22. RowsInv'
  <2>1. \A x \in Threads : pc'[x] = "finish_tx" => pc[x] = "finish_tx"
    BY <1>13
  <2>2. CASE r # First
    BY <1>1, <1>12, <2>1, <2>2 DEF IInv, RowsInv
  <2>3. CASE r = First
    <3>1. pg.players \subseteq room[r].joined /\ pg.players \subseteq Players
      BY <1>2, <1>4, <2>3 DEF IInv, RowsInv
    <3>2. over => \A x \in pg.players : Ended(lists[x])
      <4>1. CASE room[r].ended
        <5>1. \A x \in pg.players : Ended(room[r].guesses[x])
          BY <2>3, <4>1 DEF IInv, RowsInv
        <5>2. \A x \in pg.players : x \in Players /\ x # p
          BY <1>24, <3>1, <5>1
        <5>3. QED BY <1>6, <5>1, <5>2
      <4>2. CASE done /\ count = Cardinality(room[r].joined)
        <5>1. room[r].known
          BY <2>3, <1>2 DEF RoomInv, Origin
        <5>2. {x \in room[r].joined : Ended(lists[x])} = room[r].joined
          BY <1>4, <1>7, <1>8, <4>2, <5>1 DEF count
        <5>3. QED BY <3>1, <5>2
      <4>3. QED BY <4>1, <4>2 DEF over
    <3>3. \A x \in pg.recorded : x \in Players /\ x # p /\ pg.results[x] = room[r].guesses[x]
      BY <1>2, <1>24, <2>3 DEF IInv, TypeOK, RowsInv, RecordedIsOver
    <3>4. \A x \in pg.recorded : pg.results[x] = lists[x]
      BY <1>6, <3>3
    <3>5. /\ room'[First].started /\ room'[First].ended = over
          /\ room'[First].joined = room[r].joined /\ room'[First].guesses = lists
          /\ pg' = pg
      BY <1>1, <1>2, <1>11, <1>12, <2>3
    <3>6. /\ pg.recorded \subseteq pg.players
          /\ ~pg.game => pg.players = {} /\ ~pg.ended
          /\ \A t \in Threads : pc[t] = "finish_tx" => pg.ended \/ pg.players = {}
      BY DEF IInv, RowsInv
    <3>7. \A t \in Threads : pc'[t] = "finish_tx" => pg.ended \/ pg.players = {}
      BY <2>1, <3>6
    <3>8. QED BY <3>1, <3>2, <3>4, <3>5, <3>6, <3>7 DEF RowsInv
  <2>4. QED BY <2>2, <2>3
<1>23. QED BY <1>16, <1>17, <1>18, <1>19, <1>20, <1>21, <1>22 DEF IInv

-----------------------------------------------------------------------------
(* A room made from redis, and a crash.                                    *)

LEMMA LoadedFlags ==
  ASSUME NEW players, NEW lists
  PROVE  LET rm == Loaded(players, lists)
         IN /\ rm.life = "open" /\ ~rm.known /\ rm.started /\ rm.active
            /\ ~rm.closed /\ ~rm.ended
BY DEF Loaded, LoadedWithIDs, NewRoom

LEMMA LoadedBoard ==
  ASSUME NEW players, NEW lists
  PROVE  /\ Loaded(players, lists).joined = players
         /\ \A p \in Players :
              Loaded(players, lists).guesses[p] = IF p \in players THEN lists[p] ELSE <<>>
         /\ Loaded(players, lists).finished = Recounted(players, lists)
BY DEF Loaded, LoadedWithIDs, NewRoom

LEMMA LoadedType ==
  ASSUME NEW players, NEW lists, players \in SUBSET Players, lists \in Lists
  PROVE  Loaded(players, lists) \in RoomRecord
<1> DEFINE guesses == [p \in Players |-> IF p \in players THEN lists[p] ELSE <<>>]
           count == Recounted(players, lists)
<1>1. guesses \in Lists
  BY DEF Lists
<1>2. count \in 0..Cardinality(Players)
  <2> DEFINE won == {p \in players : Won(lists[p])}
  <2>1. won \subseteq Players
    OBVIOUS
  <2> HIDE DEF won
  <2>2. Cardinality(won) \in 0..Cardinality(Players)
    BY <2>1, CardPlayers, PlayersAssumption, FS_Subset, FS_CardinalityType
  <2>3. QED BY <2>2 DEF won, Recounted
<1>3. Loaded(players, lists) =
        [NewRoom EXCEPT !.started = TRUE, !.active = TRUE, !.joined = players,
                        !.guesses = guesses, !.finished = count, !.known = FALSE]
  BY NewRoomType DEF Loaded, LoadedWithIDs, RoomRecord
<1> HIDE DEF guesses, count
<1>4. QED BY <1>1, <1>2, <1>3, NewRoomType DEF RoomRecord

LEMMA LoadSessionsInv ==
  ASSUME IInv, NEW l \in Loaders, LoadSessions(l)
  PROVE  IInv'
<1>1. /\ load[l].at = "sessions"
      /\ load' = [load EXCEPT ![l] = [at |-> "idle", players |-> {}]]
      /\ UNCHANGED <<pc, garbage, redis, pg, age, crashes>>
  BY DEF LoadSessions
<1>2. /\ load' \in [Loaders -> [at : {"idle", "sessions"}, players : SUBSET Players]]
      /\ \A x \in Loaders : load[x].at = "idle" => load'[x].at = "idle"
  BY <1>1 DEF IInv, TypeOK
<1>6. ~RowToCome /\ ~OthersUnmade
  BY <1>1 DEF IInv, FreshAlone, OthersUnmade
<1>3. CASE UNCHANGED <<room, hub>>
  <2>1. TypeOK'
    BY <1>1, <1>2, <1>3 DEF IInv, TypeOK
  <2>2. \A r \in Rooms : RoomInv(r)'
    <3> TAKE r \in Rooms
    <3>1. RoomInv(r) /\ room'[r] = room[r] /\ pc'[r] = pc[r]
      BY <1>1, <1>3 DEF IInv
    <3>2. QED BY <3>1, RoomInvKept
  <2>3. CollectorInv' /\ HubRoomOpenOrEnded'
    BY <1>1, <1>3 DEF IInv, CollectorInv, HubRoomOpenOrEnded
  <2>4. ClosingInv'
    BY <1>1, <1>3 DEF IInv, ClosingInv, ClosesWell, Target
  <2>5. FreshAlone' /\ StartRow'
    BY <1>1, <1>2, <1>3, <1>6 DEF FreshAlone, RowToCome, FirstOpen, IInv, StartRow
  <2>8. FirstMapped'
    BY <1>1, <1>3, <1>6 DEF IInv, FirstMapped, FirstOpen
  <2>6. RowsInv' /\ RecordedIsOver' /\ InLimit'
    BY <1>1, <1>3 DEF IInv, RowsInv, RecordedIsOver, InLimit
  <2>7. QED BY <2>1, <2>2, <2>3, <2>4, <2>5, <2>6, <2>8 DEF IInv
<1>4. CASE ~UNCHANGED <<room, hub>>
  <2> DEFINE new == Loaded(load[l].players, redis.lists)
  <2>1. PICK r \in Rooms :
          room[r].life = "unmade" /\ room' = [room EXCEPT ![r] = new] /\ hub' = r
    BY <1>4 DEF LoadSessions
  <2>2. /\ load[l].players \in SUBSET Players /\ redis.lists \in Lists
        /\ room[r] \in RoomRecord /\ RoomInv(r)
    BY FieldTypes DEF IInv, TypeOK
  <2>3. /\ new.joined = load[l].players
        /\ \A p \in Players :
             new.guesses[p] = IF p \in load[l].players THEN redis.lists[p] ELSE <<>>
        /\ new.finished = Recounted(load[l].players, redis.lists)
    BY LoadedBoard
  <2>4. /\ new \in RoomRecord
        /\ new.life = "open" /\ ~new.known /\ new.started /\ new.active /\ ~new.closed /\ ~new.ended
    BY <2>2, LoadedType, LoadedFlags
  <2> HIDE DEF new
  <2>5. /\ room' \in [Rooms -> RoomRecord]
        /\ room'[r] = new
        /\ \A x \in Rooms : x # r => room'[x] = room[x]
    BY <2>1, <2>4, OneRoom DEF IInv
  <2>6. r # First /\ pc[r] = "idle"
    BY <2>1, <2>2 DEF RoomInv, RunStands, Origin
  <2>7. TypeOK'
    BY <1>1, <1>2, <2>1, <2>5 DEF IInv, TypeOK
  <2>8. RoomInv(r)'
    <3>1. RunStands(r)'
      BY <1>1, <2>6 DEF RunStands
    <3>2. FlagsAgree(r)' /\ Origin(r)'
      BY <2>4, <2>5, <2>6 DEF FlagsAgree, Origin
    <3>3. new.finished <= Cardinality({p \in new.joined : Ended(new.guesses[p])})
      <4> DEFINE won == {p \in load[l].players : Won(redis.lists[p])}
                 ended == {p \in new.joined : Ended(new.guesses[p])}
      <4>1. won \subseteq ended
        BY <2>2, <2>3 DEF Ended
      <4>2. IsFiniteSet(ended)
        <5>1. ended \subseteq Players
          BY <2>2, <2>3
        <5>2. QED BY <5>1, PlayersAssumption, FS_Subset
      <4>3. new.finished = Cardinality(won)
        BY <2>3 DEF Recounted
      <4> HIDE DEF won, ended
      <4>4. Cardinality(won) <= Cardinality(ended)
        BY <4>1, <4>2, FS_Subset
      <4>5. QED BY <4>3, <4>4 DEF ended
    <3>4. Counts(r)'
      BY <2>2, <2>3, <2>4, <2>5, <3>3 DEF Counts, EndedIn
    <3>5. QED BY <3>1, <3>2, <3>4 DEF RoomInv
  <2>9. \A x \in Rooms : RoomInv(x)'
    <3> TAKE x \in Rooms
    <3>1. CASE x = r
      BY <2>8, <3>1
    <3>2. CASE x # r
      <4>1. RoomInv(x) /\ room'[x] = room[x] /\ pc'[x] = pc[x]
        BY <1>1, <2>5, <3>2 DEF IInv
      <4>2. QED BY <4>1, RoomInvKept
    <3>3. QED BY <3>1, <3>2
  <2>10. CollectorInv'
    BY <1>1, <2>1, <2>4, <2>5 DEF IInv, TypeOK, CollectorInv
  <2>11. ClosingInv'
    <3> SUFFICES ASSUME NEW t \in Threads
                 PROVE  ClosesWell(t)'
      BY DEF ClosingInv, Threads
    <3>1. CASE pc[t] \in Late
      <4>1. Target(t) \in Rooms /\ Target(t) # r
        BY <2>1, <3>1, TargetIsRoom DEF Late
      <4>2. Target(t)' = Target(t) /\ room'[Target(t)] = room[Target(t)]
        BY <1>1, <2>5, <4>1 DEF Target
      <4>3. QED BY <1>1, <4>2 DEF IInv, ClosingInv, ClosesWell
    <3>2. CASE pc[t] \notin Late
      BY <1>1, <3>2 DEF ClosesWell, Late
    <3>3. QED BY <3>1, <3>2
  <2>12. HubRoomOpenOrEnded'
    BY <2>1, <2>4, <2>5 DEF HubRoomOpenOrEnded
  <2>13. FreshAlone' /\ FirstMapped'
    BY <1>1, <1>6, <2>5, <2>6 DEF IInv, FreshAlone, RowToCome, FirstMapped, FirstOpen
  <2>14. StartRow'
    BY <1>1, <2>5, <2>6 DEF IInv, StartRow
  <2>15. RowsInv' /\ RecordedIsOver' /\ InLimit'
    BY <1>1, <2>5, <2>6 DEF IInv, RowsInv, RecordedIsOver, InLimit
  <2>16. QED BY <2>7, <2>9, <2>10, <2>11, <2>12, <2>13, <2>14, <2>15 DEF IInv
<1>5. QED BY <1>3, <1>4

(* Rooms before the first step and after a crash.                          *)
LEMMA EmptyRooms ==
  /\ \A rm \in {NewRoom, Unmade, Lost} :
       /\ rm.joined = {} /\ rm.guesses = NoGuesses /\ rm.finished = 0
       /\ ~rm.started /\ ~rm.active /\ ~rm.ended
  /\ NewRoom.life = "open" /\ Unmade.life = "unmade" /\ Lost.life = "over"
  /\ NewRoom.known /\ Lost.known /\ ~NewRoom.closed
BY DEF NewRoom, Unmade, Lost

LEMMA CrashInv ==
  ASSUME IInv, Crash
  PROVE  IInv'
<1>1. /\ crashes < MaxCrashes /\ crashes' = crashes + 1
      /\ hub' = NoRoom /\ garbage' = NoRoom
      /\ room' = [r \in Rooms |-> IF room[r] = Unmade THEN Unmade ELSE Lost]
      /\ pc' = [t \in Threads |-> "idle"]
      /\ load' = [l \in Loaders |-> [at |-> "idle", players |-> {}]]
      /\ UNCHANGED <<redis, pg, age>>
  BY DEF Crash
<1>2. /\ Unmade.life = "unmade" /\ Lost.life = "over" /\ Lost.guesses = NoGuesses /\ Lost.known
      /\ ~Lost.started /\ ~Lost.ended
  BY EmptyRooms
<1>3. room'[First] = Lost
  BY <1>1, <1>2 DEF IInv, RoomInv, Origin
<1>4. TypeOK'
  <2>1. room' \in [Rooms -> RoomRecord]
    BY <1>1, NewRoomType
  <2>2. crashes' \in 0..MaxCrashes
    BY <1>1 DEF IInv, TypeOK
  <2>3. load' \in [Loaders -> [at : {"idle", "sessions"}, players : SUBSET Players]]
    BY <1>1
  <2>4. QED BY <1>1, <2>1, <2>2, <2>3 DEF IInv, TypeOK
<1>5. \A r \in Rooms : RoomInv(r)'
  <2> TAKE r \in Rooms
  <2>1. /\ pc'[r] = "idle" /\ room'[r] \in {Unmade, Lost}
        /\ r = First => room'[r] = Lost
    BY <1>1, <1>3, ThreadsAre
  <2>2. /\ room'[r].joined = {} /\ room'[r].guesses = NoGuesses /\ room'[r].finished = 0
        /\ ~room'[r].started /\ ~room'[r].active /\ ~room'[r].ended /\ room'[r].life # "open"
        /\ room'[r].life = "unmade" => room'[r] = Unmade
        /\ r = First => room'[r].known /\ room'[r].life # "unmade"
    BY <1>2, <2>1, EmptyRooms
  <2>3. RunStands(r)' /\ FlagsAgree(r)' /\ Origin(r)'
    BY <2>1, <2>2 DEF RunStands, FlagsAgree, Origin
  <2>4. Counts(r)'
    <3>1. EndedIn(r)' = {}
      BY <2>2 DEF EndedIn
    <3>2. Cardinality({}) = 0
      BY FS_EmptySet
    <3>3. QED BY <2>2, <3>1, <3>2 DEF Counts, NoGuesses
  <2>5. QED BY <2>3, <2>4 DEF RoomInv
<1>6. CollectorInv' /\ ClosingInv' /\ HubRoomOpenOrEnded' /\ StartRow'
  BY <1>1, ThreadsAre
     DEF CollectorInv, ClosingInv, ClosesWell, Late, Handling, Threads, HubRoomOpenOrEnded, StartRow
<1>7. FreshAlone' /\ FirstMapped'
  BY <1>1, <1>2, <1>3, ThreadsAre DEF FreshAlone, RowToCome, FirstMapped, FirstOpen
<1>8. RowsInv'
  BY <1>1, <1>2, <1>3 DEF IInv, RowsInv, Threads
<1>9. RecordedIsOver'
  BY <1>1 DEF IInv, RecordedIsOver
<1>10. InLimit'
  BY <1>2, <1>3 DEF InLimit, NoGuesses
<1>11. QED BY <1>4, <1>5, <1>6, <1>7, <1>8, <1>9, <1>10 DEF IInv

-----------------------------------------------------------------------------
(* The invariant, and what follows from it.                                *)

LEMMA InitInv == Init => IInv
<1> SUFFICES ASSUME Init PROVE IInv
  OBVIOUS
<1>1. /\ hub = First /\ garbage = NoRoom /\ age = 0 /\ crashes = 0
      /\ room = [r \in Rooms |-> IF r = First THEN NewRoom ELSE Unmade]
      /\ pc = [t \in Threads |-> "idle"]
      /\ load = [l \in Loaders |-> [at |-> "idle", players |-> {}]]
      /\ redis = Emptied /\ pg = NoRows
  BY DEF Init
<1>2. /\ room[First] = NewRoom /\ \A r \in Rooms \ {First} : room[r] = Unmade
      /\ First # NoRoom
  BY <1>1
<1>3. TypeOK
  <2>1. room \in [Rooms -> RoomRecord]
    BY <1>1, NewRoomType
  <2>2. crashes \in 0..MaxCrashes /\ age \in 0..2
    BY <1>1
  <2>3. QED BY <1>1, <2>1, <2>2, StoresEmptyTypes DEF TypeOK
<1>4. \A r \in Rooms : RoomInv(r)
  <2> TAKE r \in Rooms
  <2>1. /\ pc[r] = "idle"
        /\ r = First => room[r] = NewRoom
        /\ r # First => room[r] = Unmade
    BY <1>1, ThreadsAre
  <2>2. /\ room[r].joined = {} /\ room[r].guesses = NoGuesses /\ room[r].finished = 0
        /\ ~room[r].started /\ ~room[r].active /\ ~room[r].ended
        /\ room[r].life = "unmade" => room[r] = Unmade
        /\ r = First => room[r].known /\ room[r].life # "unmade"
        /\ r # First => room[r].life # "open"
    BY <2>1, EmptyRooms
  <2>3. RunStands(r) /\ FlagsAgree(r) /\ Origin(r)
    BY <2>1, <2>2 DEF RunStands, FlagsAgree, Origin
  <2>4. Counts(r)
    <3>1. EndedIn(r) = {}
      BY <2>2 DEF EndedIn
    <3>2. Cardinality({}) = 0
      BY FS_EmptySet
    <3>3. QED BY <2>2, <3>1, <3>2 DEF Counts, NoGuesses
  <2>5. QED BY <2>3, <2>4 DEF RoomInv
<1>5. CollectorInv /\ ClosingInv /\ StartRow
  BY <1>1, <1>2, EmptyRooms, ThreadsAre
     DEF CollectorInv, ClosingInv, ClosesWell, Late, Handling, Threads, StartRow
<1>6. HubRoomOpenOrEnded
  BY <1>1, <1>2, EmptyRooms DEF HubRoomOpenOrEnded
<1>7. FreshAlone /\ FirstMapped
  <2>1. OthersUnmade
    BY <1>1, <1>2, EmptyRooms DEF OthersUnmade
  <2>2. QED BY <1>1, <2>1 DEF FreshAlone, FirstMapped, Emptied, NoRows
<1>8. RowsInv /\ RecordedIsOver
  BY <1>1, <1>2, EmptyRooms DEF RowsInv, RecordedIsOver, NoRows
<1>9. InLimit
  BY <1>2, EmptyRooms DEF InLimit, NoGuesses
<1>10. QED BY <1>3, <1>4, <1>5, <1>6, <1>7, <1>8, <1>9 DEF IInv

LEMMA StutterInv ==
  ASSUME IInv, UNCHANGED vars
  PROVE  IInv'
<1>1. UNCHANGED <<hub, room, pc, garbage, load, redis, pg, age, crashes>>
  BY DEF vars
<1>2. \A r \in Rooms : RoomInv(r)'
  <2> TAKE r \in Rooms
  <2>1. RoomInv(r) /\ room'[r] = room[r] /\ pc'[r] = pc[r]
    BY <1>1 DEF IInv
  <2>2. QED BY <2>1, RoomInvKept
<1>3. TypeOK' /\ CollectorInv' /\ HubRoomOpenOrEnded'
  BY <1>1 DEF IInv, TypeOK, CollectorInv, HubRoomOpenOrEnded
<1>7. FreshAlone' /\ FirstMapped'
  BY <1>1 DEF IInv, FreshAlone, RowToCome, FirstMapped, FirstOpen, OthersUnmade
<1>4. ClosingInv'
  BY <1>1 DEF IInv, ClosingInv, ClosesWell, Target
<1>5. StartRow' /\ RowsInv' /\ RecordedIsOver' /\ InLimit'
  BY <1>1 DEF IInv, StartRow, RowsInv, RecordedIsOver, InLimit
<1>6. QED BY <1>2, <1>3, <1>4, <1>5, <1>7 DEF IInv

(* A key on its way was sent by StartRedis.                                *)
Sends == \A r \in Rooms : pc'[r] = "start_set" => pc[r] = "start_set" \/ pg.game

Records == \E t \in Threads : FinishTx(t)

LEMMA NextInv ==
  ASSUME IInv, [Next]_vars
  PROVE  /\ IInv'
         /\ Sends
         /\ pg'.results = pg.results \/ pg'.recorded = {} \/ Records
<1>1. CASE UNCHANGED vars
  BY <1>1, StutterInv DEF vars, Sends
<1>2. ASSUME NEW r \in Rooms, Handle(r)
      PROVE  /\ IInv'
             /\ Sends
             /\ pg'.results = pg.results \/ pg'.recorded = {}
  <2>12. pc \in [Threads -> Places] /\ r \in Threads
    BY ThreadsAre DEF IInv, TypeOK, Places
  <2>13. ASSUME NEW at, at # "start_set", pc' = [pc EXCEPT ![r] = at]
         PROVE  Sends
    BY <2>12, <2>13, ThreadsAre DEF Sends
  <2>1. CASE \E p \in Players : Join(r, p)
    BY <2>1, JoinInv DEF Join, Sends
  <2>2. CASE \E guess \in {"hit", "miss"} : Play(r, guess)
    <3>1. pg' = pg /\ pc' = [pc EXCEPT ![r] = "add_guess"]
      BY <2>2 DEF Play
    <3>2. QED BY <2>2, <2>13, <3>1, PlayInv
  <2>3. CASE Start(r)
    <3>1. pg' = pg /\ pc' = [pc EXCEPT ![r] = "start_pg"]
      BY <2>3 DEF Start
    <3>2. QED BY <2>3, <2>13, <3>1, StartInv
  <2>4. CASE StartPg(r)
    <3>1. /\ pg' = pg
          /\ \/ pc' = [pc EXCEPT ![r] = "start_commit"]
             \/ pc' = [pc EXCEPT ![r] = "idle"]
      BY <2>4 DEF StartPg
    <3>2. QED BY <2>4, <2>13, <3>1, StartPgInv
  <2>5. CASE Commit(r)
    <3>1. /\ pg' = pg \/ pg'.recorded = {}
          /\ \/ pc' = [pc EXCEPT ![r] = "start_redis"]
             \/ pc' = [pc EXCEPT ![r] = "idle"]
      BY <2>5 DEF Commit, RowFailed, NoRows
    <3>2. QED BY <2>5, <2>13, <3>1, CommitInv
  <2>6. CASE StartRedis(r)
    <3>1. pg' = pg /\ \A x \in Rooms : x # r => pc'[x] = pc[x]
      BY <2>6, <2>12, ThreadsAre DEF StartRedis
    <3>2. QED BY <2>6, <3>1, StartRedisInv DEF Sends
  <2>7. CASE SetKey(r)
    <3>1. pg' = pg /\ pc' = [pc EXCEPT ![r] = "idle"]
      BY <2>7 DEF SetKey
    <3>2. QED BY <2>7, <2>13, <3>1, SetKeyInv
  <2>8. CASE \E p \in Players : Check(r, p)
    <3>1. pg' = pg /\ pc' = [pc EXCEPT ![r] = "play"]
      BY <2>8 DEF Check
    <3>2. QED BY <2>8, <2>13, <3>1, CheckInv
  <2>9. CASE AddGuess(r)
    <3>1. /\ pg' = pg
          /\ \/ pc' = [pc EXCEPT ![r] = "add_push"]
             \/ pc' = [pc EXCEPT ![r] = IF room[r].ended THEN "close" ELSE "idle"]
      BY <2>9 DEF AddGuess, Stored
    <3>2. QED BY <2>9, <2>13, <3>1, AddGuessInv
  <2>10. CASE Push(r)
    <3>1. /\ pg' = pg
          /\ \/ pc' = [pc EXCEPT ![r] = "close"]
             \/ pc' = [pc EXCEPT ![r] = "idle"]
      BY <2>10 DEF Push, Stored
    <3>2. QED BY <2>10, <2>13, <3>1, PushInv
  <2>11. CASE RunReturns(r)
    BY <2>11, RunReturnsInv DEF RunReturns, Sends
  <2>14. QED BY <1>2, <2>1, <2>2, <2>3, <2>4, <2>5, <2>6, <2>7, <2>8, <2>9, <2>10, <2>11 DEF Handle
<1>3. ASSUME NEW t \in Threads, Close(t)
      PROVE  /\ IInv'
             /\ Sends
             /\ pg'.results = pg.results \/ pg'.recorded = {} \/ Records
  <2>11. pc \in [Threads -> Places]
    BY DEF IInv, TypeOK, Places
  <2>10. Sends
    <3>1. /\ pc'[t] = "start_set" => pc[t] = "start_set"
          /\ \A x \in Threads : x # t => pc'[x] = pc[x]
      <4>1. CASE CloseCheck(t) \/ CloseFlags(t) \/ CloseDecide(t)
        BY <4>1, <2>11 DEF CloseCheck, CloseFlags, CloseDecide, Go
      <4>2. CASE FinishRow(t) \/ FinishTx(t) \/ DropRoom(t) \/ Wipe(t) \/ DropRedis(t)
        BY <4>2, <2>11 DEF FinishRow, FinishTx, ResultsFailed, DropRoom, Wipe, DropRedis, Go
      <4>3. QED BY <1>3, <4>1, <4>2 DEF Close
    <3>2. QED BY <3>1, ThreadsAre DEF Sends
  <2>1. CASE CloseCheck(t)
    BY <2>1, <2>10, CloseCheckInv DEF CloseCheck
  <2>2. CASE CloseFlags(t)
    BY <2>2, <2>10, CloseFlagsInv DEF CloseFlags
  <2>3. CASE CloseDecide(t)
    BY <2>3, <2>10, CloseDecideInv DEF CloseDecide
  <2>4. CASE FinishRow(t)
    <3>1. pg'.results = pg.results
      BY <2>4 DEF FinishRow, IInv, TypeOK
    <3>2. QED BY <2>4, <2>10, <3>1, FinishRowInv
  <2>5. CASE FinishTx(t)
    BY <2>5, <2>10, FinishTxInv DEF Records
  <2>6. CASE DropRoom(t)
    BY <2>6, <2>10, DropRoomInv DEF DropRoom
  <2>7. CASE Wipe(t)
    <3>1. pg' = pg \/ pg'.recorded = {}
      BY <2>7 DEF Wipe, NoRows
    <3>2. QED BY <2>7, <2>10, <3>1, WipeInv
  <2>8. CASE DropRedis(t)
    BY <2>8, <2>10, DropRedisInv DEF DropRedis
  <2>9. QED BY <1>3, <2>1, <2>2, <2>3, <2>4, <2>5, <2>6, <2>7, <2>8 DEF Close
<1>4. ASSUME NEW l \in Loaders, LoadSessions(l)
      PROVE  IInv' /\ Sends /\ pg' = pg
  BY <1>4, LoadSessionsInv DEF LoadSessions, Sends
<1>5. CASE Sweep
  <2>1. \A r \in Rooms : pc'[r] = pc[r]
    BY <1>5, ThreadsAre DEF Sweep, IInv, TypeOK
  <2>2. QED BY <1>5, <2>1, SweepInv DEF Sweep, Sends
<1>6. CASE Crash
  <2>1. \A r \in Rooms : pc'[r] = "idle"
    BY <1>6, ThreadsAre DEF Crash
  <2>2. QED BY <1>6, <2>1, CrashInv DEF Crash, Sends
<1>7. CASE Mark \/ Age \/ Expire \/ \E l \in Loaders : LoadGame(l)
  <2>1. pg' = pg /\ pc' = pc
    BY <1>7 DEF Mark, Age, Expire, LoadGame
  <2>2. QED BY <1>7, <2>1, EnvironmentInv DEF Sends
<1>8. QED BY <1>1, <1>2, <1>3, <1>4, <1>5, <1>6, <1>7 DEF Next, Get

LEMMA Invariance == Spec => []IInv
<1>1. IInv /\ [Next]_vars => IInv'
  BY NextInv
<1>2. QED BY InitInv, <1>1, PTL DEF Spec

(* Every room, row and list of guesses has its type, and a room never      *)
(* counts more ended games than there are players                          *)
(* (game/game.go:149-154, 163).                                            *)
THEOREM HubTypeCorrect == Spec => []TypeOK
<1>1. IInv => TypeOK
  BY DEF IInv
<1>2. QED BY <1>1, Invariance, PTL

(* A closed room that is still in the hub is one whose game has ended      *)
(* (service/hub_service.go:96-113, game/room.go:335-372).                  *)
THEOREM HubRoomCorrect == Spec => []HubRoomOpenOrEnded
<1>1. IInv => HubRoomOpenOrEnded
  BY DEF IInv
<1>2. QED BY <1>1, Invariance, PTL

(* Recorded results are those of ended sessions of a game with an end time *)
(* (repository/postgres/game.go:119-164, game/game.go:151-154).            *)
THEOREM RecordedCorrect == Spec => []RecordedIsOver
<1>1. IInv => RecordedIsOver
  BY DEF IInv
<1>2. QED BY <1>1, Invariance, PTL

(* The key of the game is sent to redis only while postgres has the row    *)
(* (service/service.go:41, game/room.go:168, 342).                         *)
THEOREM StoredCorrect == Spec => KeyFollowsRow
<1>1. IInv /\ [Next]_vars =>
        [\A r \in Rooms : pc'[r] = "start_set" => pc[r] = "start_set" \/ pg.game]_vars
  BY NextInv DEF Sends
<1>2. QED BY <1>1, Invariance, PTL DEF Spec, KeyFollowsRow

(* No later close of the game replaces a result that is recorded           *)
(* (repository/postgres/game.go:141-164).                                  *)
THEOREM ResultsCorrect == Spec => ResultsNotReplaced
<1>1. IInv /\ [Next]_vars =>
        [\A p \in pg.recorded \cap pg'.recorded : pg'.results[p] = pg.results[p]]_vars
  <2> SUFFICES ASSUME IInv, [Next]_vars
               PROVE  \A p \in pg.recorded \cap pg'.recorded : pg'.results[p] = pg.results[p]
    OBVIOUS
  <2>1. CASE pg'.results = pg.results \/ pg'.recorded = {}
    BY <2>1
  <2>2. CASE Records
    BY <2>2, FinishTxInv DEF Records
  <2>3. QED BY <2>1, <2>2, NextInv
<1>2. QED BY <1>1, Invariance, PTL DEF Spec, ResultsNotReplaced
=============================================================================
