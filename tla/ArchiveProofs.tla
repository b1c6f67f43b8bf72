--------------------------- MODULE ArchiveProofs ---------------------------
(***************************************************************************)
(* Theorems about Archive: what a fetch may show, and that the rows of a   *)
(* game implement GameRecord.                                              *)
(***************************************************************************)
EXTENDS Archive, HubProofs

USE RoomsAssumption, NobodyAssumption, LimitsAssumption

-----------------------------------------------------------------------------
(* What a step of Hub may do to the rows in postgres.                      *)

RowsStay == pg' = pg

RowsBegin ==
  /\ RowToCome /\ ~pg.game
  /\ \E players \in SUBSET Players : pg' = [NoRows EXCEPT !.game = TRUE, !.players = players]

RowsEnd == pg.game /\ pg' = [pg EXCEPT !.ended = TRUE]

RowsRecord == \E t \in Threads : FinishTx(t)

(* A wipe comes after the flags of Close, and the sender of a row that is  *)
(* still on its way has found no row.                                      *)
RowsDelete == pg' = NoRows /\ ~FirstOpen /\ (pg.game => ~RowToCome)

RowsMove == RowsStay \/ RowsBegin \/ RowsEnd \/ RowsRecord \/ RowsDelete

LEMMA HandleMovesRows ==
  ASSUME IInv, NEW r \in Rooms, Handle(r)
  PROVE  RowsMove
<1>1. CASE Commit(r) /\ pg' # pg
  <2>1. /\ pc[r] = "start_commit"
        /\ pg' = [NoRows EXCEPT !.game = TRUE, !.players = room[r].joined]
    BY <1>1 DEF Commit
  <2>2. r = First
    BY <2>1 DEF IInv, RoomInv, RunStands
  <2>3. RowToCome /\ ~pg.game
    BY <2>1, <2>2 DEF IInv, FreshAlone, RowToCome
  <2>4. room[r].joined \in SUBSET Players
    BY FieldTypes DEF IInv
  <2>5. RowsBegin
    BY <2>1, <2>3, <2>4, Zenon DEF RowsBegin
  <2>6. QED BY <2>5 DEF RowsMove
<1>2. CASE pg' = pg
  BY <1>2 DEF RowsMove, RowsStay
<1>3. CASE ~Commit(r)
  <2>1. pg' = pg
    BY <1>3 DEF Handle, Join, Check, Play, Start, StartPg, StartRedis, SetKey, AddGuess, Push,
                RunReturns
  <2>2. QED BY <2>1 DEF RowsMove, RowsStay
<1>4. QED BY <1>1, <1>2, <1>3

LEMMA CloseMovesRows ==
  ASSUME IInv, NEW t \in Threads, Close(t)
  PROVE  RowsMove
<1>1. CASE CloseCheck(t) \/ CloseFlags(t) \/ CloseDecide(t) \/ DropRoom(t) \/ DropRedis(t)
  BY <1>1 DEF CloseCheck, CloseFlags, CloseDecide, DropRoom, DropRedis, RowsMove, RowsStay
<1>2. CASE FinishRow(t)
  BY <1>2 DEF FinishRow, RowsMove, RowsStay, RowsEnd
<1>3. CASE FinishTx(t)
  BY <1>3 DEF RowsMove, RowsRecord
<1>4. CASE Wipe(t)
  <2>1. ~FirstOpen
    BY <1>4, WiperHasClosed DEF Wipe
  <2>2. pg.game => ~RowToCome
    BY DEF IInv, FreshAlone
  <2>3. QED BY <1>4, <2>1, <2>2 DEF Wipe, RowsMove, RowsStay, RowsDelete
<1>5. QED BY <1>1, <1>2, <1>3, <1>4 DEF Close

LEMMA NextMovesRows ==
  ASSUME IInv, [Next]_vars
  PROVE  RowsMove
<1>1. CASE \/ Mark \/ Sweep \/ Age \/ Expire \/ Crash \/ UNCHANGED vars
           \/ \E l \in Loaders : Get(l)
  BY <1>1 DEF Mark, Sweep, Age, Expire, Crash, Get, LoadGame, LoadSessions, vars, RowsMove, RowsStay
<1>2. QED BY <1>1, HandleMovesRows, CloseMovesRows DEF Next

-----------------------------------------------------------------------------
(* The first room is deleted as finished after its results are recorded.   *)

Drops(t) == pc[t] = "drop_room" /\ Target(t) = First

FirstRecorded == \A t \in Threads : Drops(t) => pg.players \subseteq pg.recorded

(* A thread gets there with its results recorded.                          *)
LEMMA DropBegins ==
  ASSUME IInv, [Next]_vars, NEW t \in Threads, Drops(t)', ~Drops(t)
  PROVE  pg'.players \subseteq pg'.recorded
<1>1. TypeOK /\ Drops(t)' = (pc'[t] = "drop_room" /\ (IF t \in Rooms THEN t ELSE garbage') = First)
  BY DEF IInv, Drops, Target
<1>2. garbage' = garbage => pc[t] # "drop_room"
  BY <1>1 DEF Drops, Target
<1>3. ASSUME NEW x \in Threads, FinishTx(x)
      PROVE  pg'.players \subseteq pg'.recorded
  <2>1. PICK at \in {"idle", "drop_room"} : Go(x, at)
    BY <1>3 DEF FinishTx, ResultsFailed
  <2>2. /\ pc'[x] = at /\ \A y \in Threads : y # x => pc'[y] = pc[y]
        /\ garbage' = IF x = Collector /\ at = "idle" THEN NoRoom ELSE garbage
    BY <1>1, <2>1, Goes DEF Places
  <2>3. x = t
    <3> SUFFICES ASSUME x # t PROVE FALSE
      OBVIOUS
    <3>1. pc[t] = "drop_room"
      BY <1>1, <2>2
    <3>2. t = Collector => garbage' = garbage
      BY <2>2
    <3>3. QED BY <1>1, <3>1, <3>2, ThreadsAre DEF Drops, Target, Threads
  <2>4. pc'[t] = "drop_room" /\ garbage' = garbage
    BY <1>1, <2>2, <2>3
  <2>5. Target(t) = First /\ pc[t] = "finish_tx"
    BY <1>1, <1>3, <2>3, <2>4 DEF Target, FinishTx
  <2>6. room[First].known /\ room[First].started /\ pg.players \subseteq room[First].joined
    BY <2>5 DEF IInv, RoomInv, Origin, ClosingInv, ClosesWell, RowsInv
  <2>7. pg' = [pg EXCEPT !.recorded = @ \cup pg.players,
                 !.results = [p \in Players |->
                                IF p \in pg.players THEN room[First].guesses[p] ELSE @[p]]]
    <3>1. pg.players \cap room[First].joined = pg.players
      BY <2>6
    <3>2. pc'[t] # "idle"
      BY <2>4
    <3>3. \/ pg' = [pg EXCEPT !.recorded = @ \cup (pg.players \cap room[First].joined),
                     !.results = [p \in Players |->
                        IF p \in pg.players \cap room[First].joined THEN room[First].guesses[p] ELSE @[p]]]
          \/ pc' = [pc EXCEPT ![t] = "idle"]
      BY <1>3, <2>3, <2>5, <2>6 DEF FinishTx, Go, ResultsFailed
    <3>4. pc' # [pc EXCEPT ![t] = "idle"]
      BY <1>1, <3>2 DEF TypeOK
    <3>5. QED BY <3>1, <3>3, <3>4
  <2>8. pg'.players = pg.players /\ pg'.recorded = pg.recorded \cup pg.players
    BY <1>1, <2>7 DEF TypeOK
  <2>9. QED BY <2>8
<1>4. ASSUME NEW r \in Rooms, Handle(r)
      PROVE  FALSE
  <2>1. garbage' = garbage
    BY <1>4 DEF Handle, Join, Check, Play, Start, StartPg, Commit, StartRedis, SetKey, AddGuess,
                Push, RunReturns
  <2>2. pc'[t] \in {pc[t], "start_pg", "start_commit", "start_redis", "start_set", "play",
                    "add_guess", "add_push", "close", "idle"}
    BY <1>1, <1>4, ThreadsAre
       DEF Handle, Join, Check, Play, Start, StartPg, Commit, RowFailed, StartRedis, SetKey,
           AddGuess, Push, Stored, RunReturns, TypeOK
  <2>3. QED BY <1>1, <1>2, <2>1, <2>2
<1>5. ASSUME NEW x \in Threads, Close(x), ~FinishTx(x)
      PROVE  FALSE
  <2>1. PICK at \in {"idle", "flags", "decide", "finish_row", "wipe", "finish_tx", "drop_redis"} : Go(x, at)
    <3>1. CASE CloseCheck(x)
      BY <3>1 DEF CloseCheck
    <3>2. CASE CloseFlags(x)
      BY <3>2 DEF CloseFlags
    <3>3. CASE CloseDecide(x)
      <4> DEFINE rm == room[Target(x)]
      <4>1. \/ ~rm.started
            \/ rm.started /\ rm.ended
            \/ rm.started /\ ~rm.ended
        OBVIOUS
      <4>2. (CASE ~rm.started -> "idle"
               [] rm.started /\ rm.ended -> "finish_row"
               [] rm.started /\ ~rm.ended -> "wipe") \in {"idle", "finish_row", "wipe"}
        BY <4>1
      <4>3. QED BY <3>3, <4>2 DEF CloseDecide
    <3>4. CASE FinishRow(x) \/ DropRoom(x) \/ Wipe(x) \/ DropRedis(x)
      BY <3>4 DEF FinishRow, DropRoom, Wipe, DropRedis
    <3>5. QED BY <1>5, <3>1, <3>2, <3>3, <3>4 DEF Close
  <2>2. /\ pc'[x] = at /\ \A y \in Threads : y # x => pc'[y] = pc[y]
        /\ garbage' = IF x = Collector /\ at = "idle" THEN NoRoom ELSE garbage
    BY <1>1, <2>1, Goes DEF Places
  <2>3. t # x /\ pc[t] = "drop_room"
    BY <1>1, <2>2
  <2>4. t = Collector => garbage' = garbage
    BY <2>2, <2>3
  <2>5. QED BY <1>1, <2>3, <2>4, ThreadsAre DEF Drops, Target, Threads
<1>6. CASE Mark
  <2>1. pc' = pc /\ pc[Collector] = "idle"
    BY <1>6 DEF Mark, IInv, CollectorInv
  <2>2. QED BY <1>1, <2>1, ThreadsAre DEF Drops, Target, Threads
<1>7. CASE Sweep
  BY <1>1, <1>2, <1>7 DEF Sweep, TypeOK
<1>8. CASE Crash
  BY <1>1, <1>8 DEF Crash
<1>9. CASE Age \/ Expire \/ UNCHANGED vars \/ \E l \in Loaders : Get(l)
  BY <1>1, <1>2, <1>9 DEF Age, Expire, Get, LoadGame, LoadSessions, vars
<1>10. QED BY <1>3, <1>4, <1>5, <1>6, <1>7, <1>8, <1>9 DEF Next

(* No row comes, and none loses its result, while it is there.             *)
LEMMA DropGoesOn ==
  ASSUME IInv, [Next]_vars, NEW t \in Threads, Drops(t), pg.players \subseteq pg.recorded
  PROVE  pg'.players \subseteq pg'.recorded
<1>1. room[First].ended /\ room[First].closed
  BY DEF Drops, IInv, ClosingInv, ClosesWell, Late
<1>2. ~RowToCome
  BY <1>1 DEF RowToCome, FirstOpen, IInv, RoomInv, RunStands
<1>3. CASE RowsStay \/ RowsDelete
  BY <1>3 DEF RowsStay, RowsDelete, NoRows
<1>4. CASE RowsEnd
  BY <1>4 DEF RowsEnd, IInv, TypeOK
<1>5. CASE RowsRecord
  BY <1>5, FinishTxWrites DEF RowsRecord
<1>6. QED BY <1>2, <1>3, <1>4, <1>5, NextMovesRows DEF RowsMove, RowsBegin

(* FinishGame of the first room deletes the game from the hub and from     *)
(* redis only when each player of the row has a result                     *)
(* (service/service.go:82-90, repository/postgres/game.go:119-164).        *)
THEOREM FinishedCorrect == Spec => []FinishedIsRecorded
<1>1. Init => FirstRecorded
  BY DEF Init, FirstRecorded, Drops
<1>2. IInv /\ FirstRecorded /\ [Next]_vars => FirstRecorded'
  <2> SUFFICES ASSUME IInv, FirstRecorded, [Next]_vars, NEW t \in Threads, Drops(t)'
               PROVE  pg'.players \subseteq pg'.recorded
    BY DEF FirstRecorded
  <2>1. CASE Drops(t)
    BY <2>1, DropGoesOn DEF FirstRecorded
  <2>2. CASE ~Drops(t)
    BY <2>2, DropBegins
  <2>3. QED BY <2>1, <2>2
<1>3. IInv /\ FirstRecorded => FinishedIsRecorded
  <2> SUFFICES ASSUME IInv, FirstRecorded, NEW t \in Threads,
                      pc[t] = "drop_room", room[Target(t)].known
               PROVE  pg.players \subseteq pg.recorded
    BY DEF FinishedIsRecorded
  <2>1. Target(t) \in Rooms /\ room[Target(t)].started
    BY TargetIsRoom DEF IInv, ClosingInv, ClosesWell
  <2>2. Target(t) = First
    BY <2>1 DEF IInv, RoomInv, Origin
  <2>3. QED BY <2>2 DEF FirstRecorded, Drops
<1>4. QED BY <1>1, <1>2, <1>3, Invariance, PTL DEF Spec

-----------------------------------------------------------------------------
(* Once the first room is closed and no row is on its way, none is sent    *)
(* any more.                                                               *)

LEMMA OpenBefore ==
  ASSUME IInv, [Next]_vars, FirstOpen'
  PROVE  FirstOpen
<1>1. First \in Rooms /\ room[First] \in RoomRecord /\ TypeOK
  BY FieldTypes DEF IInv
<1>2. CASE room'[First] = room[First]
  BY <1>2 DEF FirstOpen
<1>3. CASE Crash
  BY <1>3, EmptyRooms DEF Crash, FirstOpen
<1>4. ASSUME NEW r \in Rooms, Handle(r), room'[First] # room[First]
      PROVE  FirstOpen
  <2>1. ASSUME NEW p \in Players, Join(r, p) \/ Check(r, p)
        PROVE  FirstOpen
    <3>1. CASE Join(r, p)
      BY <1>1, <1>4, <3>1 DEF Join, FirstOpen, TypeOK, RoomRecord
    <3>2. CASE Check(r, p)
      BY <1>1, <1>4, <3>2 DEF Check, FirstOpen, TypeOK, RoomRecord
    <3>3. QED BY <2>1, <3>1, <3>2
  <2>2. CASE \E guess \in {"hit", "miss"} : Play(r, guess)
    <3>1. PICK guess \in {"hit", "miss"} : Play(r, guess)
      BY <2>2
    <3> DEFINE p == room[r].adding
               done == Ended(Append(room[r].guesses[p], guess))
               played == [room[r] EXCEPT !.guesses[p] = Append(@, guess),
                                         !.finished = IF done THEN @ + 1 ELSE @]
               over == played.ended \/ (done /\ AllFinished(played))
               new == [played EXCEPT !.ended = over]
    <3>2. room' = [room EXCEPT ![r] = new]
      BY <3>1 DEF Play
    <3>3. room[r] \in RoomRecord
      BY <1>1, FieldTypes
    <3> HIDE DEF p, done, over
    <3>4. new.life = room[r].life /\ new.closed = room[r].closed
      BY <3>3 DEF RoomRecord
    <3> HIDE DEF new
    <3>5. QED BY <1>1, <3>2, <3>4 DEF FirstOpen, TypeOK
  <2>3. CASE Start(r)
    BY <1>1, <1>4, <2>3 DEF Start, FirstOpen, TypeOK, RoomRecord
  <2>4. CASE StartPg(r) \/ Commit(r) \/ StartRedis(r)
    BY <1>4, <2>4 DEF StartPg, Commit, StartRedis
  <2>5. CASE SetKey(r)
    <3>1. room' = [room EXCEPT ![r].active = TRUE]
      BY <1>4, <2>5 DEF SetKey
    <3>2. QED BY <1>1, <1>4, <3>1 DEF FirstOpen, TypeOK, RoomRecord
  <2>6. CASE AddGuess(r) \/ Push(r)
    <3>1. room' = [room EXCEPT ![r].adding = Nobody]
      BY <1>4, <2>6, Zenon DEF AddGuess, Push, Stored
    <3>2. QED BY <1>1, <1>4, <3>1 DEF FirstOpen, TypeOK, RoomRecord
  <2>7. CASE RunReturns(r)
    BY <1>1, <1>4, <2>7 DEF RunReturns, FirstOpen, TypeOK, RoomRecord
  <2>8. QED BY <1>4, <2>1, <2>2, <2>3, <2>4, <2>5, <2>6, <2>7 DEF Handle
<1>5. ASSUME NEW t \in Threads, Close(t), room'[First] # room[First]
      PROVE  FirstOpen
  <2>1. CASE CloseFlags(t)
    BY <1>1, <1>5, <2>1 DEF CloseFlags, Deactivated, FirstOpen, TypeOK, RoomRecord
  <2>2. CASE CloseDecide(t)
    BY <1>1, <1>5, <2>2 DEF CloseDecide, FirstOpen, TypeOK, RoomRecord
  <2>3. CASE CloseCheck(t) \/ FinishRow(t) \/ FinishTx(t) \/ DropRoom(t) \/ Wipe(t) \/ DropRedis(t)
    <3>1. CASE FinishTx(t)
      BY <1>5, <3>1, Zenon DEF FinishTx
    <3>2. CASE FinishRow(t)
      BY <1>5, <3>2, Zenon DEF FinishRow
    <3>3. CASE CloseCheck(t) \/ DropRoom(t) \/ Wipe(t) \/ DropRedis(t)
      BY <1>5, <3>3, Zenon DEF CloseCheck, DropRoom, Wipe, DropRedis
    <3>4. QED BY <2>3, <3>1, <3>2, <3>3
  <2>4. QED BY <1>5, <2>1, <2>2, <2>3 DEF Close
<1>6. ASSUME NEW l \in Loaders, LoadSessions(l)
      PROVE  room'[First] = room[First]
  <2>1. room[First].life # "unmade"
    BY DEF IInv, RoomInv, Origin
  <2>2. QED BY <1>1, <1>6, <2>1 DEF LoadSessions, TypeOK
<1>7. CASE \/ Mark \/ Sweep \/ Age \/ Expire \/ UNCHANGED vars
           \/ \E l \in Loaders : LoadGame(l)
  BY <1>2, <1>7 DEF Mark, Sweep, Age, Expire, LoadGame, vars
<1>8. QED BY <1>2, <1>3, <1>4, <1>5, <1>6, <1>7 DEF Next, Get

LEMMA SenderIsOpen ==
  ASSUME IInv, [Next]_vars, pc'[First] = "start_commit", pc[First] # "start_commit"
  PROVE  FirstOpen
<1>1. TypeOK /\ First \in Threads /\ First # Collector
  BY ThreadsAre DEF IInv
<1>2. ASSUME NEW r \in Rooms, Handle(r)
      PROVE  FirstOpen
  <2>1. CASE StartPg(r) /\ r = First
    <3>1. Uncancelled(r) /\ pc[r] = "start_pg"
      BY <1>1, <2>1 DEF StartPg, TypeOK
    <3>2. room[r].life = "open"
      BY <3>1 DEF IInv, RoomInv, RunStands
    <3>3. QED BY <2>1, <3>1, <3>2 DEF FirstOpen, Uncancelled
  <2>2. CASE r = First /\ ~StartPg(r)
    <3>1. pc'[r] \in {pc[r], "start_pg", "play", "add_guess", "idle", "close", "start_redis",
                      "start_set", "add_push"}
      BY <1>1, <1>2, <2>2 DEF Handle, Join, Check, Play, Start, Commit, RowFailed, StartRedis,
                              SetKey, AddGuess, Push, Stored, RunReturns, TypeOK
    <3>2. QED BY <2>2, <3>1
  <2>3. CASE r # First
    <3>1. pc'[First] = pc[First]
      BY <1>1, <1>2, <2>3, ThreadsAre
         DEF Handle, Join, Check, Play, Start, StartPg, Commit, RowFailed, StartRedis,
             SetKey, AddGuess, Push, Stored, RunReturns, TypeOK
    <3>2. QED BY <3>1
  <2>4. QED BY <2>1, <2>2, <2>3
<1>3. ASSUME NEW t \in Threads, Close(t)
      PROVE  pc'[First] # "start_commit"
  <2>1. CASE CloseCheck(t) \/ CloseFlags(t) \/ CloseDecide(t)
    BY <1>1, <2>1 DEF CloseCheck, CloseFlags, CloseDecide, Go, TypeOK
  <2>2. CASE FinishRow(t) \/ FinishTx(t) \/ DropRoom(t) \/ Wipe(t) \/ DropRedis(t)
    BY <1>1, <2>2 DEF FinishRow, FinishTx, ResultsFailed, DropRoom, Wipe, DropRedis, Go, TypeOK
  <2>3. QED BY <1>3, <2>1, <2>2 DEF Close
<1>4. CASE Sweep \/ Crash
  BY <1>1, <1>4 DEF Sweep, Crash, TypeOK
<1>5. CASE \/ Mark \/ Age \/ Expire \/ UNCHANGED vars
           \/ \E l \in Loaders : Get(l)
  BY <1>5 DEF Mark, Age, Expire, Get, LoadGame, LoadSessions, vars
<1>6. QED BY <1>2, <1>3, <1>4, <1>5 DEF Next

(* A row that may come could come before.                                  *)
LEMMA ToComeBefore ==
  ASSUME IInv, [Next]_vars, ~pg.game, RowToCome'
  PROVE  RowToCome
BY OpenBefore, SenderIsOpen DEF RowToCome

-----------------------------------------------------------------------------
(* The inductive invariant of the fetch.                                   *)

Wiping == pg.game /\ ~pg'.game

(* After a wipe no row can come.                                           *)
WipedForGood == wiped => ~pg.game /\ ~RowToCome

AllAtOnce == pg.recorded = {} \/ pg.recorded = pg.players

(* The rows that a fetch has in hand are those of the game, until a wipe.  *)
ReadWhole ==
  read.at = "player" =>
    \/ wiped
    \/ /\ pg.game /\ pg.players \subseteq pg.recorded
       /\ read.rows = [p \in pg.players |-> pg.results[p]]

ArchiveInv == IInv /\ WipedForGood /\ AllAtOnce /\ ReadWhole

LEMMA ArchiveInitInv == ArchiveInit => ArchiveInv
<1> SUFFICES ASSUME ArchiveInit PROVE ArchiveInv
  OBVIOUS
<1>1. IInv /\ read.at = "idle" /\ ~wiped /\ pg = NoRows
  BY InitInv DEF ArchiveInit, Init, NoRead
<1>2. QED BY <1>1 DEF ArchiveInv, WipedForGood, AllAtOnce, ReadWhole, NoRows

(* A game without a row has no players and no results.                     *)
LEMMA NoGameNoRows ==
  ASSUME IInv, ~pg.game
  PROVE  pg.players = {} /\ pg.recorded = {} /\ ~pg.ended
BY DEF IInv, RowsInv

LEMMA MoveArchive ==
  ASSUME ArchiveInv, [Next]_vars, wiped' <=> (wiped \/ Wiping), UNCHANGED read
  PROVE  ArchiveInv'
<1>1. /\ IInv /\ IInv'
      /\ FirstOpen' => FirstOpen
      /\ ~FirstOpen /\ pc'[First] = "start_commit" => pc[First] = "start_commit"
      /\ ~pg.game /\ RowToCome' => RowToCome
  BY NextInv, OpenBefore, SenderIsOpen, ToComeBefore DEF ArchiveInv
<1>2. pg \in [game : BOOLEAN, ended : BOOLEAN, players : SUBSET Players,
              recorded : SUBSET Players, results : Lists]
  BY <1>1 DEF IInv, TypeOK
<1>3. CASE RowsStay
  <2>1. pg' = pg /\ (wiped' <=> wiped)
    BY <1>3 DEF RowsStay, Wiping
  <2>2. QED BY <1>1, <2>1 DEF ArchiveInv, WipedForGood, AllAtOnce, ReadWhole
<1>4. CASE RowsBegin
  <2>1. ~wiped /\ ~wiped' /\ read'.at # "player"
    BY <1>4 DEF RowsBegin, Wiping, ArchiveInv, WipedForGood, ReadWhole
  <2>2. pg'.recorded = {}
    BY <1>4 DEF RowsBegin, NoRows
  <2>3. QED BY <1>1, <2>1, <2>2 DEF ArchiveInv, WipedForGood, AllAtOnce, ReadWhole
<1>5. CASE RowsEnd
  <2>1. /\ pg.game /\ ~wiped /\ ~wiped'
        /\ pg'.game = pg.game /\ pg'.players = pg.players /\ pg'.recorded = pg.recorded
        /\ pg'.results = pg.results
    BY <1>2, <1>5 DEF RowsEnd, Wiping, ArchiveInv, WipedForGood
  <2>2. QED BY <1>1, <2>1 DEF ArchiveInv, WipedForGood, AllAtOnce, ReadWhole
<1>6. CASE RowsRecord
  <2>1. /\ pg'.game = pg.game /\ pg'.players = pg.players /\ (wiped' <=> wiped)
        /\ \/ pg'.recorded = pg.recorded /\ pg'.results = pg.results
           \/ pg'.recorded = pg.players
    BY <1>1, <1>6, FinishTxWrites DEF RowsRecord, Wiping
  <2>2. \A p \in pg.recorded \cap pg'.recorded : pg'.results[p] = pg.results[p]
    BY <1>1, <1>6, FinishTxInv DEF RowsRecord
  <2>3. WipedForGood' /\ AllAtOnce'
    BY <1>1, <2>1 DEF ArchiveInv, WipedForGood, AllAtOnce
  <2>4. ReadWhole'
    <3> SUFFICES ASSUME read.at = "player", ~wiped
                 PROVE  /\ pg'.game /\ pg'.players \subseteq pg'.recorded
                        /\ read.rows = [p \in pg'.players |-> pg'.results[p]]
      BY <2>1 DEF ReadWhole
    <3>1. /\ pg.game /\ pg.players \subseteq pg.recorded
          /\ read.rows = [p \in pg.players |-> pg.results[p]]
      BY DEF ArchiveInv, ReadWhole
    <3>2. pg'.players \subseteq pg'.recorded
      BY <2>1, <3>1
    <3>3. \A p \in pg.players : pg'.results[p] = pg.results[p]
      BY <2>1, <2>2, <3>1
    <3>4. QED BY <2>1, <3>1, <3>2, <3>3
  <2>5. QED BY <1>1, <2>3, <2>4 DEF ArchiveInv
<1>7. CASE RowsDelete
  <2>1. ~pg'.game /\ pg'.recorded = {} /\ ~FirstOpen /\ (pg.game => ~RowToCome)
    BY <1>7 DEF RowsDelete, NoRows
  <2>2. wiped' => ~RowToCome'
    <3>1. CASE pg.game
      BY <1>1, <2>1, <3>1 DEF RowToCome
    <3>2. CASE ~pg.game
      BY <1>1, <3>2 DEF Wiping, ArchiveInv, WipedForGood
    <3>3. QED BY <3>1, <3>2
  <2>3. read.at = "player" => wiped'
    BY <2>1 DEF Wiping, ArchiveInv, ReadWhole
  <2>4. QED BY <1>1, <2>1, <2>2, <2>3 DEF ArchiveInv, WipedForGood, AllAtOnce, ReadWhole
<1>8. QED BY <1>1, <1>3, <1>4, <1>5, <1>6, <1>7, NextMovesRows DEF RowsMove

LEMMA FetchArchive ==
  ASSUME ArchiveInv, Fetch, UNCHANGED <<vars, wiped>>
  PROVE  ArchiveInv'
<1>1. IInv /\ IInv' /\ pg' = pg /\ room' = room /\ wiped' = wiped
  BY StutterInv DEF vars, ArchiveInv
<1>2. WipedForGood' /\ AllAtOnce'
  BY <1>1 DEF vars, ArchiveInv, WipedForGood, AllAtOnce, RowToCome, FirstOpen
<1>3. ReadWhole'
  BY <1>1 DEF Fetch, FetchPlayers, Counted, GamePlayer, NoRead, ReadWhole
<1>4. QED BY <1>1, <1>2, <1>3 DEF ArchiveInv

LEMMA ArchiveNextInv ==
  ASSUME ArchiveInv, [ArchiveNext]_archiveVars
  PROVE  /\ ArchiveInv'
         /\ [Next]_vars
         /\ wiped' <=> (wiped \/ Wiping)
<1>1. CASE Next /\ wiped' = (wiped \/ Wiping) /\ UNCHANGED read
  <2>1. [Next]_vars /\ UNCHANGED read
    BY <1>1
  <2>2. wiped' <=> (wiped \/ Wiping)
    BY <1>1
  <2>3. QED BY <2>1, <2>2, MoveArchive
<1>2. CASE Fetch /\ UNCHANGED <<vars, wiped>>
  <2>1. ~Wiping /\ [Next]_vars
    BY <1>2 DEF vars, Wiping
  <2>2. QED BY <1>2, <2>1, FetchArchive
<1>3. CASE UNCHANGED archiveVars
  <2>1. [Next]_vars /\ UNCHANGED read /\ wiped' = wiped /\ ~Wiping
    BY <1>3 DEF archiveVars, vars, Wiping
  <2>2. wiped' <=> (wiped \/ Wiping)
    BY <2>1
  <2>3. QED BY <2>1, <2>2, MoveArchive
<1>4. QED BY <1>1, <1>2, <1>3 DEF ArchiveNext, Wiping

LEMMA ArchiveInvariance == ArchiveSpec => []ArchiveInv
<1>1. ArchiveInv /\ [ArchiveNext]_archiveVars => ArchiveInv'
  BY ArchiveNextInv
<1>2. QED BY ArchiveInitInv, <1>1, PTL DEF ArchiveSpec

(* The word is shown only when the game is over for everybody in it        *)
(* (game/response.go:21, repository/postgres/game.go:169-197).             *)
THEOREM WordCorrect == ArchiveSpec => []WordShownAfterEnd
<1>1. ArchiveInv => WordShownAfterEnd
  <2> SUFFICES ASSUME ArchiveInv, NEW asker \in Players, Answers(asker)
               PROVE  pg.ended /\ \A p \in DOMAIN read.rows : Ended(read.rows[p])
    BY DEF WordShownAfterEnd
  <2>1. /\ pg.players \subseteq pg.recorded
        /\ read.rows = [p \in pg.players |-> pg.results[p]]
        /\ asker \in pg.players
    BY NoGameNoRows DEF ArchiveInv, Answers, ReadWhole, WipedForGood
  <2>2. QED BY <2>1 DEF ArchiveInv, IInv, RecordedIsOver
<1>2. QED BY <1>1, ArchiveInvariance, PTL

(* The three queries of a fetch show one state of the game                 *)
(* (repository/postgres/game.go:169-197, 256-282).                         *)
THEOREM AnswerCorrect == ArchiveSpec => []AnswerIsWhole
<1>1. ArchiveInv => AnswerIsWhole
  <2> SUFFICES ASSUME ArchiveInv, NEW asker \in Players, Answers(asker)
               PROVE  /\ DOMAIN read.rows = pg.players /\ pg.players \subseteq pg.recorded
                      /\ read.rows[asker] = pg.results[asker]
    BY DEF AnswerIsWhole
  <2>1. /\ pg.players \subseteq pg.recorded
        /\ read.rows = [p \in pg.players |-> pg.results[p]]
        /\ asker \in pg.players
    BY NoGameNoRows DEF ArchiveInv, Answers, ReadWhole, WipedForGood
  <2>2. QED BY <2>1
<1>2. QED BY <1>1, ArchiveInvariance, PTL

-----------------------------------------------------------------------------
(* The rows implement GameRecord.                                          *)

rowsNow == pg.players

resultsNow == [p \in pg.recorded |-> pg.results[p]]

OverNow == {s \in Sessions : Ended(s)}

LEMMA PhaseIs ==
  /\ wiped => phase = "deleted"
  /\ ~wiped /\ ~pg.game => phase = "none"
  /\ ~wiped /\ pg.game /\ pg.recorded # {} => phase = "recorded"
  /\ ~wiped /\ pg.game /\ pg.recorded = {} /\ pg.ended => phase = "ended"
  /\ ~wiped /\ pg.game /\ pg.recorded = {} /\ ~pg.ended => phase = "started"
BY DEF phase

LEMMA PhaseIsNext ==
  /\ wiped' => phase' = "deleted"
  /\ ~wiped' /\ ~pg'.game => phase' = "none"
  /\ ~wiped' /\ pg'.game /\ pg'.recorded # {} => phase' = "recorded"
  /\ ~wiped' /\ pg'.game /\ pg'.recorded = {} /\ pg'.ended => phase' = "ended"
  /\ ~wiped' /\ pg'.game /\ pg'.recorded = {} /\ ~pg'.ended => phase' = "started"
BY DEF phase

(* The guesses of an ended session of the first room are a result.         *)
LEMMA ResultIsOver ==
  ASSUME IInv, NEW p \in Players, Ended(room[First].guesses[p])
  PROVE  room[First].guesses[p] \in OverNow
<1> DEFINE s == room[First].guesses[p]
<1>1. s \in Seq({"hit", "miss"}) /\ Len(s) <= MaxGuesses
  BY FieldTypes DEF IInv, InLimit, Lists
<1>2. s \in [1..Len(s) -> {"hit", "miss"}] /\ Len(s) \in 0..MaxGuesses
  BY <1>1
<1>3. QED BY <1>2 DEF OverNow, Sessions

LEMMA StepOfRecord ==
  ASSUME ArchiveInv, RowsMove, wiped' <=> (wiped \/ Wiping), IInv'
  PROVE  \/ phase' = phase /\ rowsNow' = rowsNow /\ resultsNow' = resultsNow
         \/ /\ phase = "none" /\ phase' = "started"
            /\ rowsNow' \in SUBSET Players /\ resultsNow' = resultsNow
         \/ /\ phase = "started" /\ phase' = "ended"
            /\ rowsNow' = rowsNow /\ resultsNow' = resultsNow
         \/ /\ phase = "ended" /\ phase' = "recorded"
            /\ resultsNow' \in [rowsNow -> OverNow] /\ rowsNow' = rowsNow
         \/ phase' = "deleted" /\ rowsNow' = {} /\ resultsNow' = [p \in {} |-> p]
<1>1. pg \in [game : BOOLEAN, ended : BOOLEAN, players : SUBSET Players,
              recorded : SUBSET Players, results : Lists]
  BY DEF ArchiveInv, IInv, TypeOK
<1>2. CASE RowsStay
  <2>1. pg' = pg /\ (wiped' <=> wiped)
    BY <1>2 DEF RowsStay, Wiping
  <2>2. phase' = phase
    BY <2>1, PhaseIs, PhaseIsNext
  <2>3. QED BY <2>1, <2>2 DEF rowsNow, resultsNow
<1>3. CASE RowsBegin
  <2>1. ~wiped /\ ~wiped' /\ ~pg.game /\ pg.recorded = {}
    BY <1>3, NoGameNoRows DEF RowsBegin, Wiping, ArchiveInv, WipedForGood
  <2>2. PICK players \in SUBSET Players :
          pg' = [NoRows EXCEPT !.game = TRUE, !.players = players]
    BY <1>3 DEF RowsBegin
  <2>3. pg'.game /\ pg'.players = players /\ pg'.recorded = {} /\ ~pg'.ended
    BY <2>2 DEF NoRows
  <2>4. phase = "none" /\ phase' = "started"
    BY <2>1, <2>3, PhaseIs, PhaseIsNext
  <2>5. resultsNow' = resultsNow
    BY <2>1, <2>3 DEF resultsNow
  <2>6. QED BY <2>2, <2>3, <2>4, <2>5 DEF rowsNow
<1>4. CASE RowsEnd
  <2>1. ~wiped /\ ~wiped' /\ pg.game
    BY <1>1, <1>4 DEF RowsEnd, Wiping, ArchiveInv, WipedForGood
  <2>2. /\ pg'.game /\ pg'.ended
        /\ pg'.players = pg.players /\ pg'.recorded = pg.recorded /\ pg'.results = pg.results
    BY <1>1, <1>4 DEF RowsEnd
  <2>3. rowsNow' = rowsNow /\ resultsNow' = resultsNow
    BY <2>2 DEF rowsNow, resultsNow
  <2>4. CASE pg.recorded # {} \/ pg.ended
    <3>1. phase' = phase
      BY <2>1, <2>2, <2>4, PhaseIs, PhaseIsNext
    <3>2. QED BY <2>3, <3>1
  <2>5. CASE pg.recorded = {} /\ ~pg.ended
    <3>1. phase = "started" /\ phase' = "ended"
      BY <2>1, <2>2, <2>5, PhaseIs, PhaseIsNext
    <3>2. QED BY <2>3, <3>1
  <2>6. QED BY <2>4, <2>5
<1>5. CASE RowsRecord
  <2>1. PICK t \in Threads : FinishTx(t)
    BY <1>5 DEF RowsRecord
  <2>2. /\ wiped' <=> wiped
        /\ pg'.game = pg.game /\ pg'.players = pg.players /\ pg'.ended = pg.ended
    BY <2>1, FinishTxWrites DEF Wiping, ArchiveInv
  <2>3. rowsNow' = rowsNow
    BY <2>2 DEF rowsNow
  <2>4. CASE pg'.recorded = pg.recorded
    <3>1. \A p \in pg.recorded : pg'.results[p] = pg.results[p]
      BY <2>1, <2>4, FinishTxInv DEF ArchiveInv
    <3>2. resultsNow' = resultsNow
      BY <2>4, <3>1 DEF resultsNow
    <3>3. phase' = phase
      BY <2>2, <2>4, PhaseIs, PhaseIsNext
    <3>4. QED BY <2>3, <3>2, <3>3
  <2>5. CASE pg'.recorded # pg.recorded
    <3>1. /\ pg.ended /\ pg'.recorded = pg.players
          /\ \A p \in pg.players : /\ pg'.results[p] = room[First].guesses[p]
                                   /\ Ended(room[First].guesses[p])
      BY <2>1, <2>5, FinishTxWrites DEF ArchiveInv
    <3>2. pg.recorded = {} /\ pg.players # {}
      BY <2>5, <3>1 DEF ArchiveInv, AllAtOnce
    <3>3. pg.game /\ ~wiped
      BY <3>2, NoGameNoRows DEF ArchiveInv, WipedForGood
    <3>4. phase = "ended" /\ phase' = "recorded"
      BY <2>2, <3>1, <3>2, <3>3, PhaseIs, PhaseIsNext
    <3>5. \A p \in pg.players : pg'.results[p] \in OverNow
      BY <1>1, <3>1, ResultIsOver DEF ArchiveInv
    <3>6. resultsNow' \in [rowsNow -> OverNow]
      BY <3>1, <3>5 DEF resultsNow, rowsNow
    <3>7. QED BY <2>3, <3>4, <3>6
  <2>6. QED BY <2>4, <2>5
<1>6. CASE RowsDelete
  <2>1. ~pg'.game /\ pg'.players = {} /\ pg'.recorded = {}
    BY <1>6 DEF RowsDelete, NoRows
  <2>2. rowsNow' = {} /\ resultsNow' = [p \in {} |-> p]
    BY <2>1 DEF rowsNow, resultsNow
  <2>3. CASE wiped'
    BY <2>2, <2>3, PhaseIsNext
  <2>4. CASE ~wiped'
    <3>1. ~wiped /\ ~pg.game /\ phase' = phase
      BY <2>1, <2>4, PhaseIs, PhaseIsNext DEF Wiping
    <3>2. rowsNow = {} /\ resultsNow = [p \in {} |-> p]
      BY <3>1, NoGameNoRows DEF ArchiveInv, rowsNow, resultsNow
    <3>3. QED BY <2>2, <3>1, <3>2
  <2>5. QED BY <2>3, <2>4
<1>7. QED BY <1>2, <1>3, <1>4, <1>5, <1>6 DEF RowsMove

(* The rows of the game in postgres implement GameRecord                   *)
(* (repository/postgres/game.go:29-167, game/room.go:334-363).             *)
THEOREM RecordRefinement == ArchiveSpec => ImplementsRecord
<1>1. ArchiveInit => Record!Init
  <2> SUFFICES ASSUME ArchiveInit PROVE Record!Init
    OBVIOUS
  <2>1. pg = NoRows /\ ~wiped
    BY DEF ArchiveInit, Init
  <2>2. pg.players = {} /\ pg.recorded = {} /\ ~pg.game
    BY <2>1 DEF NoRows
  <2>3. phase = "none"
    BY <2>1, <2>2, PhaseIs
  <2>4. [p \in pg.recorded |-> pg.results[p]] = [p \in {} |-> p]
    BY <2>2
  <2>5. QED BY <2>2, <2>3, <2>4 DEF Record!Init, Record!NoResults
<1>2. ArchiveInv /\ [ArchiveNext]_archiveVars => [Record!Next]_Record!recordVars
  <2> SUFFICES ASSUME ArchiveInv, [ArchiveNext]_archiveVars
               PROVE  [Record!Next]_Record!recordVars
    OBVIOUS
  <2>1. RowsMove /\ (wiped' <=> (wiped \/ Wiping)) /\ IInv'
    BY ArchiveNextInv, NextMovesRows DEF ArchiveInv
  <2>2. \/ phase' = phase /\ rowsNow' = rowsNow /\ resultsNow' = resultsNow
        \/ /\ phase = "none" /\ phase' = "started"
           /\ rowsNow' \in SUBSET Players /\ resultsNow' = resultsNow
        \/ /\ phase = "started" /\ phase' = "ended"
           /\ rowsNow' = rowsNow /\ resultsNow' = resultsNow
        \/ /\ phase = "ended" /\ phase' = "recorded"
           /\ resultsNow' \in [rowsNow -> OverNow] /\ rowsNow' = rowsNow
        \/ phase' = "deleted" /\ rowsNow' = {} /\ resultsNow' = [p \in {} |-> p]
    BY <2>1, StepOfRecord
  <2>3. QED
    BY <2>2 DEF rowsNow, resultsNow, OverNow, Record!Next, Record!recordVars, Record!Begin,
                Record!End, Record!Record, Record!Delete, Record!NoResults
<1>3. QED BY <1>1, <1>2, ArchiveInvariance, PTL DEF ArchiveSpec, ImplementsRecord, Record!Spec
=============================================================================
