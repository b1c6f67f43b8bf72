----------------------------- MODULE RoomProofs -----------------------------
(***************************************************************************)
(* What holds of Room.players in every room, for any connections, owners,  *)
(* creator and number of peers that vanish.                                *)
(***************************************************************************)
EXTENDS Room, TLAPS

(* The goroutines of a connection run only once it is made, so a message   *)
(* of leave comes from a connection that is in created.                    *)
GoroutinesOfCreated ==
  \A c \in Conns : reader[c] # "off" \/ ping[c] # "off" => c \in created

(* The inductive invariant.                                                *)
IInv ==
  /\ TypeOK
  /\ RoomHoldsOpenConns
  /\ GoroutinesOfCreated
  /\ SingleConnStaysIn

USE OwnerAssumption, NoneAssumption

-----------------------------------------------------------------------------
(* Broadcasts.                                                             *)

(* Whom a broadcast cannot reach is closed and taken out; nobody else is.  *)
LEMMA SendAllEffect ==
  ASSUME NEW pl \in [Players -> Conns \cup {None}], NEW op \in [Conns -> BOOLEAN],
         SendAll(pl, op)
  PROVE  /\ players' \in [Players -> Conns \cup {None}]
         /\ open' \in [Conns -> BOOLEAN]
         /\ \A p \in Players : players'[p] = None \/ players'[p] = pl[p]
         /\ \A c \in Conns : open'[c] => op[c]
         /\ \A p \in Players : players'[p] # None /\ op[pl[p]] => open'[pl[p]]
         /\ \A p \in Players : pl[p] # None /\ players'[p] = None => ~ open'[pl[p]]
<1>1. PICK F \in SUBSET Failing(pl) : players' = Without(pl, F) /\ open' = Shut(op, F)
  BY DEF SendAll
<1>2. F \subseteq Conns
  BY DEF Failing
<1>3. players' \in [Players -> Conns \cup {None}]
  BY <1>1 DEF Without
<1>4. open' \in [Conns -> BOOLEAN] /\ \A c \in Conns : open'[c] <=> op[c] /\ c \notin F
  BY <1>1, Zenon DEF Shut
<1>5. \A p \in Players : players'[p] = IF pl[p] \in F THEN None ELSE pl[p]
  BY <1>1 DEF Without
<1>6. QED BY <1>2, <1>3, <1>4, <1>5

-----------------------------------------------------------------------------
(* What any step may do to the connections and to the room: no connection  *)
(* opens again, an entry is taken out or given to a connection that joins  *)
(* and kicks out the one before, and an entry that stays is open.          *)

Rest == <<stage, open, players, sessions>>

Joins(p, c) ==
  /\ c \in Conns /\ Owner[c] = p
  /\ stage[c] = "joining" /\ stage'[c] = "joined"
  /\ players'[p] = c /\ open'[c] /\ p \in sessions'
  /\ players[p] # None => ~ open'[players[p]]

NobodyOpens == \A c \in created : open'[c] => open[c]

EntriesMove == \A p \in Players : players'[p] \in {None, players[p]} \/ \E c \in Conns : Joins(p, c)

EntriesStayOpen ==
  \A p \in Players : players[p] # None /\ players'[p] = players[p] => open'[players[p]]

(* Who is taken out is closed or has another connection.                   *)
EntriesLeave ==
  \A p \in Players : players[p] # None /\ players'[p] = None =>
    \/ ~ open'[players[p]]
    \/ \E d \in created : Owner[d] = p /\ d # players[p]

StagesGoOn ==
  \A c \in Conns :
    /\ stage[c] = "joined" => stage'[c] = "joined"
    /\ c \in created => c \in created'
    /\ stage'[c] = "joined" =>
         stage[c] = "joined" \/ (stage[c] = "joining" /\ (open'[c] => players'[Owner[c]] = c))

Orderly ==
  /\ NobodyOpens /\ EntriesMove /\ EntriesStayOpen /\ EntriesLeave /\ StagesGoOn
  /\ sessions \subseteq sessions'

LEMMA QuietOrderly ==
  ASSUME IInv, UNCHANGED Rest
  PROVE  Orderly
<1>1. stage' = stage /\ open' = open /\ players' = players /\ sessions' = sessions /\ created' = created
  BY DEF Rest, created
<1>2. EntriesStayOpen
  BY <1>1 DEF IInv, TypeOK, RoomHoldsOpenConns, EntriesStayOpen
<1>3. EntriesLeave /\ EntriesMove /\ NobodyOpens
  BY <1>1, Zenon DEF EntriesLeave, EntriesMove, NobodyOpens
<1>4. StagesGoOn
  BY <1>1 DEF StagesGoOn
<1>5. QED BY <1>1, <1>2, <1>3, <1>4 DEF Orderly

(* A broadcast to a room of which one entry may have been taken out.       *)
LEMMA BroadcastOrderly ==
  ASSUME IInv, SendAll(players, open), UNCHANGED <<stage, sessions>>
  PROVE  Orderly /\ players' \in [Players -> Conns \cup {None}] /\ open' \in [Conns -> BOOLEAN]
<1>1. players \in [Players -> Conns \cup {None}] /\ open \in [Conns -> BOOLEAN]
  BY DEF IInv, TypeOK
<1>2. /\ players' \in [Players -> Conns \cup {None}]
      /\ open' \in [Conns -> BOOLEAN]
      /\ \A p \in Players : players'[p] = None \/ players'[p] = players[p]
      /\ \A c \in Conns : open'[c] => open[c]
      /\ \A p \in Players : players'[p] # None /\ open[players[p]] => open'[players[p]]
      /\ \A p \in Players : players[p] # None /\ players'[p] = None => ~ open'[players[p]]
  BY <1>1, SendAllEffect
<1>3. created' = created /\ created \subseteq Conns
  BY DEF created
<1>4. EntriesStayOpen
  BY <1>2 DEF IInv, RoomHoldsOpenConns, EntriesStayOpen
<1>5. EntriesLeave /\ EntriesMove /\ NobodyOpens
  BY <1>2, <1>3, Zenon DEF EntriesLeave, EntriesMove, NobodyOpens
<1>6. StagesGoOn
  BY <1>3 DEF StagesGoOn
<1>7. QED BY <1>2, <1>4, <1>5, <1>6 DEF Orderly

-----------------------------------------------------------------------------
(* The steps one by one.                                                   *)

LEMMA LeaveOrderly ==
  ASSUME IInv, NEW c \in Conns, c \in created, Leave(c), UNCHANGED <<stage, sessions>>
  PROVE  Orderly /\ players' \in [Players -> Conns \cup {None}] /\ open' \in [Conns -> BOOLEAN]
<1> DEFINE pl == Deleted(players, c)
           op == Shut(open, {c})
           q == Owner[c]
<1>1. players \in [Players -> Conns \cup {None}] /\ open \in [Conns -> BOOLEAN] /\ q \in Players
  BY DEF IInv, TypeOK
<1>2. CASE ~ open[c]
  <2>1. UNCHANGED Rest
    BY <1>2 DEF Leave, Rest
  <2>2. players' = players /\ open' = open
    BY <2>1 DEF Rest
  <2>3. QED BY <1>1, <2>1, <2>2, QuietOrderly
<1>3. CASE open[c]
  <2>1. SendAll(pl, op)
    BY <1>3 DEF Leave
  <2>2. /\ pl \in [Players -> Conns \cup {None}] /\ pl[q] = None
        /\ \A p \in Players : p # q => pl[p] = players[p]
    BY <1>1 DEF Deleted
  <2>3. op \in [Conns -> BOOLEAN] /\ \A d \in Conns : op[d] <=> open[d] /\ d # c
    BY Zenon DEF Shut
  <2>4. /\ players' \in [Players -> Conns \cup {None}]
        /\ open' \in [Conns -> BOOLEAN]
        /\ \A p \in Players : players'[p] = None \/ players'[p] = pl[p]
        /\ \A d \in Conns : open'[d] => op[d]
        /\ \A p \in Players : players'[p] # None /\ op[pl[p]] => open'[pl[p]]
        /\ \A p \in Players : pl[p] # None /\ players'[p] = None => ~ open'[pl[p]]
    BY <2>1, <2>2, <2>3, SendAllEffect
  <2>5. created' = created /\ created \subseteq Conns
    BY DEF created
  <2>6. NobodyOpens
    BY <2>3, <2>4, <2>5, Zenon DEF NobodyOpens
  <2>7. EntriesMove
    BY <2>2, <2>4, Zenon DEF EntriesMove
  <2>8. \A p \in Players : players[p] # None =>
          players[p] \in Conns /\ Owner[players[p]] = p /\ open[players[p]]
    BY <1>1 DEF IInv, RoomHoldsOpenConns
  <2>9. EntriesStayOpen
    <3>1. SUFFICES ASSUME NEW p \in Players, players[p] # None, players'[p] = players[p]
                   PROVE  open'[players[p]]
      BY DEF EntriesStayOpen
    <3>2. p # q /\ pl[p] = players[p]
      BY <2>2, <2>4, <3>1
    <3>3. players[p] # c /\ op[players[p]]
      BY <2>3, <2>8, <3>1, <3>2
    <3>4. QED BY <2>4, <3>1, <3>2, <3>3
  <2>10. EntriesLeave
    <3>1. SUFFICES ASSUME NEW p \in Players, players[p] # None, players'[p] = None
                   PROVE  \/ ~ open'[players[p]]
                          \/ \E d \in created : Owner[d] = p /\ d # players[p]
      BY DEF EntriesLeave
    <3>2. CASE p # q
      BY <2>2, <2>4, <3>1, <3>2
    <3>3. CASE p = q /\ players[p] = c
      BY <2>3, <2>4, <3>3
    <3>4. CASE p = q /\ players[p] # c
      BY <3>4
    <3>5. QED BY <3>2, <3>3, <3>4
  <2>11. StagesGoOn
    BY <2>5 DEF StagesGoOn
  <2>12. QED BY <2>4, <2>6, <2>7, <2>9, <2>10, <2>11 DEF Orderly
<1>4. QED BY <1>2, <1>3

LEMMA HandleLeaveStep ==
  ASSUME IInv, NEW c \in Conns, HandleLeave(c)
  PROVE  Orderly /\ TypeOK' /\ GoroutinesOfCreated'
<1>1. c \in created
  BY DEF HandleLeave, IInv, GoroutinesOfCreated
<1>2. Leave(c) /\ UNCHANGED <<stage, gone, sessions, active, closeVars>>
  BY DEF HandleLeave
<1>3. Orderly /\ players' \in [Players -> Conns \cup {None}] /\ open' \in [Conns -> BOOLEAN]
  BY <1>1, <1>2, LeaveOrderly
<1>4. TypeOK'
  <2>1. reader' \in [Conns -> {"off", "reading", "msg", "leave", "done"}]
        /\ ping' \in [Conns -> {"off", "on", "leave", "done"}]
    BY DEF HandleLeave, IInv, TypeOK
  <2>2. inHand' \in {None} \cup (Senders \X Conns)
    BY DEF HandleLeave, Handling
  <2>3. UNCHANGED <<stage, gone, sessions, active, closed, closing, walk, receiving>>
    BY <1>2 DEF closeVars
  <2>4. QED BY <1>3, <2>1, <2>2, <2>3, Zenon DEF IInv, TypeOK
<1>5. GoroutinesOfCreated'
  <2>1. created' = created
    BY <1>2 DEF created
  <2>2. \A d \in Conns : reader'[d] # "off" \/ ping'[d] # "off"
                           => d = c \/ reader[d] # "off" \/ ping[d] # "off"
    BY DEF HandleLeave, IInv, TypeOK
  <2>3. QED BY <1>1, <2>1, <2>2 DEF IInv, GoroutinesOfCreated
<1>6. QED BY <1>3, <1>4, <1>5

(* The connection that joins is alone in the room for its player, whether  *)
(* the first write reaches it or not.                                      *)
LEMMA HandleJoinOrderly ==
  ASSUME IInv, NEW c \in Conns, HandleJoin(c)
  PROVE  Orderly /\ players' \in [Players -> Conns \cup {None}] /\ open' \in [Conns -> BOOLEAN]
<1> DEFINE q == Owner[c]
           pl == [players EXCEPT ![q] = None]
           op == Shut(open, Kicked(c))
           op2 == Shut(op, {c})
           seated == [pl EXCEPT ![q] = c]
<1>1. /\ players \in [Players -> Conns \cup {None}] /\ open \in [Conns -> BOOLEAN] /\ q \in Players
      /\ stage \in [Conns -> {"none", "admitted", "joining", "joined", "dropped"}]
  BY DEF IInv, TypeOK
<1>2. stage[c] = "joining" /\ stage' = [stage EXCEPT ![c] = "joined"] /\ sessions' = sessions \cup {q}
  BY DEF HandleJoin
<1>3. \A p \in Players : players[p] # None =>
          /\ players[p] \in Conns /\ Owner[players[p]] = p /\ open[players[p]]
          /\ players[p] # c
  BY <1>1, <1>2 DEF IInv, RoomHoldsOpenConns
<1>4. /\ op \in [Conns -> BOOLEAN] /\ op2 \in [Conns -> BOOLEAN]
      /\ \A d \in Conns : op[d] <=> open[d] /\ (d = players[q] => players[q] = None)
      /\ \A d \in Conns : op2[d] <=> op[d] /\ d # c
  BY Zenon DEF Shut, Kicked
<1>5. /\ pl \in [Players -> Conns \cup {None}] /\ seated \in [Players -> Conns \cup {None}]
      /\ pl[q] = None /\ seated[q] = c
      /\ \A p \in Players : p # q => pl[p] = players[p] /\ seated[p] = players[p]
  BY <1>1
<1>6. c \in created /\ c \in created' /\ created \subseteq created' /\ created \subseteq Conns
  BY <1>1, <1>2 DEF created
<1>7. /\ \A d \in Conns : stage[d] = "joined" => stage'[d] = "joined"
      /\ \A d \in Conns : stage'[d] = "joined" => stage[d] = "joined" \/ d = c
  BY <1>1, <1>2
<1>8. CASE open[c] /\ SendAll(seated, op)
  <2>1. /\ players' \in [Players -> Conns \cup {None}]
        /\ open' \in [Conns -> BOOLEAN]
        /\ \A p \in Players : players'[p] = None \/ players'[p] = seated[p]
        /\ \A d \in Conns : open'[d] => op[d]
        /\ \A p \in Players : players'[p] # None /\ op[seated[p]] => open'[seated[p]]
        /\ \A p \in Players : seated[p] # None /\ players'[p] = None => ~ open'[seated[p]]
    BY <1>4, <1>5, <1>8, SendAllEffect
  <2>2. NobodyOpens
    BY <1>4, <1>6, <2>1, Zenon DEF NobodyOpens
  <2>3. op[c]
    BY <1>3, <1>4, <1>8, <1>1
  <2>4. players[q] # None => ~ open'[players[q]]
    BY <1>1, <1>3, <1>4, <2>1
  <2>5. EntriesMove
    <3>1. SUFFICES ASSUME NEW p \in Players, players'[p] \notin {None, players[p]}
                   PROVE  Joins(p, c)
      BY Zenon DEF EntriesMove
    <3>2. p = q /\ players'[p] = c
      BY <1>5, <2>1, <3>1
    <3>3. open'[c]
      BY <1>5, <2>1, <2>3, <3>2, NoneAssumption
    <3>4. stage'[c] = "joined" /\ p \in sessions'
      BY <1>1, <1>2, <3>2
    <3>5. QED BY <1>2, <2>4, <3>2, <3>3, <3>4 DEF Joins
  <2>6. EntriesStayOpen
    <3>1. SUFFICES ASSUME NEW p \in Players, players[p] # None, players'[p] = players[p]
                   PROVE  open'[players[p]]
      BY DEF EntriesStayOpen
    <3>2. p # q
      BY <1>3, <1>5, <2>1, <3>1
    <3>3. players[p] # players[q] /\ players[p] \in Conns /\ open[players[p]] /\ seated[p] = players[p]
      BY <1>1, <1>3, <1>5, <3>1, <3>2
    <3>4. op[players[p]]
      BY <1>4, <3>3
    <3>5. QED BY <2>1, <3>1, <3>3, <3>4
  <2>7. EntriesLeave
    <3>1. SUFFICES ASSUME NEW p \in Players, players[p] # None, players'[p] = None
                   PROVE  ~ open'[players[p]]
      BY DEF EntriesLeave
    <3>2. CASE p = q
      BY <2>4, <3>1, <3>2
    <3>3. CASE p # q
      BY <1>5, <2>1, <3>1, <3>3
    <3>4. QED BY <3>2, <3>3
  <2>8. open'[c] => players'[q] = c
    BY <1>1, <1>5, <2>1, NoneAssumption
  <2>9. StagesGoOn
    BY <1>2, <1>6, <1>7, <2>8, Zenon DEF StagesGoOn
  <2>10. QED BY <1>2, <2>1, <2>2, <2>5, <2>6, <2>7, <2>9 DEF Orderly
<1>9. CASE \/ players' = pl /\ open' = op2 /\ players[q] = None
           \/ SendAll(pl, op2)
  <2>1. /\ players' \in [Players -> Conns \cup {None}]
        /\ open' \in [Conns -> BOOLEAN]
        /\ \A p \in Players : players'[p] = None \/ players'[p] = pl[p]
        /\ \A d \in Conns : open'[d] => op2[d]
        /\ \A p \in Players : players'[p] # None /\ op2[pl[p]] => open'[pl[p]]
        /\ \A p \in Players : pl[p] # None /\ players'[p] = None => ~ open'[pl[p]]
    <3>1. CASE SendAll(pl, op2)
      <4> HIDE DEF pl, op2
      <4>1. QED BY <1>4, <1>5, <3>1, SendAllEffect
    <3>2. CASE players' = pl /\ open' = op2
      BY <1>4, <1>5, <3>2, Zenon
    <3>3. QED BY <1>9, <3>1, <3>2
  <2>2. NobodyOpens
    BY <1>4, <1>6, <2>1, Zenon DEF NobodyOpens
  <2>3. ~ open'[c] /\ players'[q] = None
    BY <1>1, <1>4, <1>5, <2>1
  <2>4. players[q] # None => ~ open'[players[q]]
    BY <1>1, <1>3, <1>4, <2>1
  <2>5. EntriesMove
    BY <1>5, <2>1, Zenon DEF EntriesMove
  <2>6. EntriesStayOpen
    <3>1. SUFFICES ASSUME NEW p \in Players, players[p] # None, players'[p] = players[p]
                   PROVE  open'[players[p]]
      BY DEF EntriesStayOpen
    <3>2. p # q
      BY <2>3, <3>1
    <3>3. /\ players[p] # players[q] /\ players[p] # c /\ players[p] \in Conns
          /\ open[players[p]] /\ pl[p] = players[p]
      BY <1>1, <1>3, <1>5, <3>1, <3>2
    <3>4. op2[players[p]]
      BY <1>4, <3>3
    <3>5. QED BY <2>1, <3>1, <3>3, <3>4
  <2>7. EntriesLeave
    <3>1. SUFFICES ASSUME NEW p \in Players, players[p] # None, players'[p] = None
                   PROVE  ~ open'[players[p]]
      BY DEF EntriesLeave
    <3>2. CASE p = q
      BY <2>4, <3>1, <3>2
    <3>3. CASE p # q
      BY <1>5, <2>1, <3>1, <3>3
    <3>4. QED BY <3>2, <3>3
  <2>8. StagesGoOn
    BY <1>2, <1>6, <1>7, <2>3, Zenon DEF StagesGoOn
  <2>9. QED BY <1>2, <2>1, <2>2, <2>5, <2>6, <2>7, <2>8 DEF Orderly
<1>10. QED BY <1>8, <1>9 DEF HandleJoin, Reached

LEMMA HandleJoinStep ==
  ASSUME IInv, NEW c \in Conns, HandleJoin(c)
  PROVE  Orderly /\ TypeOK' /\ GoroutinesOfCreated'
<1>1. Orderly /\ players' \in [Players -> Conns \cup {None}] /\ open' \in [Conns -> BOOLEAN]
  BY HandleJoinOrderly
<1>2. UNCHANGED <<gone, reader, ping, active, closed, closing, walk, receiving>>
  BY DEF HandleJoin, closeVars
<1>3. TypeOK'
  <2>1. stage' \in [Conns -> {"none", "admitted", "joining", "joined", "dropped"}]
        /\ sessions' \subseteq Players
    BY DEF HandleJoin, IInv, TypeOK
  <2>2. inHand' \in {None} \cup (Senders \X Conns)
    BY DEF HandleJoin, Handling
  <2>3. QED BY <1>1, <1>2, <2>1, <2>2, Zenon DEF IInv, TypeOK
<1>4. GoroutinesOfCreated'
  BY <1>1, <1>2 DEF IInv, GoroutinesOfCreated, Orderly, StagesGoOn
<1>5. QED BY <1>1, <1>3, <1>4

LEMMA HandleMsgStep ==
  ASSUME IInv, NEW c \in Conns, HandleMsg(c)
  PROVE  Orderly /\ TypeOK' /\ GoroutinesOfCreated'
<1>1. Answered(c)
  BY DEF HandleMsg, HandleRejected, HandleMessage, HandleStart, HandlePlay, HandleLastPlay
<1>2. /\ UNCHANGED <<stage, gone, ping, sessions>>
      /\ reader' \in [Conns -> {"off", "reading", "msg", "leave", "done"}]
      /\ reader[c] = "msg" /\ \A d \in Conns : d # c => reader'[d] = reader[d]
  BY <1>1 DEF Answered, IInv, TypeOK
<1>3. inHand' \in {None} \cup (Senders \X Conns)
  BY <1>1 DEF Answered, Handling
<1>4. GoroutinesOfCreated'
  <2>1. created' = created
    BY <1>2 DEF created
  <2>2. QED BY <1>2, <2>1 DEF IInv, GoroutinesOfCreated
<1>5. /\ open \in [Conns -> BOOLEAN] /\ players \in [Players -> Conns \cup {None}]
      /\ active \in BOOLEAN /\ closed \in BOOLEAN /\ receiving \in BOOLEAN
      /\ closing \in {"no", "closing", "done"} /\ walk \subseteq Conns
  BY Zenon DEF IInv, TypeOK
<1>6. CASE HandleRejected(c)
  <2>1. UNCHANGED <<open, players, active, closed, closing, walk, receiving>>
    BY <1>6 DEF HandleRejected, closeVars
  <2>2. Orderly
    BY <1>2, <2>1, QuietOrderly DEF Rest
  <2>3. TypeOK'
    BY <1>2, <1>3, <2>1, Zenon DEF IInv, TypeOK
  <2>4. QED BY <1>4, <2>2, <2>3
<1>7. CASE SendAll(players, open) /\ active' \in BOOLEAN /\ UNCHANGED closeVars
  <2>1. Orderly /\ players' \in [Players -> Conns \cup {None}] /\ open' \in [Conns -> BOOLEAN]
    BY <1>2, <1>7, BroadcastOrderly
  <2>2. UNCHANGED <<closed, closing, walk, receiving>>
    BY <1>7 DEF closeVars
  <2>3. TypeOK'
    BY <1>2, <1>3, <1>7, <2>1, <2>2, Zenon DEF IInv, TypeOK
  <2>4. QED BY <1>4, <2>1, <2>3
<1>8. CASE HandleLastPlay(c) /\ ~ closed
  <2>1. /\ players' = NobodyIn /\ open' = Shut(open, inRoom)
        /\ active' = FALSE /\ closed' = TRUE /\ closing' = "done" /\ receiving' = FALSE /\ walk' = walk
    BY <1>8, Zenon DEF HandleLastPlay
  <2>2. players' \in [Players -> Conns \cup {None}] /\ \A p \in Players : players'[p] = None
    BY <2>1 DEF NobodyIn
  <2>3. open' \in [Conns -> BOOLEAN] /\ \A d \in Conns : open'[d] <=> open[d] /\ d \notin inRoom
    BY <2>1, Zenon DEF Shut
  <2>4. \A p \in Players : players[p] # None => players[p] \in inRoom /\ players[p] \in Conns
    BY <1>5 DEF IInv, RoomHoldsOpenConns, inRoom
  <2>5. created' = created /\ created \subseteq Conns
    BY <1>2 DEF created
  <2>6. NobodyOpens /\ EntriesMove /\ EntriesStayOpen
    BY <2>2, <2>3, <2>5, Zenon DEF NobodyOpens, EntriesMove, EntriesStayOpen
  <2>7. EntriesLeave
    BY <2>3, <2>4, Zenon DEF EntriesLeave
  <2>8. StagesGoOn
    BY <1>2, <2>5 DEF StagesGoOn
  <2>9. TypeOK'
    BY <1>2, <1>3, <1>5, <2>1, <2>2, <2>3, Zenon DEF IInv, TypeOK
  <2>10. QED BY <1>2, <1>4, <2>6, <2>7, <2>8, <2>9 DEF Orderly
<1>9. CASE HandleMessage(c) \/ HandleStart(c) \/ HandlePlay(c) \/ (HandleLastPlay(c) /\ closed)
  <2>1. SendAll(players, open) /\ UNCHANGED closeVars
    BY <1>9, Zenon DEF HandleMessage, HandleStart, HandlePlay, HandleLastPlay
  <2>2. active' \in BOOLEAN
    BY <1>5, <1>9, Zenon DEF HandleMessage, HandleStart, HandlePlay, HandleLastPlay
  <2>3. QED BY <1>7, <2>1, <2>2
<1>10. QED BY <1>6, <1>8, <1>9, Zenon DEF HandleMsg

LEMMA CloseConnStep ==
  ASSUME IInv, NEW c \in Conns, CloseConn(c)
  PROVE  Orderly /\ TypeOK' /\ GoroutinesOfCreated'
<1>1. /\ players \in [Players -> Conns \cup {None}] /\ open \in [Conns -> BOOLEAN]
      /\ players[Owner[c]] = c
  BY DEF IInv, TypeOK, CloseConn, inRoom
<1>2. UNCHANGED <<stage, gone, reader, ping, sessions, active, closed, closing, walk, receiving, inHand>>
  BY DEF CloseConn, closeVars
<1>3. /\ players' \in [Players -> Conns \cup {None}] /\ players'[Owner[c]] = None
      /\ \A p \in Players : p # Owner[c] => players'[p] = players[p]
  BY <1>1 DEF CloseConn, Deleted
<1>4. open' \in [Conns -> BOOLEAN] /\ \A d \in Conns : open'[d] <=> open[d] /\ d # c
  BY Zenon DEF CloseConn, Shut
<1>5. created' = created /\ created \subseteq Conns
  BY <1>2 DEF created
<1>6. NobodyOpens /\ EntriesMove
  BY <1>3, <1>4, <1>5, Zenon DEF NobodyOpens, EntriesMove
<1>7. EntriesStayOpen
  BY <1>1, <1>3, <1>4 DEF EntriesStayOpen, IInv, RoomHoldsOpenConns
<1>8. EntriesLeave
  BY <1>1, <1>3, <1>4 DEF EntriesLeave
<1>9. StagesGoOn
  BY <1>2, <1>5 DEF StagesGoOn
<1>10. TypeOK'
  BY <1>2, <1>3, <1>4, Zenon DEF IInv, TypeOK
<1>11. GoroutinesOfCreated'
  BY <1>2, <1>5 DEF IInv, GoroutinesOfCreated
<1>12. QED BY <1>2, <1>6, <1>7, <1>8, <1>9, <1>10, <1>11 DEF Orderly

(* A stage that goes on without a place in the room.                       *)
LEMMA StageOrderly ==
  ASSUME IInv, NEW c \in Conns, NEW s, s # "joined",
         stage[c] # "joined", c \in created => s \in {"joining", "dropped"},
         stage' = [stage EXCEPT ![c] = s],
         \A d \in created : open'[d] => open[d],
         \A d \in Conns : open[d] => open'[d],
         UNCHANGED <<players, sessions>>
  PROVE  Orderly
<1>1. stage \in [Conns -> {"none", "admitted", "joining", "joined", "dropped"}]
  BY DEF IInv, TypeOK
<1>2. NobodyOpens
  BY DEF NobodyOpens
<1>3. EntriesMove /\ EntriesStayOpen /\ EntriesLeave
  <2>1. \A p \in Players : players[p] # None => players[p] \in Conns /\ open[players[p]]
    BY DEF IInv, TypeOK, RoomHoldsOpenConns
  <2>2. players' = players
    OBVIOUS
  <2>3. QED BY <2>1, <2>2, Zenon DEF EntriesMove, EntriesStayOpen, EntriesLeave
<1>4. StagesGoOn
  BY <1>1 DEF StagesGoOn, created
<1>5. QED BY <1>2, <1>3, <1>4 DEF Orderly

LEMMA NewConnStep ==
  ASSUME IInv, NEW c \in Conns, Admit(c) \/ NewPlayerConn(c) \/ GiveUpJoin(c)
  PROVE  Orderly /\ TypeOK' /\ GoroutinesOfCreated'
<1>1. /\ stage \in [Conns -> {"none", "admitted", "joining", "joined", "dropped"}]
      /\ open \in [Conns -> BOOLEAN]
  BY DEF IInv, TypeOK
<1>2. UNCHANGED <<gone, players, sessions, active, closed, closing, walk, receiving, inHand>>
  BY DEF Admit, NewPlayerConn, GiveUpJoin, roomVars, closeVars
<1>3. CASE Admit(c) \/ GiveUpJoin(c)
  <2>1. UNCHANGED <<open, reader, ping>>
    BY <1>3 DEF Admit, GiveUpJoin
  <2>2. stage' \in [Conns -> {"none", "admitted", "joining", "joined", "dropped"}]
        /\ created' = created
    BY <1>1, <1>3 DEF Admit, GiveUpJoin, created
  <2>3. Orderly
    <3>1. CASE Admit(c)
      <4>1. stage[c] = "none" /\ stage' = [stage EXCEPT ![c] = "admitted"] /\ c \notin created
        BY <3>1 DEF Admit, created
      <4>2. QED BY <1>2, <2>1, <4>1, StageOrderly
    <3>2. CASE GiveUpJoin(c)
      <4>1. stage[c] = "joining" /\ stage' = [stage EXCEPT ![c] = "dropped"]
        BY <3>2 DEF GiveUpJoin
      <4>2. QED BY <1>2, <2>1, <4>1, StageOrderly
    <3>3. QED BY <1>3, <3>1, <3>2
  <2>4. TypeOK'
    BY <1>2, <2>1, <2>2, Zenon DEF IInv, TypeOK
  <2>5. GoroutinesOfCreated'
    BY <2>1, <2>2 DEF IInv, GoroutinesOfCreated
  <2>6. QED BY <2>3, <2>4, <2>5
<1>4. CASE NewPlayerConn(c)
  <2>1. stage[c] = "admitted" /\ stage' = [stage EXCEPT ![c] = "joining"] /\ c \notin created
    BY <1>4 DEF NewPlayerConn, created
  <2>2. /\ stage' \in [Conns -> {"none", "admitted", "joining", "joined", "dropped"}]
        /\ created' = created \cup {c}
    BY <1>1, <2>1 DEF created
  <2>3. open' = [open EXCEPT ![c] = TRUE] /\ open' \in [Conns -> BOOLEAN]
    BY <1>1, <1>4 DEF NewPlayerConn
  <2>4. /\ \A d \in Conns : d # c => open'[d] = open[d]
        /\ open'[c]
    BY <1>1, <2>3
  <2>5. /\ \A d \in created : open'[d] => open[d]
        /\ \A d \in Conns : open[d] => open'[d]
    BY <2>1, <2>4 DEF created
  <2>6. Orderly
    BY <1>2, <2>1, <2>5, StageOrderly
  <2>7. reader' = [reader EXCEPT ![c] = "reading"] /\ ping' = [ping EXCEPT ![c] = "on"]
    BY <1>4 DEF NewPlayerConn
  <2>8. reader' \in [Conns -> {"off", "reading", "msg", "leave", "done"}]
        /\ ping' \in [Conns -> {"off", "on", "leave", "done"}]
    BY <2>7 DEF IInv, TypeOK
  <2>9. TypeOK'
    BY <1>2, <2>2, <2>3, <2>8, Zenon DEF IInv, TypeOK
  <2>10. GoroutinesOfCreated'
    BY <2>2, <2>7 DEF IInv, TypeOK, GoroutinesOfCreated
  <2>11. QED BY <2>6, <2>9, <2>10
<1>5. QED BY <1>3, <1>4

(* Clients, the goroutines of a connection and the run of Close.           *)
LEMMA QuietStep ==
  ASSUME IInv,
         \/ \E c \in Conns : Vanish(c) \/ Read(c) \/ ReadError(c) \/ PingError(c)
                             \/ GiveUpRead(c) \/ GiveUpPing(c)
         \/ CloseBegin \/ CloseDone \/ RunReturns \/ UNCHANGED vars
  PROVE  Orderly /\ TypeOK' /\ GoroutinesOfCreated'
<1>1. UNCHANGED Rest
  BY DEF Vanish, Read, ReadError, PingError, GiveUpRead, GiveUpPing, CloseBegin, CloseDone,
         RunReturns, vars, connVars, roomVars, Rest
<1>2. Orderly
  BY <1>1, QuietOrderly
<1>3. UNCHANGED <<stage, open, players, sessions>> /\ created' = created
  BY <1>1 DEF Rest, created
<1>4. ASSUME NEW c \in Conns,
             Vanish(c) \/ Read(c) \/ ReadError(c) \/ PingError(c) \/ GiveUpRead(c) \/ GiveUpPing(c)
      PROVE  TypeOK' /\ GoroutinesOfCreated'
  <2>1. UNCHANGED <<active, closed, closing, walk, receiving, inHand>>
    BY <1>4 DEF Vanish, Read, ReadError, PingError, GiveUpRead, GiveUpPing, roomVars, closeVars
  <2>2. gone' \in [Conns -> BOOLEAN]
    BY <1>4 DEF Vanish, Read, ReadError, PingError, GiveUpRead, GiveUpPing, IInv, TypeOK
  <2>3. reader' \in [Conns -> {"off", "reading", "msg", "leave", "done"}]
        /\ ping' \in [Conns -> {"off", "on", "leave", "done"}]
    BY <1>4 DEF Vanish, Read, ReadError, PingError, GiveUpRead, GiveUpPing, IInv, TypeOK
  <2>4. TypeOK'
    BY <1>3, <2>1, <2>2, <2>3, Zenon DEF IInv, TypeOK
  <2>5. \A d \in Conns : (reader'[d] # "off" => reader[d] # "off") /\ (ping'[d] # "off" => ping[d] # "off")
    BY <1>4 DEF Vanish, Read, ReadError, PingError, GiveUpRead, GiveUpPing, IInv, TypeOK
  <2>6. GoroutinesOfCreated'
    BY <1>3, <2>5 DEF IInv, GoroutinesOfCreated
  <2>7. QED BY <2>4, <2>6
<1>5. ASSUME CloseBegin \/ CloseDone \/ RunReturns \/ UNCHANGED vars
      PROVE  TypeOK' /\ GoroutinesOfCreated'
  <2>1. UNCHANGED <<gone, reader, ping>>
    BY <1>5 DEF CloseBegin, CloseDone, RunReturns, vars, connVars
  <2>2. GoroutinesOfCreated'
    BY <1>3, <2>1 DEF IInv, GoroutinesOfCreated
  <2>3. /\ active' \in BOOLEAN /\ closed' \in BOOLEAN /\ receiving' \in BOOLEAN
        /\ closing' \in {"no", "closing", "done"}
    BY <1>5, Zenon DEF CloseBegin, CloseDone, RunReturns, vars, roomVars, closeVars, IInv, TypeOK
  <2>4. walk' \subseteq Conns /\ inHand' \in {None} \cup (Senders \X Conns)
    BY <1>5 DEF CloseBegin, CloseDone, RunReturns, vars, closeVars, inRoom, IInv, TypeOK
  <2>5. TypeOK'
    BY <1>3, <2>1, <2>3, <2>4, Zenon DEF IInv, TypeOK
  <2>6. QED BY <2>2, <2>5
<1>6. TypeOK' /\ GoroutinesOfCreated'
  BY <1>4, <1>5
<1>7. QED BY <1>2, <1>6

LEMMA NextStep ==
  ASSUME IInv, [Next]_vars
  PROVE  Orderly /\ TypeOK' /\ GoroutinesOfCreated'
BY NewConnStep, QuietStep, HandleJoinStep, HandleLeaveStep, HandleMsgStep, CloseConnStep DEF Next

-----------------------------------------------------------------------------
LEMMA InitInv == Init => IInv
<1> SUFFICES ASSUME Init PROVE IInv
  OBVIOUS
<1>1. TypeOK
  BY Zenon DEF Init, TypeOK, NobodyIn
<1>2. RoomHoldsOpenConns /\ GoroutinesOfCreated /\ SingleConnStaysIn
  BY DEF Init, NobodyIn, RoomHoldsOpenConns, GoroutinesOfCreated, SingleConnStaysIn
<1>3. QED BY <1>1, <1>2 DEF IInv

LEMMA NextInv == IInv /\ [Next]_vars => IInv'
<1> SUFFICES ASSUME IInv, [Next]_vars PROVE IInv'
  OBVIOUS
<1>1. Orderly /\ TypeOK' /\ GoroutinesOfCreated'
  BY NextStep
<1>2. RoomHoldsOpenConns'
  <2> SUFFICES ASSUME NEW p \in Players, players'[p] # None
               PROVE  /\ Owner[players'[p]] = p /\ open'[players'[p]]
                      /\ stage'[players'[p]] = "joined" /\ p \in sessions'
    BY DEF RoomHoldsOpenConns
  <2>1. CASE players'[p] = players[p]
    <3>1. /\ players[p] \in Conns /\ Owner[players[p]] = p /\ stage[players[p]] = "joined"
          /\ p \in sessions
      BY <2>1 DEF IInv, TypeOK, RoomHoldsOpenConns
    <3>2. open'[players[p]] /\ stage'[players[p]] = "joined" /\ p \in sessions'
      BY <1>1, <2>1, <3>1 DEF Orderly, EntriesStayOpen, StagesGoOn
    <3>3. QED BY <2>1, <3>1, <3>2
  <2>2. CASE players'[p] # players[p]
    <3>1. PICK c \in Conns : Joins(p, c)
      BY <1>1, <2>2 DEF Orderly, EntriesMove
    <3>2. QED BY <3>1 DEF Joins
  <2>3. QED BY <2>1, <2>2
<1>3. SingleConnStaysIn'
  <2> SUFFICES ASSUME NEW c \in Conns, stage'[c] = "joined", open'[c],
                      \A d \in created' : Owner[d] = Owner[c] => d = c
               PROVE  players'[Owner[c]] = c
    BY DEF SingleConnStaysIn, inRoom
  <2>1. \A d \in created : Owner[d] = Owner[c] => d = c
    BY <1>1 DEF Orderly, StagesGoOn, created
  <2>2. CASE stage[c] = "joined"
    <3>1. c \in created
      BY <2>2 DEF created
    <3>2. open[c]
      BY <1>1, <3>1 DEF Orderly, NobodyOpens
    <3>3. players[Owner[c]] = c
      BY <2>1, <2>2, <3>2 DEF IInv, SingleConnStaysIn, inRoom
    <3>4. players'[Owner[c]] # None
      BY <1>1, <2>1, <3>3 DEF Orderly, EntriesLeave
    <3>5. CASE players'[Owner[c]] # players[Owner[c]]
      <4>1. PICK d \in Conns : Joins(Owner[c], d)
        BY <1>1, <3>4, <3>5 DEF Orderly, EntriesMove
      <4>2. d \in created
        BY <4>1 DEF Joins, created
      <4>3. QED BY <2>1, <4>1, <4>2 DEF Joins
    <3>6. QED BY <3>3, <3>5
  <2>3. CASE stage[c] # "joined"
    BY <1>1, <2>3 DEF Orderly, StagesGoOn
  <2>4. QED BY <2>2, <2>3
<1>4. QED BY <1>1, <1>2, <1>3 DEF IInv

LEMMA AlwaysIInv == Spec => []IInv
BY InitInv, NextInv, PTL DEF Spec

-----------------------------------------------------------------------------
(* Every variable of the room has its type.                                *)
THEOREM RoomTypeCorrect == Spec => []TypeOK
BY AlwaysIInv, PTL DEF IInv

(* What sendAll writes to is open on this side, belongs to its player and  *)
(* has a session, however joins, leaves, failed writes and Close meet.     *)
THEOREM RoomHoldsCorrect == Spec => []RoomHoldsOpenConns
BY AlwaysIInv, PTL DEF IInv

(* Nobody but a second connection of the same player, or the end of the    *)
(* connection, takes a player out of the room.                             *)
THEOREM SingleConnCorrect == Spec => []SingleConnStaysIn
BY AlwaysIInv, PTL DEF IInv

(* The connection that loses its place to another one is closed.           *)
THEOREM ReplacedCorrect == Spec => ReplacedIsClosed
<1>1. IInv /\ [Next]_vars =>
        [\A p \in Players :
           players[p] # None /\ players'[p] \notin {None, players[p]}
             => ~ open'[players[p]]]_vars
  <2> SUFFICES ASSUME IInv, [Next]_vars, NEW p \in Players,
                      players[p] # None, players'[p] \notin {None, players[p]}
               PROVE  ~ open'[players[p]]
    OBVIOUS
  <2>1. PICK c \in Conns : Joins(p, c)
    BY NextStep DEF Orderly, EntriesMove
  <2>2. QED BY <2>1 DEF Joins
<1>2. QED BY <1>1, AlwaysIInv, PTL DEF Spec, ReplacedIsClosed

(* A connection that the server has closed stays closed and out.           *)
THEOREM ClosedStaysOutCorrect == Spec => ClosedConnStaysOut
<1>1. IInv /\ [Next]_vars =>
        [\A c \in created : ~ open[c] => ~ open'[c] /\ players'[Owner[c]] # c]_vars
  <2> SUFFICES ASSUME IInv, [Next]_vars, NEW c \in created, ~ open[c]
               PROVE  ~ open'[c] /\ players'[Owner[c]] # c
    OBVIOUS
  <2>1. ~ open'[c]
    BY NextStep DEF Orderly, NobodyOpens
  <2>2. c \in Conns /\ IInv'
    BY NextInv DEF created
  <2>3. players'[Owner[c]] # c
    BY <2>1, <2>2 DEF IInv, RoomHoldsOpenConns
  <2>4. QED BY <2>1, <2>3
<1>2. QED BY <1>1, AlwaysIInv, PTL DEF Spec, ClosedConnStaysOut
=============================================================================
