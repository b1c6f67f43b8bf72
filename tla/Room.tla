-------------------------------- MODULE Room --------------------------------
(***************************************************************************)
(* The connections of one room (game/room.go).  Each connection has an     *)
(* HTTP handler that sends its PJoin, a reader and a ping goroutine; all   *)
(* of them send to the unbuffered channel Room.broadcast through           *)
(* tryBroadcast, and the run goroutine handles one message at a time.  So  *)
(* the channel is the set of the blocked senders, received in any order.   *)
(* The hub's collector calls Close from a goroutine of its own.            *)
(*                                                                         *)
(* What a client asks for is decided when its message is handled: nobody   *)
(* looks at it before.  Guesses and scores are the business of Game.tla.   *)
(***************************************************************************)
EXTENDS Naturals, FiniteSets

CONSTANTS Conns,     \* connections; each is opened at most once
          Players,   \* usernames
          Owner,     \* the player of each connection
          Creator,   \* Game.Creator
          None,      \* no connection
          MaxVanished \* bound: connections whose peer may vanish

ASSUME OwnerAssumption == Owner \in [Conns -> Players]
ASSUME CreatorAssumption == Creator \in Players
ASSUME NoneAssumption == None \notin Conns
ASSUME MaxVanishedAssumption == MaxVanished \in Nat

VARIABLES
  stage,     \* how far the HTTP handler of a connection has come
  open,      \* PlayerConn.active: not closed by the server
  gone,      \* the peer has closed the connection or vanished
  reader,    \* what the reader goroutine does or waits to send
  ping,      \* the same for the ping goroutine
  players,   \* Room.players
  sessions,  \* the players with an entry in Game.Sessions
  active,    \* Room.active
  closed,    \* Room.closed, and the context is cancelled
  closing,   \* how far Close has come
  walk,      \* entries of players that Close found when it began its loop
  receiving, \* run has not returned and the channel is not nil
  inHand     \* the message run was handling when the collector's Close began

connVars == <<stage, open, gone, reader, ping>>
roomVars == <<players, sessions, active>>
closeVars == <<closed, closing, walk, receiving>>
vars == <<connVars, roomVars, closeVars, inHand>>

(* Room.players reset instead of emptied.                                  *)
NilMap == <<>>

NobodyIn == [p \in Players |-> None]

inRoom == {c \in Conns : players[Owner[c]] = c}

created == {c \in Conns : stage[c] \in {"joining", "joined", "dropped"}}

Init ==
  /\ stage = [c \in Conns |-> "none"]
  /\ open = [c \in Conns |-> FALSE]
  /\ gone = [c \in Conns |-> FALSE]
  /\ reader = [c \in Conns |-> "off"]
  /\ ping = [c \in Conns |-> "off"]
  /\ players = NobodyIn
  /\ sessions = {}
  /\ active = FALSE
  /\ closed = FALSE
  /\ closing = "no"
  /\ walk = {}
  /\ receiving = TRUE
  /\ inHand = None

-----------------------------------------------------------------------------
(* handler.live: CanJoin first; the upgrade and newPlayerConn later, when  *)
(* the answer of CanJoin may have changed.                                 *)
Admit(c) ==
  /\ stage[c] = "none"
  /\ ~ closed
  /\ active => Owner[c] \in sessions
  /\ stage' = [stage EXCEPT ![c] = "admitted"]
  /\ UNCHANGED <<open, gone, reader, ping, roomVars, closeVars, inHand>>

NewPlayerConn(c) ==
  /\ stage[c] = "admitted"
  /\ stage' = [stage EXCEPT ![c] = "joining"]
  /\ open' = [open EXCEPT ![c] = TRUE]
  /\ reader' = [reader EXCEPT ![c] = "reading"]
  /\ ping' = [ping EXCEPT ![c] = "on"]
  /\ UNCHANGED <<gone, roomVars, closeVars, inHand>>

(* To vanish from a connection the server has closed makes no difference.  *)
Vanish(c) ==
  /\ c \in created /\ open[c] /\ ~ gone[c]
  /\ Cardinality({d \in Conns : gone[d]}) < MaxVanished
  /\ gone' = [gone EXCEPT ![c] = TRUE]
  /\ UNCHANGED <<stage, open, reader, ping, roomVars, closeVars, inHand>>

(* PlayerConn.read: a message of the client, or an error.                  *)
Read(c) ==
  /\ reader[c] = "reading" /\ open[c] /\ ~ gone[c]
  /\ reader' = [reader EXCEPT ![c] = "msg"]
  /\ UNCHANGED <<stage, open, gone, ping, roomVars, closeVars, inHand>>

ReadError(c) ==
  /\ reader[c] = "reading" /\ (gone[c] \/ ~ open[c])
  /\ reader' = [reader EXCEPT ![c] = "leave"]
  /\ UNCHANGED <<stage, open, gone, ping, roomVars, closeVars, inHand>>

(* PlayerConn.ping: the write fails.  close() stops the ticker, but a tick *)
(* may already have been delivered; without one the goroutine stays "on".  *)
PingError(c) ==
  /\ ping[c] = "on" /\ (gone[c] \/ ~ open[c])
  /\ ping' = [ping EXCEPT ![c] = "leave"]
  /\ UNCHANGED <<stage, open, gone, reader, roomVars, closeVars, inHand>>

-----------------------------------------------------------------------------
Senders == {"join", "read", "ping"}

(* The messages that are sent or in hand, by the goroutine that sent them. *)
Pending(k, c) ==
  \/ k = "join" /\ stage[c] = "joining"
  \/ k = "read" /\ reader[c] \in {"msg", "leave"}
  \/ k = "ping" /\ ping[c] = "leave"

(* run handles the message it has in hand, or receives one until Close     *)
(* sets the channel to nil.  When the context is done its select may pick  *)
(* either case, if run was not waiting in it.                              *)
Handling(k, c) ==
  /\ IF inHand = None THEN receiving ELSE inHand = <<k, c>>
  /\ inHand' = None

(* tryBroadcast without the case of the context.                           *)
NeverGivesUp(k, c) == FALSE

(* tryBroadcast gives up when the context is done.                         *)
GivesUp(k, c) == closed /\ inHand # <<k, c>>

(* sendAll: the writes to some of the vanished peers fail, and leave       *)
(* closes those and removes them; what it broadcasts may fail in turn.     *)
Failing(pl) == {c \in Conns : pl[Owner[c]] = c /\ gone[c]}

Without(pl, F) == [p \in Players |-> IF pl[p] \in F THEN None ELSE pl[p]]

Shut(op, F) == [c \in Conns |-> op[c] /\ c \notin F]

(* sendAll that forgets those it could not reach without closing them.     *)
SendAllWithoutClose(pl, op) ==
  \E F \in SUBSET Failing(pl) :
    /\ players' = Without(pl, F)
    /\ open' = op

SendAll(pl, op) ==
  \E F \in SUBSET Failing(pl) :
    /\ players' = Without(pl, F)
    /\ open' = Shut(op, F)

(* leave as delete(r.players, name) would be with the connection compared. *)
LeaveNobody(pl, c) == pl

(* leave: the entry of the player is deleted by name, whoever it holds.    *)
Deleted(pl, c) == [pl EXCEPT ![Owner[c]] = None]

(* A connection that leaves: nothing if the server has closed it already.  *)
Leave(c) ==
  \/ ~ open[c] /\ UNCHANGED <<open, players>>
  \/ open[c] /\ SendAll(Deleted(players, c), Shut(open, {c}))

HandleLeave(c) ==
  /\ \/ /\ Handling("read", c)
        /\ reader[c] = "leave"
        /\ reader' = [reader EXCEPT ![c] = "done"]
        /\ UNCHANGED ping
     \/ /\ Handling("ping", c)
        /\ ping[c] = "leave"
        /\ ping' = [ping EXCEPT ![c] = "done"]
        /\ UNCHANGED reader
  /\ Leave(c)
  /\ UNCHANGED <<stage, gone, sessions, active, closeVars>>

(* join that only forgets the connection of the player it replaces.        *)
KickNobody(c) == {}

(* join kicks out the connection the player has in the room.               *)
Kicked(c) == {players[Owner[c]]} \ {None}

(* join that does not look at the error of the first write.                *)
ReachedAnyway(c) == TRUE

(* A write to c may get through, as it may to a peer that has vanished.    *)
Reached(c) == open[c]

HandleJoin(c) ==
  LET pl == [players EXCEPT ![Owner[c]] = None]
      op == Shut(open, Kicked(c))
  IN
  /\ Handling("join", c)
  /\ stage[c] = "joining"
  /\ stage' = [stage EXCEPT ![c] = "joined"]
  /\ sessions' = sessions \cup {Owner[c]}
  /\ \/ /\ Reached(c)                     \* the CData gets through
        /\ SendAll([pl EXCEPT ![Owner[c]] = c], op)
     \/ /\ gone[c] \/ ~ open[c]           \* it does not: close and return
        /\ IF players[Owner[c]] = None
           THEN players' = pl /\ open' = Shut(op, {c})
           ELSE SendAll(pl, Shut(op, {c}))
  /\ UNCHANGED <<gone, reader, ping, active, closeVars>>

-----------------------------------------------------------------------------
(* What the run goroutine does with a message of the client of c.          *)
Answered(c) ==
  /\ Handling("read", c)
  /\ reader[c] = "msg"
  /\ reader' = [reader EXCEPT ![c] = "reading"]
  /\ UNCHANGED <<stage, gone, ping, sessions>>

(* An error is written to the sender, and nothing changes: unknown type,   *)
(* not the creator, not active, no session, no guess left, invalid word.   *)
HandleRejected(c) ==
  /\ Answered(c)
  /\ UNCHANGED <<open, players, active, closeVars>>

(* Room.message                                                            *)
HandleMessage(c) ==
  /\ Answered(c)
  /\ SendAll(players, open)
  /\ UNCHANGED <<active, closeVars>>

(* Room.start, when the service stored the game: active is set even if     *)
(* Close began meanwhile.  Once the context is done no new start succeeds. *)
HandleStart(c) ==
  /\ Answered(c)
  /\ Owner[c] = Creator /\ ~ active
  /\ closed => inHand # None
  /\ active' = TRUE
  /\ SendAll(players, open)
  /\ UNCHANGED closeVars

(* Room.play of an accepted guess that does not end the game.              *)
HandlePlay(c) ==
  /\ Answered(c)
  /\ active /\ Owner[c] \in sessions
  /\ SendAll(players, open)
  /\ UNCHANGED <<active, closeVars>>

(* Room.play of the guess that ends the game: the broadcasts, then Close   *)
(* in the same goroutine, which returns at once if the room is closed.     *)
HandleLastPlay(c) ==
  /\ Answered(c)
  /\ active /\ Owner[c] \in sessions
  /\ IF closed
     THEN SendAll(players, open) /\ UNCHANGED <<active, closeVars>>
     ELSE /\ players' = NobodyIn
          /\ open' = Shut(open, inRoom)
          /\ active' = FALSE
          /\ closed' = TRUE
          /\ closing' = "done"
          /\ receiving' = FALSE
          /\ UNCHANGED walk

HandleMsg(c) ==
  \/ HandleRejected(c) \/ HandleMessage(c) \/ HandleStart(c)
  \/ HandlePlay(c) \/ HandleLastPlay(c)

(* tryBroadcast gives up: the message is lost, the sender goes on.         *)
GiveUpJoin(c) ==
  /\ GivesUp("join", c)
  /\ stage[c] = "joining"
  /\ stage' = [stage EXCEPT ![c] = "dropped"]
  /\ UNCHANGED <<open, gone, reader, ping, roomVars, closeVars, inHand>>

GiveUpRead(c) ==
  /\ GivesUp("read", c)
  /\ \/ reader[c] = "msg" /\ reader' = [reader EXCEPT ![c] = "reading"]
     \/ reader[c] = "leave" /\ reader' = [reader EXCEPT ![c] = "done"]
  /\ UNCHANGED <<stage, open, gone, ping, roomVars, closeVars, inHand>>

GiveUpPing(c) ==
  /\ GivesUp("ping", c)
  /\ ping[c] = "leave"
  /\ ping' = [ping EXCEPT ![c] = "done"]
  /\ UNCHANGED <<stage, open, gone, reader, roomVars, closeVars, inHand>>

-----------------------------------------------------------------------------
(* Room.Close called by the collector: the flags and cancelCtx; then the   *)
(* loop over players, which may or may not visit what is added meanwhile;  *)
(* then broadcast = nil.  If run waits in its select it returns; if it is  *)
(* handling a message, that handler takes effect at some later point.      *)
CloseBegin ==
  /\ ~ closed
  /\ closed' = TRUE
  /\ active' = FALSE
  /\ closing' = "closing"
  /\ walk' = inRoom
  /\ \/ /\ receiving' = FALSE
        /\ UNCHANGED inHand
     \/ \E k \in Senders, c \in Conns :
          /\ Pending(k, c)
          /\ inHand' = <<k, c>>
          /\ UNCHANGED receiving
  /\ UNCHANGED <<connVars, players, sessions>>

CloseConn(c) ==
  /\ closing = "closing"
  /\ c \in inRoom
  /\ open' = Shut(open, {c})
  /\ players' = Deleted(players, c)
  /\ UNCHANGED <<stage, gone, reader, ping, sessions, active, closeVars, inHand>>

CloseDone ==
  /\ closing = "closing"
  /\ walk \cap inRoom = {}
  /\ closing' = "done"
  /\ receiving' = FALSE
  /\ walk' = {}
  /\ UNCHANGED <<connVars, roomVars, closed, inHand>>

(* run sees that its context is done.                                      *)
RunReturns ==
  /\ closed /\ receiving /\ inHand = None
  /\ receiving' = FALSE
  /\ UNCHANGED <<connVars, roomVars, closed, closing, walk, inHand>>

Next ==
  \/ \E c \in Conns :
       \/ Admit(c) \/ NewPlayerConn(c) \/ Vanish(c)
       \/ Read(c) \/ ReadError(c) \/ PingError(c)
       \/ HandleJoin(c) \/ HandleLeave(c) \/ HandleMsg(c)
       \/ GiveUpJoin(c) \/ GiveUpRead(c) \/ GiveUpPing(c)
       \/ CloseConn(c)
  \/ CloseBegin \/ CloseDone \/ RunReturns

(* The scheduler runs every goroutine that can run, a sender blocked on a  *)
(* channel is served in its turn, and a read of a dead connection fails in *)
(* the end.  Nothing makes a client, the collector or a tick happen.       *)
Fairness ==
  /\ \A c \in Conns :
       /\ WF_vars(HandleJoin(c)) /\ WF_vars(HandleLeave(c))
       /\ WF_vars(HandleMsg(c)) /\ WF_vars(ReadError(c))
       /\ WF_vars(GiveUpJoin(c)) /\ WF_vars(GiveUpRead(c))
       /\ WF_vars(GiveUpPing(c)) /\ WF_vars(CloseConn(c))
  /\ WF_vars(CloseDone) /\ WF_vars(RunReturns)

Spec == Init /\ [][Next]_vars

FairSpec == Spec /\ Fairness

-----------------------------------------------------------------------------
(* Every variable has its type.                                            *)
TypeOK ==
  /\ stage \in [Conns -> {"none", "admitted", "joining", "joined", "dropped"}]
  /\ open \in [Conns -> BOOLEAN]
  /\ gone \in [Conns -> BOOLEAN]
  /\ reader \in [Conns -> {"off", "reading", "msg", "leave", "done"}]
  /\ ping \in [Conns -> {"off", "on", "leave", "done"}]
  /\ players \in [Players -> Conns \cup {None}]
  /\ sessions \subseteq Players
  /\ active \in BOOLEAN /\ closed \in BOOLEAN /\ receiving \in BOOLEAN
  /\ closing \in {"no", "closing", "done"}
  /\ walk \subseteq Conns
  /\ inHand \in {None} \cup (Senders \X Conns)

(* Room.players never holds a connection the server has closed, one that   *)
(* belongs to somebody else or one of a player without a session: what     *)
(* sendAll writes to is alive on this side, however leaves, kicks, failed  *)
(* writes and the collector interleave.                                    *)
RoomHoldsOpenConns ==
  \A p \in Players : players[p] # None =>
    LET c == players[p] IN
    Owner[c] = p /\ open[c] /\ stage[c] = "joined" /\ p \in sessions

(* A player with one connection is in the room as long as it is open.      *)
SingleConnStaysIn ==
  \A c \in Conns :
    /\ stage[c] = "joined" /\ open[c]
    /\ \A d \in created : Owner[d] = Owner[c] => d = c
    => c \in inRoom

(* Whoever loses its place in the room to another connection is closed, so *)
(* a player never hears the game twice.                                    *)
ReplacedIsClosed ==
  [][\A p \in Players :
       players[p] # None /\ players'[p] \notin {None, players[p]}
         => ~ open'[players[p]]]_vars

(* A closed connection is not opened again and does not return to a room.  *)
ClosedConnStaysOut ==
  [][\A c \in created : ~ open[c] => ~ open'[c] /\ players'[Owner[c]] # c]_vars

(* A peer that vanished leaves an open room in the end.                    *)
GoneLeavesRoom ==
  \A c \in Conns : gone[c] /\ c \in inRoom ~> c \notin inRoom \/ closed

(* The reader of a connection the server closed ends: nobody waits for     *)
(* ever to say goodbye to a room, not even to a closed one.                *)
ClosedReaderEnds ==
  \A c \in Conns : c \in created /\ ~ open[c] ~> reader[c] = "done"

(* The HTTP handler of a new connection always returns.                    *)
JoinSettles ==
  \A c \in Conns : stage[c] = "joining" ~> stage[c] \in {"joined", "dropped"}

-----------------------------------------------------------------------------
(* room.go:307: "If the current player isn't the one in player room do     *)
(* nothing": an open connection stays until it is closed itself.           *)
LeavesOnlyItself ==
  [][\A c \in inRoom : players'[Owner[c]] # c => ~ open'[c]]_vars
=============================================================================
