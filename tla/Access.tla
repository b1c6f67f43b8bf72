------------------------------- MODULE Access -------------------------------
(***************************************************************************)
(* From a login to a room: requests that the session middleware has let in *)
(* make a room and ask for an invite to it (handler/handler.go); the       *)
(* invites (service/random/random.go) are kept in memory, one for a player *)
(* and a game however often it is asked for, and old ones are cleaned up.  *)
(* GET /live takes the invite for the player, whatever has become of the   *)
(* session.  One account and one game.                                     *)
(***************************************************************************)
EXTENDS Login

CONSTANTS Life,       \* valueMaxLife
          MaxCrashes  \* bound: crashes of the server

ASSUME LifeAssumption == Life \in Nat \ {0} /\ MaxCrashes \in Nat

VARIABLES
  made,    \* Game.CreatedAt; NoToken: there is no game
  invite,  \* createdAt of the value in RandomGen.s; NoToken: there is none
  crashes

accessVars == <<loginVars, made, invite, crashes>>

AccessInit ==
  /\ LoginInit
  /\ made = NoToken /\ invite = NoToken /\ crashes = 0

CreateRoom(c) ==
  /\ made = NoToken
  /\ Served(c)
  /\ made' = clock
  /\ UNCHANGED <<invite, crashes>>

(* Store gives the token out again that it has.                            *)
Stored(value) == IF value = NoToken THEN clock ELSE value

(* GetRoom may not find the room any more; then nothing is given out.      *)
JoinRoom(c) ==
  /\ made # NoToken
  /\ Served(c)
  /\ invite' = Stored(invite)
  /\ UNCHANGED <<made, crashes>>

TooOld(value) == clock - value > Life

Cleanup ==
  /\ invite # NoToken /\ TooOld(invite)
  /\ invite' = NoToken
  /\ UNCHANGED <<loginVars, made, crashes>>

(* The process dies with the requests and the invites; the game may come   *)
(* back from redis with its time of creation.                              *)
Crash ==
  /\ crashes < MaxCrashes
  /\ crashes' = crashes + 1
  /\ call' = [c \in Calls |-> Idle]
  /\ invite' = NoToken
  /\ UNCHANGED <<clock, session, jar, stored, again, latest, left, made>>

AccessNext ==
  \/ LoginNext /\ UNCHANGED <<made, invite, crashes>>
  \/ \E c \in Calls : CreateRoom(c) \/ JoinRoom(c)
  \/ Cleanup \/ Crash

AccessSpec == AccessInit /\ [][AccessNext]_accessVars
-----------------------------------------------------------------------------
(* Type invariant; no invite is older than its game or newer than now.     *)
TypeOK ==
  /\ LoginTypeOK
  /\ made \in 0..clock
  /\ invite \in {NoToken} \cup made..clock /\ crashes \in 0..MaxCrashes
=============================================================================
