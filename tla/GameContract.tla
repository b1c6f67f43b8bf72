---------------------------- MODULE GameContract ----------------------------
(***************************************************************************)
(* What a game promises to its players, seen from outside the room: they   *)
(* enter, somebody begins the game, each player gets done once, and the    *)
(* game is finished by the player that gets done last and by nothing else. *)
(* Until then the game may be abandoned.                                   *)
(*                                                                         *)
(* done is the set of the players that guessed the word or have no guess   *)
(* left; heard says whether a message of a player can still have an        *)
(* effect.  Whoever finishes a game that is being played ends that at the  *)
(* same step.  An abandoned room may hear a little longer, and even finish *)
(* its game.  Entering a game that is being played is allowed: room.join   *)
(* creates a session whatever the state of the game.                       *)
(***************************************************************************)
CONSTANT Players

VARIABLES phase, heard, players, done

cvars == <<phase, heard, players, done>>

Phases == {"lobby", "playing", "finished", "abandoned"}

CInit ==
  /\ phase = "lobby"
  /\ heard = TRUE
  /\ players = {}
  /\ done = {}

Enter(p) ==
  /\ heard
  /\ players' = players \cup {p}
  /\ UNCHANGED <<phase, heard, done>>

Begin ==
  /\ phase = "lobby"
  /\ phase' = "playing"
  /\ UNCHANGED <<heard, players, done>>

GetDone(p) ==
  /\ heard
  /\ phase # "lobby"
  /\ p \in players \ done
  /\ done' = done \cup {p}
  /\ phase' = IF done' = players THEN "finished" ELSE phase
  /\ heard' \in IF phase = "playing" THEN {phase' = "playing"} ELSE BOOLEAN
  /\ UNCHANGED players

Abandon ==
  /\ phase \in {"lobby", "playing"}
  /\ phase' = "abandoned"
  /\ UNCHANGED <<heard, players, done>>

(* A room that was closed with its game unfinished stops listening.        *)
Silence ==
  /\ phase \in {"abandoned", "finished"}
  /\ heard' = FALSE
  /\ UNCHANGED <<phase, players, done>>

CNext ==
  \/ \E p \in Players : Enter(p) \/ GetDone(p)
  \/ Begin
  \/ Abandon
  \/ Silence

CSpec == CInit /\ [][CNext]_cvars
=============================================================================
