------------------------------ MODULE MCAccess ------------------------------
(* Two requests under way.  One browser: a response that is lost leaves it *)
(* with the cookies that another one would have.                           *)
EXTENDS Access, TLC

Symmetry == Permutations(Calls)

(* Bound: once there is a game, one request at a time.                     *)
OneWithGame ==
  made # NoToken => \A c, d \in Calls : Now(c, "idle") \/ Now(d, "idle") \/ c = d
=============================================================================
