----------------------------- MODULE GameRecord -----------------------------
(***************************************************************************)
(* What the permanent area promises of one game: it is written when the    *)
(* game starts, to fix the players, and when it ends, with a result for    *)
(* each of them; results do not change after that.  A game that is deleted *)
(* does not come back.                                                     *)
(***************************************************************************)
CONSTANTS Players,  \* usernames
          Over      \* sessions that have ended

VARIABLES phase, rows, results

recordVars == <<phase, rows, results>>

NoResults == [p \in {} |-> p]

Init == phase = "none" /\ rows = {} /\ results = NoResults

Begin ==
  /\ phase = "none" /\ phase' = "started"
  /\ rows' \in SUBSET Players
  /\ UNCHANGED results

End ==
  /\ phase = "started" /\ phase' = "ended"
  /\ UNCHANGED <<rows, results>>

Record ==
  /\ phase = "ended" /\ phase' = "recorded"
  /\ results' \in [rows -> Over]
  /\ UNCHANGED rows

Delete ==
  /\ phase' = "deleted"
  /\ rows' = {} /\ results' = NoResults

Next == Begin \/ End \/ Record \/ Delete

Spec == Init /\ [][Next]_recordVars
=============================================================================
