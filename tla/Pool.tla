-------------------------------- MODULE Pool --------------------------------
(***************************************************************************)
(* The connections to postgres.  Begin takes one from the pool until the   *)
(* end of the transaction; a query outside of a transaction takes one for  *)
(* itself.  FinishGame (repository/postgres/game.go) does both: it writes  *)
(* ended_at through the pool while its transaction has a connection in its *)
(* hands.  Room.Close gives it a context that is never done, so a call     *)
(* that finds no free connection waits.                                    *)
(***************************************************************************)
EXTENDS Naturals, FiniteSets

CONSTANTS Games,    \* games that end, each in a room of its own
          Queries,  \* bound: other calls, which need one connection
          MaxConns  \* pgxpool's max_conns


VARIABLES at  \* where each call stands

Calls == Games \cup Queries

(* Connections in the hands of a call.                                     *)
Held(c) == CASE at[c] \in {"idle", "begin", "done"} -> 0
             [] at[c] \in {"tx", "results"} -> 1
             [] at[c] = "row" -> 2

Free ==
  LET With(n) == Cardinality({c \in Calls : Held(c) = n})
  IN MaxConns - With(1) - 2 * With(2)

Init == at = [c \in Calls |-> "idle"]

Step(c, from, to) == at[c] = from /\ at' = [at EXCEPT ![c] = to]

(* A game ends, a request comes.                                           *)
Call(c) == Step(c, "idle", "begin")

(* db.Begin and the query for the game, or a single query, or the          *)
(* transaction of a start or a wipe.                                       *)
Begin(c) == Free > 0 /\ Step(c, "begin", "tx")

(* r.q.FinishGame outside of the transaction.                              *)
FinishRow(g) == Free > 0 /\ Step(g, "tx", "row")

(* The second connection goes back.                                        *)
RowWritten(g) == Step(g, "row", "results")

(* The results are written and committed.                                  *)
Commit(g) == Step(g, "results", "done")

(* Any error rolls back.                                                   *)
Fails(c) == at[c] \in {"tx", "row", "results"} /\ at' = [at EXCEPT ![c] = "done"]

(* Other calls come again and again.                                       *)
Answered(q) == Step(q, "tx", "idle")

Finish(g) == Begin(g) \/ FinishRow(g) \/ RowWritten(g) \/ Commit(g)

Next ==
  \/ \E c \in Calls : Call(c)
  \/ \E g \in Games : Finish(g) \/ Fails(g)
  \/ \E q \in Queries : Begin(q) \/ Answered(q)

(* Queries return, and a connection that is free now and then comes to     *)
(* whoever waits for it: the pool serves its waiters in order.             *)
Spec ==
  /\ Init /\ [][Next]_at
  /\ \A c \in Calls : SF_at(Begin(c))
  /\ \A g \in Games : SF_at(FinishRow(g)) /\ WF_at(RowWritten(g)) /\ WF_at(Commit(g))
  /\ \A q \in Queries : WF_at(Answered(q))
-----------------------------------------------------------------------------
(* README.md:39 says "It performs the write to the permanent storage when  *)
(* the game has ended": the call that does so comes to an end, with the    *)
(* results written or with an error that Room.Close logs.                  *)
EndedGameIsWritten == \A g \in Games : at[g] = "begin" ~> at[g] = "done"
=============================================================================
