----------------------------- MODULE RankBoard -----------------------------
(***************************************************************************)
(* type RankBoard of game/game.go: Ranks, the players from first to last,  *)
(* and Positions, the index of each of them in Ranks.  Go counts from 0    *)
(* and TLA+ sequences from 1: Positions holds the Go index.                *)
(*                                                                         *)
(* The loop of FixPosition swaps the player with the one above as long as  *)
(* it ranks higher.  Its outcome is stated directly: the player lands on   *)
(* the one index such that it beats everyone it passed and does not beat   *)
(* whoever is now right above.                                             *)
(***************************************************************************)
EXTENDS PlayerSession, SequencesExt

Better(sess, p, q) == GreaterThan(sess[p].best, sess[q].best)

IndexIn(r, p) == CHOOSE k \in DOMAIN r : r[k] = p

(* NewRankBoard walks a Go map, so any order of the players may come out.  *)
InitialRanks(sess) == SetToSeqs(DOMAIN sess)

InitialPositions(r) == [p \in Range(r) |-> IndexIn(r, p) - 1]

(* r.Positions[username] is 0 for a player that is not on the board.       *)
StartIndex(pos, p) == IF p \in DOMAIN pos THEN pos[p] + 1 ELSE 1

(* A loop that stops one comparison too early.                             *)
LandsAtShort(r, sess, i, j) ==
  /\ \A k \in j..(i - 1) : Better(sess, r[i], r[k])
  /\ j > 2 => ~ Better(sess, r[i], r[j - 1])

(* The loop of FixPosition, entered at index i, ends at index j.           *)
LandsAt(r, sess, i, j) ==
  /\ \A k \in j..(i - 1) : Better(sess, r[i], r[k])
  /\ j > 1 => ~ Better(sess, r[i], r[j - 1])

(* The board after a plain swap of the two players instead of a shift.     *)
MovedUpBySwap(r, i, j) == [r EXCEPT ![j] = r[i], ![i] = r[j]]

MovedUp(r, i, j) ==
  [k \in DOMAIN r |-> IF k = j /\ j < i THEN r[i]
                      ELSE IF k \in (j + 1)..i THEN r[k - 1]
                      ELSE r[k]]

(* Positions updated for the player that moved only.                       *)
RepositionedMoverOnly(pos, r, i, j) ==
  [p \in DOMAIN pos |-> IF j < i /\ r[j] = p THEN j - 1 ELSE pos[p]]

(* The swaps between j and i write the Positions of everyone they touch;   *)
(* r is the board after the move.                                          *)
Repositioned(pos, r, i, j) ==
  [p \in DOMAIN pos |-> IF j < i /\ \E k \in j..i : r[k] = p
                        THEN IndexIn(r, p) - 1 ELSE pos[p]]
=============================================================================
