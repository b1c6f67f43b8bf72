----------------------------- MODULE MCArchive -----------------------------
(* The instance of MCHub, with one reader.                                 *)
EXTENDS Archive, TLC

PlayerSymmetry == Permutations(Players)

(* Bound: GetRoom is not called when no room is left to be made.           *)
RoomsLeft == (\E l \in Loaders : load[l].at = "sessions") => Unmade \in {room[r] : r \in Rooms}
=============================================================================
