-------------------------- MODULE MCStationRegistry --------------------------
(* StationRegistry with two Room objects of one name: either may be loaded  *)
(* at the start, and either be made in a StationAdder window, in place of a *)
(* room that was deleted or beside it.  Two pool threads let one periodic   *)
(* task start while another is under way; two boards give it a list to go   *)
(* through.  One board is enough to be doubled: a StationAdder window that  *)
(* stayed open gives it a second object in the other room.                  *)
EXTENDS StationRegistry, TLC

OneName(r) == "room"

(* The invariants speak of a board that was never doubled: the safety run   *)
(* goes no further than the doubling.                                       *)
Single == ~doubled

Alike == Permutations(Boards) \cup Permutations(Rooms) \cup Permutations(Tasks)
=============================================================================
