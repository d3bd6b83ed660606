--------------------------- MODULE MCPacketFusion ----------------------------
(* PacketFusion with three Room objects: a and b stand in the first, c in   *)
(* the second, and d in a third one that has the name of the first.  Board  *)
(* a can be removed and come back as the object a2, or get it while it has  *)
(* the other.  The second packet waits only while just a and b have been    *)
(* created, and the second room and the twin are not both used: the order   *)
(* of packets and the comings and goings of stations are explored apart.    *)
EXTENDS PacketFusion

CONSTANTS a, a2, b, c, d, room1, room2, twin, p1, p2

Board(s) == IF s = a2 THEN a ELSE s
Room(s)  == CASE s = c -> room2 [] s = d -> twin [] OTHER -> room1
Name(r)  == IF r = twin THEN room1 ELSE r

OnlyFirst == DOMAIN recv \subseteq {p1} /\ \A i \in DOMAIN analysis : analysis[i].packet = p1
MCNext == /\ Next
          /\ used' \subseteq {a, b} \/ OnlyFirst'
          /\ Cardinality(used') <= 3 /\ ~({c, d} \subseteq used')
MCSpec == Init /\ [][MCNext]_vars /\ Fairness
=============================================================================
