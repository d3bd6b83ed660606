--------------------------- MODULE MCDeviceTracker ---------------------------
(* DeviceTracker with two random addresses and a fixed one, one room and   *)
(* the outside.  The delays keep their order on a coarse clock: a merge     *)
(* comes before a device is forgotten.                                      *)
EXTENDS DeviceTracker, TLC

(* The hash codes of the two random addresses start with the same four      *)
(* digits: they collide when their devices appear at the same time.         *)
SameHash(m) == 0

MACSymmetry == Permutations(LocalMACs)
=============================================================================
