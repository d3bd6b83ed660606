----------------------------- MODULE MCDictStack -----------------------------
(* DictStack on three keys and two elements: with three keys a node can be  *)
(* updated or removed at either end of the chain and between the two, and   *)
(* with two elements an update can change one.  DictStackProofs covers      *)
(* every other size.                                                        *)
EXTENDS DictStack
=============================================================================
