------------------------------- MODULE Recency -------------------------------
(***************************************************************************)
(* Orders by age, as functions: q[k] is the set of the keys of q that are  *)
(* older than k, that is, whose last insertion or update came before the   *)
(* one of k.  Stored and Forgotten are the matching changes of a function  *)
(* from keys to elements.                                                  *)
(***************************************************************************)

(* The order once k is inserted or updated: k is younger than all others.  *)
Touched(q, k) ==
    [j \in DOMAIN q \cup {k} |-> IF j = k THEN DOMAIN q \ {k} ELSE q[j] \ {k}]

(* The order once k is gone.                                               *)
Dropped(q, k) == [j \in DOMAIN q \ {k} |-> q[j] \ {k}]

IsOldest(q, k) == k \in DOMAIN q /\ q[k] = {}

Stored(c, k, d) == [j \in DOMAIN c \cup {k} |-> IF j = k THEN d ELSE c[j]]
Forgotten(c, k) == [j \in DOMAIN c \ {k} |-> c[j]]
=============================================================================
