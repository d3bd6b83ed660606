--------------------------- MODULE DictStackProofs ---------------------------
(* Proofs about DictStack: the doubly linked list always represents the age *)
(* order of the stored keys, for any set of keys and elements, and so every *)
(* call returns what an age-ordered queue returns.                          *)
EXTENDS DictStack, TLAPS

IInv == TypeOK /\ Linked

LEMMA InitInv == Init => IInv
BY NullAssumption DEF Init, IInv, TypeOK, Linked, Mapped, AgeOrder, EndsOfChain,
    NextIsNewer, PrecIsInverse, Q!NoResult, Q!Result

(* Removing what is not there, or what has just been added, changes nothing. *)
LEMMA RemoveAbsent ==
    ASSUME NEW S, NEW e, e \notin S PROVE S \ {e} = S
BY Zenon

(* So the keys older than a node do not change when a newcomer leaves again. *)
LEMMA RemoveAdded ==
    ASSUME NEW S, NEW e, e \notin S PROVE (S \cup {e}) \ {e} = S
BY Zenon

(* Appending a node, new or already linked, keeps the pointers and the age  *)
(* order in step: the key becomes the newest of all.                        *)
LEMMA ShiftKeepsInv ==
    ASSUME IInv, NEW k \in Keys, NEW d \in Data,
           mapper' = Q!Stored(mapper, k, d),
           ShiftPosition(k, NodePtr(next, k), NodePtr(prec, k)),
           older' = Q!Touched(older, k),
           locker' = locker
    PROVE  IInv'
<1> DEFINE nx == NodePtr(next, k)
           pr == NodePtr(prec, k)
<1> USE NullAssumption
<1>1. Mapped' = Mapped \cup {k}
  BY DEF Mapped, Q!Stored
<1>2. /\ DOMAIN older' = Mapped'
      /\ older'[k] = Mapped \ {k}
      /\ \A j \in Mapped : j # k => older'[j] = older[j] \ {k}
  BY <1>1 DEF IInv, Linked, AgeOrder, Q!Touched
<1>3. nx \in [Keys -> Keys \cup {Null}] /\ pr \in [Keys -> Keys \cup {Null}]
  BY DEF IInv, TypeOK, NodePtr
<1>4. AgeOrder'
  <2>1. \A j \in Mapped' : older'[j] \subseteq Mapped' \ {j}
    BY <1>1, <1>2 DEF IInv, Linked, AgeOrder
  <2>2. \A i, j \in Mapped' : i # j => (i \in older'[j] <=> j \notin older'[i])
    BY <1>1, <1>2 DEF IInv, Linked, AgeOrder
  <2>3. ASSUME NEW i \in Mapped', NEW j \in Mapped', i \in older'[j]
        PROVE  older'[i] \subseteq older'[j]
    <3>1. i # k
      BY <1>1, <1>2, <2>1, <2>3 DEF IInv, Linked, AgeOrder
    <3>2. older'[i] = older[i] \ {k} /\ older[i] \subseteq Mapped /\ i \in Mapped
      BY <1>1, <1>2, <3>1 DEF IInv, Linked, AgeOrder
    <3>3. CASE j = k
      BY <1>2, <3>2, <3>3
    <3>4. CASE j # k
      BY <1>1, <1>2, <2>3, <3>2, <3>4 DEF IInv, Linked, AgeOrder
    <3> QED BY <3>3, <3>4
  <2> QED BY <1>2, <2>1, <2>2, <2>3 DEF AgeOrder
<1>5. TypeOK'
  <2>1. mapper' \in [Mapped' -> Data] /\ Mapped' \subseteq Keys
    BY <1>1 DEF IInv, TypeOK, Mapped, Q!Stored
  <2>2. first' \in Keys \cup {Null} /\ last' \in Keys \cup {Null}
    BY <1>3 DEF IInv, TypeOK, ShiftPosition, NewFirst
  <2>3. next' \in [Keys -> Keys \cup {Null}]
    BY <1>3 DEF IInv, TypeOK, ShiftPosition, SetIf
  <2>4. prec' \in [Keys -> Keys \cup {Null}]
    BY <1>3 DEF IInv, TypeOK, ShiftPosition, SetIf
  <2> QED BY <2>1, <2>2, <2>3, <2>4 DEF IInv, TypeOK
<1>6. CASE k \notin Mapped
  <2>1. nx = [next EXCEPT ![k] = Null] /\ pr = [prec EXCEPT ![k] = Null]
    BY <1>6 DEF NodePtr
  <2>2. last # k /\ first # k /\ nx[k] = Null /\ pr[k] = Null
    BY <1>6, <2>1 DEF IInv, TypeOK, Linked, EndsOfChain
  <2>3. /\ first' = IF first = Null THEN k ELSE first
        /\ last' = k
        /\ next' = SetIf(nx, last, k)
        /\ prec' = [pr EXCEPT ![k] = last]
    BY <2>2 DEF ShiftPosition, NewFirst
  <2>4. /\ next' = [j \in Keys |-> IF j = last THEN k
                                   ELSE IF j = k THEN Null ELSE next[j]]
        /\ prec' = [j \in Keys |-> IF j = k THEN last ELSE prec[j]]
    <3>1. nx = [j \in Keys |-> IF j = k THEN Null ELSE next[j]]
      BY <2>1 DEF IInv, TypeOK
    <3>2. pr = [j \in Keys |-> IF j = k THEN Null ELSE prec[j]]
      BY <2>1 DEF IInv, TypeOK
    <3>3. CASE last = Null
      BY <2>2, <2>3, <3>1, <3>2, <3>3 DEF SetIf, IInv, TypeOK
    <3>4. CASE last # Null
      BY <2>2, <2>3, <3>1, <3>2, <3>4 DEF SetIf, IInv, TypeOK
    <3> QED BY <3>3, <3>4
  <2>5. EndsOfChain'
    <3>1. first' \in Mapped' /\ older'[first'] = {} /\ first' # Null
      BY <1>1, <1>2, <1>6, <2>3 DEF IInv, TypeOK, Linked, AgeOrder, EndsOfChain
    <3>2. last' \in Mapped' /\ last' # Null /\ \A j \in Mapped' : last' \notin older'[j]
      BY <1>1, <1>2, <1>6, <2>3 DEF IInv, TypeOK, Linked, AgeOrder
    <3> QED BY <3>1, <3>2 DEF EndsOfChain
  <2>6. NextIsNewer'
    BY <1>1, <1>2, <1>6, <2>3, <2>4
       DEF IInv, TypeOK, Linked, AgeOrder, EndsOfChain, NextIsNewer
  <2>7. PrecIsInverse'
    BY <1>1, <1>2, <1>6, <2>3, <2>4
       DEF IInv, TypeOK, Linked, AgeOrder, EndsOfChain, NextIsNewer, PrecIsInverse
  <2> QED BY <1>4, <1>5, <2>5, <2>6, <2>7 DEF IInv, Linked
<1>7. CASE k \in Mapped /\ last = k
  <2>1. nx = next /\ pr = prec
    BY <1>7 DEF NodePtr
  <2>2. next[k] = Null /\ first # Null
    BY <1>7 DEF IInv, Linked, NextIsNewer, EndsOfChain
  <2>3. first' = first /\ last' = last /\ next' = next /\ prec' = prec
    BY <1>7, <2>1, <2>2 DEF ShiftPosition, NewFirst
  <2>4. \A j \in Mapped : older'[j] = older[j]
    <3>1. older[k] = Mapped \ {k}
      BY <1>7 DEF IInv, Linked, AgeOrder, EndsOfChain
    <3>2. \A j \in Mapped : k \notin older[j]
      BY <1>7, <2>2 DEF IInv, TypeOK, Linked, EndsOfChain
    <3>3. ASSUME NEW j \in Mapped, j # k PROVE older'[j] = older[j]
      <4>1. older'[j] = older[j] \ {k} /\ k \notin older[j]
        BY <1>2, <3>2, <3>3
      <4>2. older[j] \ {k} = older[j]
        BY <4>1, RemoveAbsent
      <4> QED BY <4>1, <4>2
    <3> QED BY <1>2, <3>1, <3>3
  <2> QED
    BY <1>1, <1>2, <1>4, <1>5, <1>7, <2>3, <2>4
       DEF IInv, Linked, EndsOfChain, NextIsNewer, PrecIsInverse
<1>8. CASE k \in Mapped /\ last # k
  <2>1. nx = next /\ pr = prec
    BY <1>8 DEF NodePtr
  <2>2. /\ next[k] \in Mapped /\ next[k] # k /\ older[next[k]] = older[k] \cup {k}
        /\ last \in Mapped /\ first \in Mapped
        /\ next[k] # Null
    BY <1>8 DEF IInv, TypeOK, Linked, AgeOrder, NextIsNewer, EndsOfChain
  <2>3. /\ first' = IF first = k THEN next[k] ELSE first
        /\ last' = k
        /\ next' = SetIf([SetIf(next, prec[k], next[k]) EXCEPT ![k] = Null], last, k)
        /\ prec' = [SetIf(prec, next[k], prec[k]) EXCEPT ![k] = last]
    BY <1>8, <2>1, <2>2 DEF ShiftPosition, NewFirst, IInv, TypeOK
  <2>4. /\ next' = [j \in Keys |-> IF j = last THEN k
                                   ELSE IF j = k THEN Null
                                   ELSE IF j = prec[k] THEN next[k] ELSE next[j]]
        /\ prec' = [j \in Keys |-> IF j = k THEN last
                                   ELSE IF j = next[k] THEN prec[k] ELSE prec[j]]
    <3>1. /\ next \in [Keys -> Keys \cup {Null}] /\ prec \in [Keys -> Keys \cup {Null}]
          /\ last \in Keys /\ last # Null /\ next[k] \in Keys /\ next[k] # Null
      BY <2>2 DEF IInv, TypeOK
    <3>2. SetIf(next, prec[k], next[k])
              = [j \in Keys |-> IF j = prec[k] THEN next[k] ELSE next[j]]
      <4>1. CASE prec[k] = Null
        BY <3>1, <4>1 DEF SetIf
      <4>2. CASE prec[k] # Null
        BY <3>1, <4>2 DEF SetIf
      <4> QED BY <4>1, <4>2
    <3>3. SetIf(prec, next[k], prec[k])
              = [j \in Keys |-> IF j = next[k] THEN prec[k] ELSE prec[j]]
      BY <3>1 DEF SetIf
    <3>4. next' = [j \in Keys |-> IF j = last THEN k
                                  ELSE IF j = k THEN Null
                                  ELSE IF j = prec[k] THEN next[k] ELSE next[j]]
      BY <2>3, <3>1, <3>2 DEF SetIf
    <3>5. prec' = [j \in Keys |-> IF j = k THEN last
                                  ELSE IF j = next[k] THEN prec[k] ELSE prec[j]]
      BY <2>3, <3>3
    <3> QED BY <3>4, <3>5
  <2>5. EndsOfChain'
    BY <1>1, <1>2, <1>8, <2>2, <2>3 DEF IInv, TypeOK, Linked, AgeOrder, EndsOfChain, NextIsNewer
  <2>6. older[last] = Mapped \ {last} /\ k \notin older[k]
    BY <2>2 DEF IInv, TypeOK, Linked, AgeOrder, EndsOfChain
  <2>7. ASSUME NEW j \in Mapped, j # last, next[j] = k
        PROVE  j = prec[k]
    <3>1. older[k] = older[j] \cup {j}
      BY <2>7 DEF IInv, Linked, NextIsNewer
    <3>2. prec[k] \in Mapped /\ next[prec[k]] = k
      BY <1>8, <3>1 DEF IInv, Linked, EndsOfChain, PrecIsInverse
    <3>3. older[k] = older[prec[k]] \cup {prec[k]}
      BY <1>8, <2>2, <3>2 DEF IInv, TypeOK, Linked, NextIsNewer
    <3> QED BY <2>7, <3>1, <3>2, <3>3 DEF IInv, Linked, AgeOrder
  <2>8. NextIsNewer'
    <3> SUFFICES ASSUME NEW j \in Mapped
                 PROVE  IF j = k THEN next'[j] = Null
                        ELSE next'[j] \in Mapped /\ older'[next'[j]] = older'[j] \cup {j}
      BY <1>1, <1>8, <2>3 DEF NextIsNewer
    <3>1. CASE j = k
      BY <1>8, <2>4, <3>1 DEF IInv, TypeOK
    <3>2. CASE j = last
      BY <1>2, <1>8, <2>2, <2>4, <2>6, <3>2 DEF IInv, TypeOK
    <3>3. CASE j # k /\ j # last /\ j = prec[k]
      <4>1. next'[j] = next[k] /\ next[j] = k
        BY <1>8, <2>2, <2>4, <3>3 DEF IInv, TypeOK, Linked, PrecIsInverse
      <4>2. older[k] = older[j] \cup {j}
        BY <1>8, <3>3, <4>1 DEF IInv, Linked, NextIsNewer
      <4>3. older'[next[k]] = (older[k] \cup {k}) \ {k} /\ older'[j] = older[j] \ {k}
        BY <1>2, <2>2, <3>3
      <4>4. older'[next[k]] = older[k]
        BY <2>6, <4>3, RemoveAdded
      <4>5. k \notin older[j]
        BY <2>6, <4>2
      <4>6. older'[j] = older[j]
        BY <4>3, <4>5, RemoveAbsent
      <4> QED BY <2>2, <3>3, <4>1, <4>2, <4>4, <4>6
    <3>4. CASE j # k /\ j # last /\ j # prec[k]
      <4>1. next'[j] = next[j] /\ next[j] \in Mapped /\ older[next[j]] = older[j] \cup {j}
        BY <2>4, <3>4 DEF IInv, TypeOK, Linked, NextIsNewer
      <4>2. next[j] # k
        BY <2>7, <3>4
      <4> QED BY <1>2, <3>4, <4>1, <4>2
    <3> QED BY <3>1, <3>2, <3>3, <3>4
  <2>9. PrecIsInverse'
    <3> SUFFICES ASSUME NEW j \in Mapped
                 PROVE  IF j = first' THEN prec'[j] = Null
                        ELSE prec'[j] \in Mapped /\ next'[prec'[j]] = j
      BY <1>1, <1>8 DEF PrecIsInverse
    <3>1. CASE j = k
      <4>1. prec'[k] = last /\ next'[last] = k
        BY <1>8, <2>2, <2>4 DEF IInv, TypeOK
      <4>2. k # first'
        BY <2>2, <2>3
      <4> QED BY <2>2, <3>1, <4>1, <4>2
    <3>2. CASE j = next[k]
      <4>1. CASE k = first
        BY <1>8, <2>2, <2>3, <2>4, <3>2, <4>1 DEF IInv, TypeOK, Linked, PrecIsInverse
      <4>2. CASE k # first
        <5>1. prec[k] \in Mapped /\ next[prec[k]] = k /\ prec[k] # k /\ prec[k] # last
          BY <1>8, <2>2, <4>2 DEF IInv, TypeOK, Linked, NextIsNewer, PrecIsInverse
        <5>2. first' = first /\ j # first
          BY <2>2, <2>3, <3>2, <4>2 DEF IInv, Linked, EndsOfChain
        <5>3. prec'[j] = prec[k] /\ next'[prec[k]] = next[k]
          BY <2>2, <2>4, <3>2, <5>1 DEF IInv, TypeOK
        <5> QED BY <3>2, <5>1, <5>2, <5>3
      <4> QED BY <4>1, <4>2
    <3>3. CASE j # k /\ j # next[k]
      <4>1. prec'[j] = prec[j]
        BY <2>4, <3>3 DEF IInv, TypeOK
      <4>2. CASE j = first
        BY <2>3, <3>3, <4>1, <4>2 DEF IInv, Linked, PrecIsInverse
      <4>3. CASE j # first
        <5>1. prec[j] \in Mapped /\ next[prec[j]] = j
          BY <4>3 DEF IInv, Linked, PrecIsInverse
        <5>2. prec[j] # last /\ prec[j] # k
          BY <3>3, <5>1 DEF IInv, TypeOK, Linked, NextIsNewer
        <5>3. prec[j] # prec[k]
          BY <1>8, <3>3, <5>1 DEF IInv, TypeOK, Linked, PrecIsInverse
        <5>4. next'[prec[j]] = j
          BY <2>4, <5>1, <5>2, <5>3 DEF IInv, TypeOK
        <5>5. j # first'
          BY <2>3, <3>3, <4>3
        <5> QED BY <4>1, <5>1, <5>4, <5>5
      <4> QED BY <4>2, <4>3
    <3> QED BY <3>1, <3>2, <3>3
  <2> QED BY <1>4, <1>5, <2>5, <2>8, <2>9 DEF IInv, Linked
<1> QED BY <1>6, <1>7, <1>8

(* Unlinking the node of any key, stored or not, removes exactly that key   *)
(* from the order.                                                          *)
LEMMA UnlinkKeepsInv ==
    ASSUME IInv, NEW k \in Keys,
           RemoveInternal(k, NodePtr(next, k), NodePtr(prec, k)),
           locker' = locker
    PROVE  IInv'
<1> USE NullAssumption
<1>1. Mapped' = Mapped \ {k}
  BY DEF RemoveInternal, Mapped, Q!Forgotten
<1>2. DOMAIN older' = Mapped' /\ \A j \in Mapped' : older'[j] = older[j] \ {k}
  BY <1>1 DEF IInv, Linked, AgeOrder, RemoveInternal, Q!Dropped
<1>3. NodePtr(next, k) \in [Keys -> Keys \cup {Null}] /\ NodePtr(prec, k) \in [Keys -> Keys \cup {Null}]
  BY DEF IInv, TypeOK, NodePtr
<1>4. AgeOrder'
  BY <1>1, <1>2 DEF IInv, Linked, AgeOrder
<1>5. TypeOK'
  <2>1. mapper' \in [Mapped' -> Data] /\ Mapped' \subseteq Keys
    BY <1>1 DEF IInv, TypeOK, Mapped, RemoveInternal, Q!Forgotten
  <2>2. first' \in Keys \cup {Null} /\ last' \in Keys \cup {Null}
    BY <1>3 DEF IInv, TypeOK, RemoveInternal, Unlink
  <2>3. next' \in [Keys -> Keys \cup {Null}]
    BY <1>3 DEF IInv, TypeOK, RemoveInternal, Unlink, SetIf
  <2>4. prec' \in [Keys -> Keys \cup {Null}]
    BY <1>3 DEF IInv, TypeOK, RemoveInternal, Unlink, SetIf
  <2> QED BY <2>1, <2>2, <2>3, <2>4 DEF IInv, TypeOK
<1>6. CASE k \notin Mapped
  <2>1. /\ NodePtr(next, k) = [next EXCEPT ![k] = Null]
        /\ NodePtr(prec, k) = [prec EXCEPT ![k] = Null]
        /\ first # k
    BY <1>6 DEF NodePtr, IInv, TypeOK, Linked, EndsOfChain
  <2>2. /\ first' = first /\ last' = last
        /\ next' = [next EXCEPT ![k] = Null] /\ prec' = [prec EXCEPT ![k] = Null]
    BY <2>1 DEF RemoveInternal, Unlink, IInv, TypeOK
  <2>3. Mapped' = Mapped /\ \A j \in Mapped : older'[j] = older[j]
    BY <1>1, <1>2, <1>6 DEF IInv, Linked, AgeOrder
  <2>4. \A j \in Mapped : next'[j] = next[j] /\ prec'[j] = prec[j]
    BY <1>6, <2>2 DEF IInv, TypeOK
  <2> QED
    BY <1>4, <1>5, <2>2, <2>3, <2>4
       DEF IInv, Linked, EndsOfChain, NextIsNewer, PrecIsInverse
<1>7. CASE k \in Mapped
  <2>1. /\ NodePtr(next, k) = next /\ NodePtr(prec, k) = prec
        /\ first \in Mapped /\ last \in Mapped
    BY <1>7 DEF NodePtr, IInv, Linked, EndsOfChain
  <2>2. /\ first' = IF k = first THEN next[k] ELSE first
        /\ last' = IF k = last THEN prec[k] ELSE last
    BY <1>7, <2>1 DEF RemoveInternal, Unlink, IInv, TypeOK, Linked, NextIsNewer, PrecIsInverse, EndsOfChain
  <2>3. /\ next' = [j \in Keys |-> IF j = prec[k] THEN next[k] ELSE next[j]]
        /\ prec' = [j \in Keys |-> IF j = next[k] THEN prec[k] ELSE prec[j]]
    BY <1>7, <2>1 DEF RemoveInternal, Unlink, SetIf, IInv, TypeOK
  <2>4. EndsOfChain'
    BY <1>1, <1>2, <1>7, <2>1, <2>2
       DEF IInv, TypeOK, Linked, AgeOrder, EndsOfChain, NextIsNewer, PrecIsInverse
  <2>5. NextIsNewer'
    BY <1>1, <1>2, <1>7, <2>1, <2>2, <2>3
       DEF IInv, TypeOK, Linked, AgeOrder, EndsOfChain, NextIsNewer, PrecIsInverse
  <2>6. PrecIsInverse'
    BY <1>1, <1>2, <1>7, <2>1, <2>2, <2>3
       DEF IInv, TypeOK, Linked, AgeOrder, EndsOfChain, NextIsNewer, PrecIsInverse
  <2> QED BY <1>4, <1>5, <2>4, <2>5, <2>6 DEF IInv, Linked
<1> QED BY <1>6, <1>7

(* Lookups and failed calls leave structure and order as they are.          *)
LEMMA IdleKeepsInv ==
    ASSUME IInv, UNCHANGED <<mapper, chain, older>>, locker' \in BOOLEAN
    PROVE  IInv'
BY DEF IInv, chain, Mapped, TypeOK, Linked, AgeOrder, EndsOfChain, NextIsNewer, PrecIsInverse

LEMMA LockerType == IInv => locker \in BOOLEAN
BY DEF IInv, TypeOK

(* The head is a stored key, and its node has its own pointers.             *)
LEMMA HeadIsOldest ==
    ASSUME IInv, first # Null
    PROVE  /\ first \in Keys
           /\ first \in Mapped
           /\ Q!IsOldest(older, first)
           /\ NodePtr(next, first) = next
           /\ NodePtr(prec, first) = prec
BY DEF IInv, TypeOK, Linked, AgeOrder, EndsOfChain, Q!IsOldest, NodePtr

LEMMA NextKeepsInv == IInv /\ [Next]_vars => IInv'
<1> SUFFICES ASSUME IInv, [Next]_vars PROVE IInv'
  OBVIOUS
<1> USE NullAssumption, LockerType
<1>1. ASSUME NEW k \in Keys, NEW d \in Data, Upsert(k, d) PROVE IInv'
  BY <1>1, ShiftKeepsInv DEF Upsert
<1>2. ASSUME NEW k \in Keys, NEW d \in Data, UpsertAndRemove(k, d) PROVE IInv'
  BY <1>2, UnlinkKeepsInv DEF UpsertAndRemove
<1>3. ASSUME NEW k \in Keys, Remove(k) PROVE IInv'
  <2>1. CASE k \in Mapped
    <3>1. NodePtr(next, k) = next /\ NodePtr(prec, k) = prec
      BY <2>1 DEF NodePtr
    <3> QED BY <1>3, <2>1, <3>1, UnlinkKeepsInv DEF Remove
  <2>2. CASE k \notin Mapped
    BY <1>3, <2>2, IdleKeepsInv DEF Remove
  <2> QED BY <2>1, <2>2
<1>4. ASSUME NEW k \in Keys, GetKey(k) PROVE IInv'
  BY <1>4, IdleKeepsInv DEF GetKey
<1>5. ASSUME NEW holds \in BOOLEAN, PopConditional(holds) PROVE IInv'
  <2>1. CASE first # Null /\ RemoveInternal(first, next, prec)
    BY <1>5, <2>1, HeadIsOldest, UnlinkKeepsInv DEF PopConditional
  <2>2. CASE UNCHANGED <<mapper, chain, older>>
    BY <1>5, <2>2, IdleKeepsInv DEF PopConditional
  <2> QED BY <1>5, <2>1, <2>2 DEF PopConditional
<1>6. CASE PopEmpty
  BY <1>6, IdleKeepsInv DEF PopEmpty
<1>7. CASE PopFirst
  BY <1>7, HeadIsOldest, UnlinkKeepsInv DEF PopFirst
<1>8. CASE Peek
  BY <1>8, IdleKeepsInv DEF Peek
<1>9. CASE UNCHANGED vars
  BY <1>9, IdleKeepsInv DEF vars, chain
<1> QED
  BY <1>1, <1>2, <1>3, <1>4, <1>5, <1>6, <1>7, <1>8, <1>9
     DEF Next, UpsertAndConditionallyRemove, Pop

(* Type correctness of the structure.                                       *)
THEOREM TypeCorrect == Spec => []TypeOK
<1>1. IInv => TypeOK
  BY DEF IInv
<1> QED BY InitInv, NextKeepsInv, <1>1, PTL DEF Spec

(* However the methods are called, the chain of pointers is the order of    *)
(* the last insertions and updates (ConcurrentDictionaryStack.cs:13).       *)
THEOREM ChainIsAgeOrder == Spec => []Linked
<1>1. IInv => Linked
  BY DEF IInv
<1> QED BY InitInv, NextKeepsInv, <1>1, PTL DEF Spec

(* The write lock that pop leaves held hides no element.                    *)
THEOREM LeakIsHarmless == Spec => []LeakFreezesOnlyEmpty
<1>1. Init => LeakFreezesOnlyEmpty
  BY DEF Init, LeakFreezesOnlyEmpty
<1>2. IInv /\ LeakFreezesOnlyEmpty /\ [Next]_vars => LeakFreezesOnlyEmpty'
  <2> SUFFICES ASSUME IInv, LeakFreezesOnlyEmpty, [Next]_vars
               PROVE  LeakFreezesOnlyEmpty'
    OBVIOUS
  <2> USE DEF LeakFreezesOnlyEmpty
  <2>1. CASE locker' = locker /\ locker
    BY <2>1
  <2>2. CASE PopEmpty
    BY <2>2 DEF PopEmpty, IInv, Linked, EndsOfChain, Mapped, chain
  <2>3. CASE UNCHANGED <<mapper, chain, locker>>
    BY <2>3 DEF Mapped, chain
  <2> QED
    BY <2>1, <2>2, <2>3
       DEF Next, vars, chain, UpsertAndConditionallyRemove, Upsert, UpsertAndRemove,
           Remove, GetKey, PopConditional, Pop, PopFirst, Peek
<1> QED BY InitInv, NextKeepsInv, <1>1, <1>2, PTL DEF Spec

-----------------------------------------------------------------------------
(* Every call, seen from outside, is a call of the abstract queue: pop,     *)
(* popConditional and peek answer with the element untouched for longest.   *)
LEMMA StepRefines == IInv /\ [Next]_vars => [Q!Next]_(Q!queueVars)
<1> SUFFICES ASSUME IInv, [Next]_vars PROVE [Q!Next]_(Q!queueVars)
  OBVIOUS
<1> USE NullAssumption
<1>0. DOMAIN older = Mapped
  BY DEF IInv, Linked, AgeOrder
<1>1. ASSUME NEW k \in Keys, NEW d \in Data, Upsert(k, d) PROVE Q!Next
  BY <1>1 DEF Upsert, Q!Next, Q!Put
<1>2. ASSUME NEW k \in Keys, NEW d \in Data, UpsertAndRemove(k, d) PROVE Q!Next
  BY <1>2 DEF UpsertAndRemove, RemoveInternal, Q!Next, Q!Complete
<1>3. ASSUME NEW k \in Keys, Remove(k) PROVE Q!Next
  BY <1>0, <1>3 DEF Remove, RemoveInternal, Q!Next, Q!Remove, Q!Miss
<1>4. ASSUME NEW k \in Keys, GetKey(k) PROVE Q!Next
  BY <1>0, <1>4 DEF GetKey, Q!Next, Q!Get, Q!Miss
<1>5. ASSUME first # Null, RemoveInternal(first, next, prec),
             out' = Q!Result("popped", first, mapper[first])
      PROVE  Q!Next
  BY <1>5, HeadIsOldest DEF RemoveInternal, Q!Next, Q!Pop
<1>6. ASSUME first # Null, UNCHANGED <<mapper, chain, older>>,
             out' = Q!Result("peeked", first, mapper[first])
      PROVE  Q!Next
  BY <1>6, HeadIsOldest DEF Q!Next, Q!Peek
<1>7. ASSUME first = Null, UNCHANGED <<mapper, chain, older>>,
             out' = Q!NoResult("empty")
      PROVE  Q!Next
  BY <1>0, <1>7 DEF IInv, Linked, EndsOfChain, Q!Next, Q!Empty
<1>8. ASSUME NEW holds \in BOOLEAN, PopConditional(holds) PROVE Q!Next
  BY <1>5, <1>6, <1>7, <1>8 DEF PopConditional
<1>9. CASE Pop
  BY <1>5, <1>7, <1>9 DEF Pop, PopFirst, PopEmpty
<1>10. CASE Peek
  BY <1>6, <1>7, <1>10 DEF Peek, chain
<1>11. CASE UNCHANGED vars
  BY <1>11 DEF vars, Q!queueVars
<1> QED
  BY <1>1, <1>2, <1>3, <1>4, <1>8, <1>9, <1>10, <1>11
     DEF Next, UpsertAndConditionallyRemove

(* The linked implementation refines the abstract queue.                    *)
THEOREM Refinement == Spec => ImplementsQueue
<1>1. Init => Q!Init
  BY DEF Init, Q!Init
<1> QED BY InitInv, NextKeepsInv, StepRefines, <1>1, PTL DEF Spec, ImplementsQueue, Q!Spec
=============================================================================
