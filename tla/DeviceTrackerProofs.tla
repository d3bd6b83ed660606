------------------------ MODULE DeviceTrackerProofs --------------------------
(***************************************************************************)
(* Proofs about DeviceTracker, for any addresses, rooms, device objects    *)
(* and delays: the two maps of the analyzer agree until a new device takes *)
(* an identifier in use, the counts of the rooms add up until then, their  *)
(* lists and counts are exact until a merge leaves a room behind, and a    *)
(* cleaning leaves nothing it should have removed.                         *)
(***************************************************************************)
EXTENDS DeviceTracker, FiniteSetTheorems, WellFoundedInduction, TLAPS

-----------------------------------------------------------------------------
(* Orders by age (see Recency).                                             *)

(* Of any two keys one is older, and what is older than an older key is    *)
(* older.                                                                  *)
IsOrder(q) ==
    /\ IsFiniteSet(DOMAIN q)
    /\ \A k \in DOMAIN q :
          /\ q[k] \subseteq DOMAIN q \ {k}
          /\ \A j \in DOMAIN q \ {k} : j \in q[k] <=> k \notin q[j]
          /\ \A j \in q[k] : q[j] \subseteq q[k]

(* A key that is touched becomes the youngest.                             *)
LEMMA TouchedIs ==
    ASSUME NEW q, IsOrder(q), NEW k
    PROVE  /\ IsOrder(Touched(q, k))
           /\ DOMAIN Touched(q, k) = DOMAIN q \cup {k}
           /\ Touched(q, k)[k] = DOMAIN q \ {k}
           /\ \A j \in DOMAIN q \ {k} : Touched(q, k)[j] = q[j] \ {k}
<1> DEFINE n == Touched(q, k)
           D == DOMAIN q \cup {k}
<1>1. DOMAIN n = D /\ n[k] = DOMAIN q \ {k} /\ \A j \in DOMAIN q \ {k} : n[j] = q[j] \ {k}
  BY DEF Touched
<1>2. \A o \in DOMAIN q :
         /\ q[o] \subseteq DOMAIN q \ {o}
         /\ \A x \in DOMAIN q \ {o} : x \in q[o] <=> o \notin q[x]
         /\ \A x \in q[o] : q[x] \subseteq q[o]
  BY DEF IsOrder
<1>3. IsFiniteSet(D)
  BY FS_AddElement DEF IsOrder
<1>4. DOMAIN q \subseteq D /\ k \in D /\ \A o \in D \ {k} : o \in DOMAIN q
  OBVIOUS
<1> HIDE DEF n, D
<1>5. ASSUME NEW j \in D
      PROVE  /\ n[j] \subseteq D \ {j}
             /\ \A o \in D \ {j} : o \in n[j] <=> j \notin n[o]
             /\ \A o \in n[j] : n[o] \subseteq n[j]
  <2>1. CASE j = k
    <3>1. \A o \in D \ {k} : k \notin n[o] /\ o \in n[k]
      BY <1>1, <1>4
    <3>2. ASSUME NEW o \in n[k] PROVE n[o] \subseteq n[k]
      BY <1>1, <1>2, <3>2
    <3> QED BY <1>1, <1>4, <2>1, <3>1, <3>2
  <2>2. CASE j # k
    <3>1. j \in DOMAIN q /\ n[j] = q[j] \ {k} /\ q[j] \subseteq DOMAIN q \ {j}
      BY <1>1, <1>2, <1>4, <2>2
    <3>2. ASSUME NEW o \in D \ {j} PROVE o \in n[j] <=> j \notin n[o]
      <4>1. CASE o = k
        BY <1>1, <2>2, <3>1, <4>1
      <4>2. CASE o # k
        BY <1>1, <1>2, <1>4, <2>2, <3>1, <3>2, <4>2
      <4> QED BY <4>1, <4>2
    <3>3. ASSUME NEW o \in n[j] PROVE n[o] \subseteq n[j]
      <4>1. o \in q[j] /\ o # k /\ o \in DOMAIN q
        BY <3>1, <3>3
      <4> QED BY <1>1, <1>2, <3>1, <4>1
    <3> QED BY <1>4, <3>1, <3>2, <3>3
  <2> QED BY <2>1, <2>2
<1>6. IsOrder(n)
  BY <1>1, <1>3, <1>5 DEF IsOrder
<1> QED BY <1>1, <1>6 DEF n, D

(* A key that is dropped leaves the order of the others.                   *)
LEMMA DroppedIs ==
    ASSUME NEW q, IsOrder(q), NEW k
    PROVE  /\ IsOrder(Dropped(q, k))
           /\ DOMAIN Dropped(q, k) = DOMAIN q \ {k}
           /\ \A j \in DOMAIN q \ {k} : Dropped(q, k)[j] = q[j] \ {k}
<1> DEFINE n == Dropped(q, k)
           D == DOMAIN q \ {k}
<1>1. DOMAIN n = D /\ \A j \in D : n[j] = q[j] \ {k}
  BY DEF Dropped
<1>2. IsFiniteSet(D)
  BY FS_RemoveElement DEF IsOrder
<1> HIDE DEF n
<1>3. ASSUME NEW j \in D
      PROVE  /\ n[j] \subseteq D \ {j}
             /\ \A o \in D \ {j} : o \in n[j] <=> j \notin n[o]
             /\ \A o \in n[j] : n[o] \subseteq n[j]
  <2>1. /\ q[j] \subseteq DOMAIN q \ {j}
        /\ \A o \in DOMAIN q \ {j} : o \in q[j] <=> j \notin q[o]
        /\ \A o \in q[j] : q[o] \subseteq q[j]
    BY DEF IsOrder
  <2> QED BY <1>1, <2>1
<1>4. IsOrder(n)
  BY <1>1, <1>2, <1>3 DEF IsOrder
<1> QED BY <1>1, <1>4 DEF n

(* Of a set of naturals one is the first.                                  *)
LEMMA FirstOf == ASSUME NEW S \in SUBSET Nat, S # {} PROVE \E s \in S : \A t \in S : s <= t
<1> DEFINE before == OpToRel(<, Nat)
<1>1. IsWellFoundedOn(before, Nat)
  BY NatLessThanWellFounded
<1>2. before = {ss \in Nat \X Nat : ss[1] < ss[2]}
  BY Zenon DEF OpToRel
<1> HIDE DEF before
<1>3. PICK s \in S : \A t \in S : <<t, s>> \notin before
  BY <1>1, WFMin
<1>4. \A x, y \in Nat : x < y => <<x, y>> \in before
  BY <1>2
<1>5. ASSUME NEW t \in S PROVE s <= t
  <2>1. s \in Nat /\ t \in Nat /\ ~ t < s
    BY <1>3, <1>4
  <2> QED BY <2>1
<1> QED BY <1>5

(* Of the keys of an order, one is the oldest, and older than all others.  *)
LEMMA OneIsOldest ==
    ASSUME NEW q, IsOrder(q), DOMAIN q # {}
    PROVE  \E k \in DOMAIN q : IsOldest(q, k) /\ \A j \in DOMAIN q \ {k} : k \in q[j]
<1> DEFINE N == {Cardinality(q[k]) : k \in DOMAIN q}
<1>1. /\ IsFiniteSet(DOMAIN q)
      /\ \A k \in DOMAIN q :
            /\ q[k] \subseteq DOMAIN q \ {k}
            /\ \A j \in DOMAIN q \ {k} : j \in q[k] <=> k \notin q[j]
            /\ \A j \in q[k] : q[j] \subseteq q[k]
  BY DEF IsOrder
<1>2. \A k \in DOMAIN q : IsFiniteSet(q[k]) /\ Cardinality(q[k]) \in Nat
  BY <1>1, FS_Subset, FS_CardinalityType
<1>3. PICK n \in N : \A m \in N : n <= m
  <2>1. N \in SUBSET Nat /\ N # {}
    BY <1>2
  <2> QED BY <2>1, FirstOf
<1>4. PICK k \in DOMAIN q : n = Cardinality(q[k])
  BY <1>3
<1>5. ASSUME NEW j \in q[k] PROVE FALSE
  <2>1. j \in DOMAIN q /\ q[j] \subseteq q[k] /\ j \notin q[j]
    BY <1>1, <1>4, <1>5
  <2>2. Cardinality(q[j]) <= Cardinality(q[k])
        /\ (Cardinality(q[k]) = Cardinality(q[j]) => q[k] = q[j])
    BY <1>2, <1>4, <2>1, FS_Subset
  <2>3. Cardinality(q[k]) <= Cardinality(q[j])
    BY <1>3, <1>4, <2>1
  <2> QED BY <1>2, <1>4, <1>5, <2>1, <2>2, <2>3
<1>6. IsOldest(q, k)
  BY <1>4, <1>5 DEF IsOldest
<1>7. \A j \in DOMAIN q \ {k} : k \in q[j]
  BY <1>1, <1>4, <1>5
<1> QED BY <1>4, <1>6, <1>7

(* A dictionary keeps the types of its keys and values.                    *)
LEMMA StoredTyped ==
    ASSUME NEW f, NEW K, NEW S, DOMAIN f \subseteq K, Range(f) \subseteq S,
           NEW k \in K, NEW d \in S
    PROVE  DOMAIN Stored(f, k, d) \subseteq K /\ Range(Stored(f, k, d)) \subseteq S
  BY DEF Range, Stored

-----------------------------------------------------------------------------
(* The parts of the inductive invariant.                                   *)

DeviceOf(i) == dev[deviceMap[i]]

(* Every device is stored under its own identifier, which tells whether    *)
(* its address is random.                                                  *)
Stores ==
    /\ \A i \in DOMAIN deviceMap : /\ DeviceOf(i).id = i
                                   /\ DeviceOf(i).mac \in LocalMACs <=> i \notin GlobalMACs
    /\ Range(anoniDevices) \subseteq Identifiers \ GlobalMACs
    /\ Range(todo) \subseteq Identifiers \ GlobalMACs

(* Only a merge upserts a device with a date that is older than packets    *)
(* are.                                                                    *)
Prompt(d) == d.merged \/ d.touched <= d.seen + MaxDelay

(* The map is in the order of the last upserts, and no sighting is younger *)
(* than the upsert it came with.                                           *)
ByAge ==
    /\ IsOrder(order)
    /\ \A i \in DOMAIN deviceMap : /\ DeviceOf(i).seen <= DeviceOf(i).touched
                                   /\ DeviceOf(i).touched <= now
                                   /\ Prompt(DeviceOf(i))
    /\ \A i \in DOMAIN deviceMap : \A j \in order[i] : DeviceOf(j).touched <= DeviceOf(i).touched

(* The random addresses lead to their devices and back; a pass of matching *)
(* works on a copy that leads to each device once.                         *)
Resolves ==
    /\ \A m \in DOMAIN anoniDevices : /\ anoniDevices[m] \in DOMAIN deviceMap
                                      /\ DeviceOf(anoniDevices[m]).mac = m
    /\ \A i \in DOMAIN deviceMap :
          DeviceOf(i).mac \in LocalMACs => /\ DeviceOf(i).mac \in DOMAIN anoniDevices
                                           /\ anoniDevices[DeviceOf(i).mac] = i
    /\ \A m, n \in DOMAIN todo : todo[m] = todo[n] => m = n
    /\ phase # "dead"

(* Every room lists and counts the devices last located there.             *)
Listed(o, r) == \E i \in DOMAIN deviceMap : deviceMap[i] = o /\ DeviceOf(i).room = r
Exact ==
    \A r \in Places : /\ \A o \in Objects : o \in members[r] <=> Listed(o, r)
                      /\ devicecount[r] = Cardinality(members[r])

Finite == \A r \in Places : IsFiniteSet(members[r])

Sound == ~collided => Resolves /\ (drifts = 0 => Exact)

IInv == TypeOK /\ Stores /\ ByAge /\ Finite /\ Sound

-----------------------------------------------------------------------------
(* What the invariant says of the constants and of the map.                *)

(* What the assumption says, number by number and for every identifier.    *)
LEMMA Numbers ==
    /\ MaxTime \in Nat /\ MaxDrifts \in Nat /\ MaxDelay \in Nat /\ Holdoff \in Nat
    /\ MergeAfter \in Nat /\ ForgetAfter \in Nat
    /\ Extern \notin Rooms /\ NoDevice \notin Objects /\ GlobalMACs \cap LocalMACs = {}
    /\ \A m \in LocalMACs, t \in 0 .. MaxTime :
          <<Hash4(m), t>> \in Identifiers /\ <<Hash4(m), t>> \notin GlobalMACs
  BY DeviceAssumption DEF Identifiers

(* The fields of a device.                                                 *)
LEMMA FieldsAre ==
    ASSUME NEW d \in DeviceType
    PROVE  /\ d.mac \in MACs /\ d.id \in Identifiers /\ d.room \in Places /\ d.seen \in 0 .. MaxTime
           /\ d.first \in 0 .. MaxTime /\ d.firstRoom \in Places /\ d.touched \in 0 .. MaxTime
  BY DEF DeviceType

(* The map leads to devices, to each by one identifier.                    *)
LEMMA MapFacts ==
    ASSUME IInv
    PROVE  /\ DOMAIN deviceMap \subseteq Identifiers /\ DOMAIN order = DOMAIN deviceMap
           /\ now \in 0 .. MaxTime
           /\ \A i \in DOMAIN deviceMap :
                 /\ deviceMap[i] \in Objects /\ DeviceOf(i) \in DeviceType /\ DeviceOf(i).id = i
                 /\ DeviceOf(i).mac \in LocalMACs <=> i \notin GlobalMACs
           /\ \A i, j \in DOMAIN deviceMap : deviceMap[i] = deviceMap[j] => i = j
  BY DEF IInv, TypeOK, Stores, DeviceOf

-----------------------------------------------------------------------------
(* Steps that leave the tables alone.                                      *)

(* Time, phases and the copy move.                                         *)
LEMMA Elsewhere ==
    ASSUME IInv, UNCHANGED <<tables, drifts, collided>>, now' \in 0 .. MaxTime, now <= now',
           phase' \in {"analyze", "match", "clean", "dead"},
           DOMAIN todo' \subseteq LocalMACs, Range(todo') \subseteq Identifiers \ GlobalMACs,
           ~collided => (\A m, n \in DOMAIN todo' : todo'[m] = todo'[n] => m = n) /\ phase' # "dead"
    PROVE  IInv'
<1>1. /\ dev' = dev /\ deviceMap' = deviceMap /\ order' = order /\ anoniDevices' = anoniDevices
      /\ members' = members /\ devicecount' = devicecount /\ drifts' = drifts
      /\ collided' = collided
  BY DEF tables
<1>2. TypeOK'
  BY <1>1 DEF IInv, TypeOK
<1>3. Stores'
  BY <1>1 DEF IInv, Stores, DeviceOf
<1>4. ByAge'
  <2>1. \A i \in DOMAIN deviceMap : DeviceOf(i).touched <= now'
    <3>1. \A i \in DOMAIN deviceMap : DeviceOf(i).touched <= now /\ DeviceOf(i).touched \in 0 .. MaxTime
      BY MapFacts, FieldsAre DEF IInv, ByAge
    <3> QED BY <3>1, MapFacts, Numbers
  <2>2. /\ IsOrder(order)
        /\ \A i \in DOMAIN deviceMap : /\ DeviceOf(i).seen <= DeviceOf(i).touched
                                       /\ Prompt(DeviceOf(i))
        /\ \A i \in DOMAIN deviceMap : \A j \in order[i] : DeviceOf(j).touched <= DeviceOf(i).touched
    BY DEF IInv, ByAge
  <2> QED BY <1>1, <2>1, <2>2 DEF ByAge, DeviceOf, Prompt
<1>5. Finite'
  BY <1>1 DEF IInv, Finite
<1>6. Sound'
  BY <1>1 DEF IInv, Sound, Resolves, Exact, Listed, DeviceOf
<1> QED BY <1>2, <1>3, <1>4, <1>5, <1>6 DEF IInv

(* The clock moves.                                                        *)
LEMMA TickStep == ASSUME IInv, Tick PROVE IInv'
<1>1. now' \in 0 .. MaxTime /\ now <= now'
  BY MapFacts, Numbers DEF Tick
<1>2. /\ phase' \in {"analyze", "match", "clean", "dead"}
      /\ DOMAIN todo' \subseteq LocalMACs /\ Range(todo') \subseteq Identifiers \ GlobalMACs
      /\ ~collided => (\A m, n \in DOMAIN todo' : todo'[m] = todo'[n] => m = n) /\ phase' # "dead"
  BY DEF Tick, IInv, TypeOK, Stores, Sound, Resolves
<1> QED BY <1>1, <1>2, Elsewhere DEF Tick

(* While no identifier has collided, two addresses have two identifiers.   *)
LEMMA ExpireStep == ASSUME IInv, Expire PROVE IInv'
<1>1. now' = now /\ now \in 0 .. MaxTime /\ todo' = anoniDevices /\ phase' = "match"
  BY MapFacts DEF Expire
<1>2. ~collided => \A m, n \in DOMAIN anoniDevices : anoniDevices[m] = anoniDevices[n] => m = n
  BY DEF IInv, Sound, Resolves
<1>3. /\ DOMAIN anoniDevices \subseteq LocalMACs
      /\ Range(anoniDevices) \subseteq Identifiers \ GlobalMACs
  BY DEF IInv, TypeOK, Stores
<1>4. now <= now'
  BY <1>1, Numbers
<1> QED BY <1>1, <1>2, <1>3, <1>4, Elsewhere DEF Expire

(* A pass of matching, or a cleaning, ends.                                *)
LEMMA EndStep == ASSUME IInv, EndMatch \/ EndCleaning PROVE IInv'
<1>1. now' = now /\ now \in 0 .. MaxTime /\ now <= now' /\ phase' \in {"clean", "analyze"}
  BY MapFacts, Numbers DEF EndMatch, EndCleaning
<1>2. /\ DOMAIN todo' \subseteq LocalMACs /\ Range(todo') \subseteq Identifiers \ GlobalMACs
      /\ ~collided => \A m, n \in DOMAIN todo' : todo'[m] = todo'[n] => m = n
  BY DEF EndMatch, EndCleaning, IInv, TypeOK, Stores, Sound, Resolves
<1> QED BY <1>1, <1>2, Elsewhere DEF EndMatch, EndCleaning

-----------------------------------------------------------------------------
(* Steps of the map.                                                       *)

(* What a map holds after an upsert of object o under k: the identifiers   *)
(* kept lead to the same devices as before.                                *)
UpsertedMap(k, o, kept) ==
    /\ DOMAIN deviceMap' = kept \cup {k} /\ deviceMap'[k] = o
    /\ \A i \in kept \ {k} : deviceMap'[i] = deviceMap[i] /\ dev'[deviceMap[i]] = dev[deviceMap[i]]

(* The device upserted: its identifier, its address and its times fit.     *)
Fits(d, k) ==
    /\ d \in DeviceType /\ d.id = k /\ d.seen <= now /\ d.touched = now /\ Prompt(d)
    /\ d.mac \in LocalMACs <=> k \notin GlobalMACs

(* After an upsert devices are stored under their identifiers, by age.     *)
LEMMA Upserts ==
    ASSUME IInv, NEW k, NEW o \in Objects, NEW kept \in SUBSET DOMAIN deviceMap,
           UpsertedMap(k, o, kept), Fits(dev'[o], k), now' = now,
           Range(anoniDevices') \subseteq Identifiers \ GlobalMACs,
           Range(todo') \subseteq Identifiers \ GlobalMACs,
           IsOrder(order'), DOMAIN order' = kept \cup {k},
           \A i \in kept \ {k} : order'[i] \subseteq order[i] \ {k}
    PROVE  /\ DOMAIN deviceMap' \subseteq Identifiers /\ DOMAIN order' = DOMAIN deviceMap'
           /\ \A i \in DOMAIN deviceMap' :
                 deviceMap'[i] \in Objects /\ dev'[deviceMap'[i]] \in DeviceType
           /\ Stores' /\ ByAge'
<1>1. /\ DOMAIN deviceMap' = kept \cup {k} /\ deviceMap'[k] = o
      /\ \A i \in kept \ {k} : /\ deviceMap'[i] = deviceMap[i]
                               /\ dev'[deviceMap[i]] = dev[deviceMap[i]]
  BY DEF UpsertedMap
<1>2. /\ dev'[o] \in DeviceType /\ dev'[o].id = k /\ dev'[o].seen <= now /\ dev'[o].touched = now
      /\ Prompt(dev'[o])
      /\ dev'[o].mac \in LocalMACs <=> k \notin GlobalMACs
  BY DEF Fits
<1>3. k \in Identifiers
  BY <1>2, FieldsAre
<1>4. \A i \in DOMAIN deviceMap' : i = k \/ (i \in kept \ {k} /\ i \in DOMAIN deviceMap)
  BY <1>1
<1>5. DOMAIN deviceMap' \subseteq Identifiers
  BY <1>1, <1>3, MapFacts
<1>6. ASSUME NEW i \in DOMAIN deviceMap'
      PROVE  /\ deviceMap'[i] \in Objects /\ dev'[deviceMap'[i]] \in DeviceType
             /\ dev'[deviceMap'[i]].id = i
             /\ dev'[deviceMap'[i]].mac \in LocalMACs <=> i \notin GlobalMACs
  <2>1. CASE i = k
    BY <1>1, <1>2, <2>1
  <2>2. CASE i \in kept \ {k} /\ i \in DOMAIN deviceMap
    BY <1>1, <2>2, MapFacts DEF DeviceOf
  <2> QED BY <1>4, <2>1, <2>2
<1>7. Stores'
  BY <1>6 DEF IInv, Stores, DeviceOf
<1>8. now \in Nat
  BY MapFacts, Numbers
<1>9. \A i \in DOMAIN deviceMap : /\ DeviceOf(i).seen <= DeviceOf(i).touched
                                  /\ DeviceOf(i).touched <= now
                                  /\ Prompt(DeviceOf(i))
                                  /\ \A j \in order[i] : DeviceOf(j).touched <= DeviceOf(i).touched
  BY DEF IInv, ByAge
<1>10. ASSUME NEW i \in DOMAIN deviceMap'
       PROVE  /\ dev'[deviceMap'[i]].seen <= dev'[deviceMap'[i]].touched
              /\ dev'[deviceMap'[i]].touched <= now
              /\ Prompt(dev'[deviceMap'[i]])
  <2>1. CASE i = k
    BY <1>1, <1>2, <1>8, <2>1
  <2>2. CASE i \in kept \ {k} /\ i \in DOMAIN deviceMap
    BY <1>1, <1>9, <2>2 DEF DeviceOf
  <2> QED BY <1>4, <2>1, <2>2
<1>11. ASSUME NEW i \in DOMAIN deviceMap', NEW j \in order'[i]
       PROVE  dev'[deviceMap'[j]].touched <= dev'[deviceMap'[i]].touched
  <2>1. j \in DOMAIN deviceMap' /\ j # i
    BY <1>1, <1>11 DEF IsOrder
  <2>2. CASE i = k
    BY <1>1, <1>2, <1>10, <2>1, <2>2
  <2>3. CASE i \in kept \ {k} /\ i \in DOMAIN deviceMap
    <3>1. j \in order[i] /\ j \in DOMAIN deviceMap
      BY <1>11, <2>3, MapFacts DEF IInv, ByAge, IsOrder
    <3>2. j # k
      BY <1>11, <2>3
    <3> QED BY <1>1, <1>4, <1>9, <2>1, <2>3, <3>1, <3>2 DEF DeviceOf
  <2> QED BY <1>4, <2>2, <2>3
<1>12. ByAge'
  BY <1>1, <1>10, <1>11 DEF ByAge, DeviceOf, Prompt
<1> QED BY <1>1, <1>5, <1>6, <1>7, <1>12

-----------------------------------------------------------------------------
(* Steps of the rooms.                                                     *)

(* A move keeps the lists of objects and the numbers.                      *)
LEMMA MoveTyped ==
    ASSUME IInv, NEW o \in Objects, NEW old \in Places, NEW r \in Places, Move(o, old, r)
    PROVE  members' \in [Places -> SUBSET Objects] /\ devicecount' \in [Places -> Int] /\ Finite'
<1>1. /\ members \in [Places -> SUBSET Objects] /\ devicecount \in [Places -> Int]
      /\ \A p \in Places : IsFiniteSet(members[p])
  BY DEF IInv, TypeOK, Finite
<1>2. CASE old = r
  BY <1>1, <1>2 DEF Move, Finite
<1>3. CASE old # r
  <2>1. /\ members' = Added(Removed(members, old, o), r, o)
        /\ devicecount' = Count(Count(devicecount, old, -1), r, 1)
    BY <1>3 DEF Move
  <2>2. members' \in [Places -> SUBSET Objects] /\ devicecount' \in [Places -> Int]
    BY <1>1, <2>1 DEF Added, Removed, Count
  <2>3. ASSUME NEW p \in Places PROVE IsFiniteSet(members'[p])
    <3>1. IsFiniteSet(members[p] \cup {o}) /\ IsFiniteSet(members[p] \ {o})
      BY <1>1, FS_AddElement, FS_RemoveElement
    <3>2. members'[p] = members[p] \/ members'[p] = members[p] \cup {o}
          \/ members'[p] = members[p] \ {o}
      BY <1>1, <1>3, <2>1 DEF Added, Removed
    <3> QED BY <1>1, <3>1, <3>2
  <2> QED BY <2>2, <2>3 DEF Finite
<1> QED BY <1>2, <1>3

(* A move leaves the device in the new room alone, and counted there.      *)
LEMMA MoveExact ==
    ASSUME IInv, NEW o \in Objects, NEW old \in Places, NEW r \in Places, Move(o, old, r), Exact,
           \A p \in Places : o \in members[p] <=> p = old
    PROVE  \A p \in Places :
              /\ o \in members'[p] <=> p = r
              /\ \A x \in Objects \ {o} : x \in members'[p] <=> x \in members[p]
              /\ devicecount'[p] = Cardinality(members'[p])
<1>1. /\ members \in [Places -> SUBSET Objects] /\ devicecount \in [Places -> Int]
      /\ \A p \in Places : IsFiniteSet(members[p]) /\ devicecount[p] = Cardinality(members[p])
  BY DEF IInv, TypeOK, Finite, Exact
<1>2. CASE old = r
  BY <1>1, <1>2 DEF Move
<1>3. CASE old # r
  <2>1. /\ members' = Added(Removed(members, old, o), r, o)
        /\ devicecount' = Count(Count(devicecount, old, -1), r, 1)
    BY <1>3 DEF Move
  <2>2. /\ members'[old] = members[old] \ {o} /\ members'[r] = members[r] \cup {o}
        /\ devicecount'[old] = devicecount[old] - 1 /\ devicecount'[r] = devicecount[r] + 1
        /\ \A p \in Places \ {old, r} : members'[p] = members[p] /\ devicecount'[p] = devicecount[p]
    BY <1>1, <1>3, <2>1 DEF Added, Removed, Count
  <2>3. /\ Cardinality(members[old] \ {o}) = Cardinality(members[old]) - 1
        /\ Cardinality(members[r] \cup {o}) = Cardinality(members[r]) + 1
    BY <1>1, <1>3, FS_AddElement, FS_RemoveElement
  <2> QED BY <1>1, <1>3, <2>2, <2>3
<1> QED BY <1>2, <1>3

-----------------------------------------------------------------------------
(* The actions.                                                            *)

(* A packet of a device in the map: it becomes the youngest one.           *)
LEMMA KnownDeviceStep ==
    ASSUME IInv, NEW i \in DOMAIN deviceMap, NEW sr, NEW r \in Places, NEW t \in 0 .. now,
           now <= t + MaxDelay,
           KnownDevice(deviceMap[i], sr, r, t), UNCHANGED <<now, phase, todo, drifts, collided>>
    PROVE  IInv'
<1>1. CASE UNCHANGED tables
  <2>1. /\ now' \in 0 .. MaxTime /\ now <= now'
        /\ phase' \in {"analyze", "match", "clean", "dead"}
        /\ DOMAIN todo' \subseteq LocalMACs /\ Range(todo') \subseteq Identifiers \ GlobalMACs
        /\ ~collided => (\A m, n \in DOMAIN todo' : todo'[m] = todo'[n] => m = n) /\ phase' # "dead"
    BY MapFacts, Numbers DEF IInv, TypeOK, Stores, Sound, Resolves
  <2> QED BY <1>1, <2>1, Elsewhere
<1>2. CASE ~(UNCHANGED tables)
  <2> DEFINE o == deviceMap[i]
             d == dev[o]
             e == [d EXCEPT !.room = r, !.seen = t, !.touched = now, !.merged = FALSE]
  <2>1. /\ Move(o, d.room, r) /\ dev' = [dev EXCEPT ![o] = e]
        /\ order' = Touched(order, d.id)
        /\ deviceMap' = deviceMap /\ anoniDevices' = anoniDevices
    BY <1>2 DEF KnownDevice, Upserted
  <2>2. /\ o \in Objects /\ d \in DeviceType /\ d.id = i /\ d.room \in Places
        /\ d.mac \in LocalMACs <=> i \notin GlobalMACs
    BY MapFacts, FieldsAre DEF DeviceOf
  <2>3. dev \in [Objects -> DeviceType \cup {NoDevice}] /\ now \in 0 .. MaxTime /\ now \in Nat
    BY MapFacts, Numbers DEF IInv, TypeOK
  <2>4. /\ e \in DeviceType /\ e.id = i /\ e.mac = d.mac /\ e.room = r /\ e.seen <= now
        /\ e.touched = now /\ Prompt(e)
    <3>1. t \in 0 .. MaxTime /\ t <= now /\ now <= t + MaxDelay
      BY <2>3, Numbers
    <3> QED BY <2>2, <2>3, <3>1 DEF DeviceType, Prompt
  <2> HIDE DEF e
  <2>5. dev'[o] = e /\ \A x \in Objects \ {o} : dev'[x] = dev[x]
    BY <2>1, <2>2, <2>3
  <2>6. dev' \in [Objects -> DeviceType \cup {NoDevice}]
    BY <2>1, <2>3, <2>4
  <2>7. \A j \in DOMAIN deviceMap \ {i} : deviceMap[j] \in Objects \ {o}
    BY MapFacts
  <2> HIDE DEF d, o
  <2>8. UpsertedMap(i, o, DOMAIN deviceMap)
    BY <2>1, <2>5, <2>7 DEF UpsertedMap, o
  <2>9. Fits(dev'[o], i)
    BY <2>2, <2>4, <2>5 DEF Fits
  <2>10. /\ IsOrder(order') /\ DOMAIN order' = DOMAIN deviceMap \cup {i}
         /\ \A j \in DOMAIN deviceMap \ {i} : order'[j] \subseteq order[j] \ {i}
    <3>1. IsOrder(order) /\ order' = Touched(order, i) /\ DOMAIN order = DOMAIN deviceMap
      BY <2>1, <2>2, MapFacts DEF IInv, ByAge
    <3>2. /\ IsOrder(Touched(order, i)) /\ DOMAIN Touched(order, i) = DOMAIN order \cup {i}
          /\ \A j \in DOMAIN order \ {i} : Touched(order, i)[j] = order[j] \ {i}
      BY <3>1, TouchedIs
    <3> QED BY <3>1, <3>2
  <2>11. /\ Range(anoniDevices') \subseteq Identifiers \ GlobalMACs
         /\ Range(todo') \subseteq Identifiers \ GlobalMACs
    BY <2>1 DEF IInv, Stores
  <2>12. /\ DOMAIN deviceMap' \subseteq Identifiers /\ DOMAIN order' = DOMAIN deviceMap'
         /\ \A j \in DOMAIN deviceMap' :
               deviceMap'[j] \in Objects /\ dev'[deviceMap'[j]] \in DeviceType
         /\ Stores' /\ ByAge'
    BY <2>2, <2>8, <2>9, <2>10, <2>11, Upserts
  <2>13. /\ members' \in [Places -> SUBSET Objects] /\ devicecount' \in [Places -> Int]
         /\ Finite'
    BY <2>1, <2>2, MoveTyped
  <2>14. TypeOK'
    BY <2>1, <2>3, <2>6, <2>12, <2>13 DEF IInv, TypeOK
  <2>15. ASSUME ~collided PROVE Resolves'
    <3>1. \A j \in DOMAIN deviceMap : dev'[deviceMap[j]].mac = dev[deviceMap[j]].mac
      BY <2>4, <2>5, <2>7 DEF o, d
    <3>2. Resolves
      BY <2>15 DEF IInv, Sound
    <3> QED BY <2>1, <3>1, <3>2 DEF Resolves, DeviceOf
  <2>16. ASSUME ~collided, drifts = 0 PROVE Exact'
    <3>1. Exact
      BY <2>16 DEF IInv, Sound
    <3>2. \A p \in Places : o \in members[p] <=> p = d.room
      BY <2>2, <3>1, MapFacts DEF Exact, Listed, DeviceOf, o, d
    <3>3. \A p \in Places :
              /\ o \in members'[p] <=> p = r
              /\ \A x \in Objects \ {o} : x \in members'[p] <=> x \in members[p]
              /\ devicecount'[p] = Cardinality(members'[p])
      BY <2>1, <2>2, <3>1, <3>2, MoveExact
    <3>4. ASSUME NEW p \in Places, NEW x \in Objects PROVE x \in members'[p] <=> Listed(x, p)'
      <4>1. CASE x = o
        <5>1. Listed(x, p)' <=> p = r
          BY <2>1, <2>4, <2>5, <2>7, <4>1 DEF Listed, DeviceOf, o
        <5> QED BY <3>3, <4>1, <5>1
      <4>2. CASE x # o
        <5>1. Listed(x, p)' <=> Listed(x, p)
          BY <2>1, <2>5, <4>2 DEF Listed, DeviceOf
        <5> QED BY <3>1, <3>3, <4>2, <5>1 DEF Exact
      <4> QED BY <4>1, <4>2
    <3> QED BY <3>3, <3>4 DEF Exact
  <2> QED BY <2>12, <2>13, <2>14, <2>15, <2>16 DEF IInv, Sound
<1> QED BY <1>1, <1>2

(* The identifier made for an address tells whether the address is random. *)
LEMMA IdentifierIs ==
    ASSUME IInv, NEW m \in MACs
    PROVE  /\ Identifier(m) \in Identifiers
           /\ m \in LocalMACs <=> Identifier(m) \notin GlobalMACs
           /\ m \notin LocalMACs => Identifier(m) = m
<1>1. now \in 0 .. MaxTime
  BY MapFacts
<1>2. CASE m \in LocalMACs
  BY <1>1, <1>2, Numbers DEF Identifier
<1>3. CASE m \notin LocalMACs
  BY <1>3, Numbers DEF Identifier, MACs, Identifiers
<1> QED BY <1>2, <1>3

(* A packet of a device not in the map: a new device, of a free object,    *)
(* takes its identifier, from another device in a collision.               *)
LEMMA NewDeviceStep ==
    ASSUME IInv, phase = "analyze", NEW m \in MACs, NEW r \in Places, NEW t \in 0 .. now,
           now <= t + MaxDelay,
           m \notin DOMAIN deviceMap, m \notin DOMAIN anoniDevices,
           NewDevice(m, r, t), UNCHANGED <<now, phase, todo, drifts>>
    PROVE  IInv'
<1> DEFINE id == Identifier(m)
           o == CHOOSE x \in Unused : TRUE
           e == Device(m, id, r, t)
           old == IF id \in DOMAIN deviceMap THEN {deviceMap[id]} ELSE {}
<1>1. /\ Unused # {}
      /\ dev' = [x \in Objects |-> IF x = o THEN e ELSE IF x \in old THEN NoDevice ELSE dev[x]]
      /\ deviceMap' = Stored(deviceMap, id, o)
      /\ collided' = (collided \/ old # {})
      /\ order' = Touched(order, id)
      /\ anoniDevices' = IF m \in LocalMACs THEN Stored(anoniDevices, m, id) ELSE anoniDevices
      /\ members' = Added(members, r, o)
      /\ devicecount' = Count(devicecount, r, 1)
  BY DEF NewDevice
<1>2. o \in Unused
  BY <1>1
<1>3. /\ o \in Objects /\ \A j \in DOMAIN deviceMap : deviceMap[j] # o
      /\ \A p \in Places : o \notin members[p]
  BY <1>2 DEF Unused, Tracked, Range, IInv, TypeOK
<1>4. /\ id \in Identifiers
      /\ m \in LocalMACs <=> id \notin GlobalMACs
      /\ m \notin LocalMACs => id = m
  BY IdentifierIs
<1> HIDE DEF id, o
<1>5. dev \in [Objects -> DeviceType \cup {NoDevice}] /\ now \in 0 .. MaxTime /\ now \in Nat
  BY MapFacts, Numbers DEF IInv, TypeOK
<1>6. /\ e \in DeviceType /\ e.id = id /\ e.mac = m /\ e.room = r /\ e.seen <= now
      /\ e.touched = now /\ Prompt(e)
  <2>1. t \in 0 .. MaxTime /\ t <= now /\ now <= t + MaxDelay
    BY <1>5, Numbers
  <2>2. e = [mac |-> m, id |-> id, room |-> r, seen |-> t, first |-> t, firstRoom |-> r,
             touched |-> now, merged |-> FALSE]
    BY DEF Device
  <2>3. m \in MACs /\ id \in Identifiers /\ r \in Places
    BY <1>4
  <2> HIDE DEF e
  <2> QED BY <1>5, <2>1, <2>2, <2>3 DEF DeviceType, Prompt
<1> HIDE DEF e
<1>7. /\ DOMAIN deviceMap' = DOMAIN deviceMap \cup {id} /\ deviceMap'[id] = o
      /\ \A j \in DOMAIN deviceMap \ {id} : deviceMap'[j] = deviceMap[j]
  <2>1. /\ DOMAIN Stored(deviceMap, id, o) = DOMAIN deviceMap \cup {id}
        /\ Stored(deviceMap, id, o)[id] = o
        /\ \A j \in DOMAIN deviceMap \ {id} : Stored(deviceMap, id, o)[j] = deviceMap[j]
    BY DEF Stored
  <2>2. deviceMap' = Stored(deviceMap, id, o)
    BY <1>1
  <2> QED BY <2>1, <2>2
<1>8. dev'[o] = e /\ \A j \in DOMAIN deviceMap \ {id} : dev'[deviceMap[j]] = dev[deviceMap[j]]
  <2>1. dev'[o] = e
    BY <1>1, <1>3
  <2>2. ASSUME NEW j \in DOMAIN deviceMap \ {id} PROVE dev'[deviceMap[j]] = dev[deviceMap[j]]
    <3>1. deviceMap[j] \in Objects /\ deviceMap[j] # o /\ deviceMap[j] \notin old
      BY <1>3, MapFacts
    <3> QED BY <1>1, <3>1
  <2> QED BY <2>1, <2>2
<1>9. UpsertedMap(id, o, DOMAIN deviceMap) /\ Fits(dev'[o], id)
  <2>1. UpsertedMap(id, o, DOMAIN deviceMap)
    BY <1>7, <1>8 DEF UpsertedMap
  <2>2. Fits(e, id)
    BY <1>4, <1>6 DEF Fits
  <2> QED BY <1>8, <2>1, <2>2
<1>10. /\ IsOrder(order') /\ DOMAIN order' = DOMAIN deviceMap \cup {id}
       /\ \A j \in DOMAIN deviceMap \ {id} : order'[j] \subseteq order[j] \ {id}
  <2>1. IsOrder(order) /\ DOMAIN order = DOMAIN deviceMap
    BY MapFacts DEF IInv, ByAge
  <2>2. /\ IsOrder(Touched(order, id)) /\ DOMAIN Touched(order, id) = DOMAIN order \cup {id}
        /\ \A j \in DOMAIN order \ {id} : Touched(order, id)[j] = order[j] \ {id}
    BY <2>1, TouchedIs
  <2> QED BY <1>1, <2>1, <2>2
<1>11. /\ DOMAIN anoniDevices' \subseteq LocalMACs
       /\ Range(anoniDevices') \subseteq Identifiers \ GlobalMACs
  <2>1. /\ DOMAIN anoniDevices \subseteq LocalMACs
        /\ Range(anoniDevices) \subseteq Identifiers \ GlobalMACs
    BY DEF IInv, TypeOK, Stores
  <2>2. CASE m \in LocalMACs
    <3>1. /\ DOMAIN Stored(anoniDevices, m, id) \subseteq LocalMACs
          /\ Range(Stored(anoniDevices, m, id)) \subseteq Identifiers \ GlobalMACs
      BY <1>4, <2>1, <2>2, StoredTyped
    <3> QED BY <1>1, <2>2, <3>1
  <2>3. CASE m \notin LocalMACs
    BY <1>1, <2>1, <2>3
  <2> QED BY <2>2, <2>3
<1>12. Range(todo') \subseteq Identifiers \ GlobalMACs
  BY DEF IInv, Stores
<1>13. /\ DOMAIN deviceMap' \subseteq Identifiers /\ DOMAIN order' = DOMAIN deviceMap'
       /\ \A j \in DOMAIN deviceMap' :
             deviceMap'[j] \in Objects /\ dev'[deviceMap'[j]] \in DeviceType
       /\ Stores' /\ ByAge'
  BY <1>3, <1>9, <1>10, <1>11, <1>12, Upserts
<1>14. dev' \in [Objects -> DeviceType \cup {NoDevice}]
  BY <1>1, <1>5, <1>6
<1>15. /\ members \in [Places -> SUBSET Objects] /\ devicecount \in [Places -> Int]
       /\ \A p \in Places : IsFiniteSet(members[p])
  BY DEF IInv, TypeOK, Finite
<1>16. /\ members' \in [Places -> SUBSET Objects] /\ devicecount' \in [Places -> Int]
       /\ members'[r] = members[r] \cup {o} /\ devicecount'[r] = devicecount[r] + 1
       /\ \A p \in Places \ {r} : members'[p] = members[p] /\ devicecount'[p] = devicecount[p]
  BY <1>1, <1>3, <1>15 DEF Added, Count
<1>17. /\ IsFiniteSet(members[r] \cup {o})
       /\ Cardinality(members[r] \cup {o}) = Cardinality(members[r]) + 1
  BY <1>3, <1>15, FS_AddElement
<1>18. Finite'
  BY <1>15, <1>16, <1>17 DEF Finite
<1>19. TypeOK'
  BY <1>1, <1>5, <1>11, <1>13, <1>14, <1>16 DEF IInv, TypeOK
<1>20. ASSUME ~collided' PROVE ~collided /\ id \notin DOMAIN deviceMap
  BY <1>1, <1>20
<1>21. ASSUME ~collided' PROVE Resolves'
  <2>1. Resolves /\ id \notin DOMAIN deviceMap
    BY <1>20, <1>21 DEF IInv, Sound
  <2>2. CASE m \in LocalMACs
    <3>1. /\ DOMAIN anoniDevices' = DOMAIN anoniDevices \cup {m} /\ anoniDevices'[m] = id
          /\ \A n \in DOMAIN anoniDevices \ {m} : anoniDevices'[n] = anoniDevices[n]
      <4>1. anoniDevices' = Stored(anoniDevices, m, id)
        BY <1>1, <2>2
      <4> QED BY <4>1 DEF Stored
    <3>2. ASSUME NEW n \in DOMAIN anoniDevices'
          PROVE  /\ anoniDevices'[n] \in DOMAIN deviceMap'
                 /\ dev'[deviceMap'[anoniDevices'[n]]].mac = n
      BY <1>6, <1>7, <1>8, <2>1, <3>1 DEF Resolves, DeviceOf
    <3>3. ASSUME NEW j \in DOMAIN deviceMap', dev'[deviceMap'[j]].mac \in LocalMACs
          PROVE  /\ dev'[deviceMap'[j]].mac \in DOMAIN anoniDevices'
                 /\ anoniDevices'[dev'[deviceMap'[j]].mac] = j
      BY <1>6, <1>7, <1>8, <2>1, <3>1, <3>3 DEF Resolves, DeviceOf
    <3> QED BY <2>1, <3>2, <3>3 DEF Resolves, DeviceOf
  <2>3. CASE m \notin LocalMACs
    BY <1>1, <1>6, <1>7, <1>8, <2>1, <2>3 DEF Resolves, DeviceOf
  <2> QED BY <2>2, <2>3
<1>22. ASSUME ~collided', drifts' = 0 PROVE Exact'
  <2>1. Exact /\ id \notin DOMAIN deviceMap
    BY <1>20, <1>22 DEF IInv, Sound
  <2>2. ASSUME NEW p \in Places, NEW x \in Objects PROVE x \in members'[p] <=> Listed(x, p)'
    <3>1. CASE x = o
      BY <1>3, <1>6, <1>7, <1>8, <1>16, <3>1 DEF Listed, DeviceOf
    <3>2. CASE x # o
      <4>1. Listed(x, p)' <=> Listed(x, p)
        BY <1>7, <1>8, <2>1, <3>2 DEF Listed, DeviceOf
      <4> QED BY <1>16, <2>1, <3>2, <4>1 DEF Exact
    <3> QED BY <3>1, <3>2
  <2>3. \A p \in Places : devicecount'[p] = Cardinality(members'[p])
    BY <1>16, <1>17, <2>1 DEF Exact
  <2> QED BY <2>2, <2>3 DEF Exact
<1> QED BY <1>13, <1>18, <1>19, <1>21, <1>22 DEF IInv, Sound

(* A packet of an address that leads nowhere.                              *)
LEMMA DieStep ==
    ASSUME IInv, NEW m \in DOMAIN anoniDevices, anoniDevices[m] \notin DOMAIN deviceMap,
           Die, UNCHANGED <<now, todo, drifts, collided>>
    PROVE  IInv'
<1>1. collided
  BY DEF IInv, Sound, Resolves
<1>2. /\ now' \in 0 .. MaxTime /\ now <= now'
      /\ phase' \in {"analyze", "match", "clean", "dead"}
      /\ DOMAIN todo' \subseteq LocalMACs /\ Range(todo') \subseteq Identifiers \ GlobalMACs
  BY MapFacts, Numbers DEF Die, IInv, TypeOK, Stores
<1> QED BY <1>1, <1>2, Elsewhere DEF Die

(* A cleaning step takes the oldest device away from everywhere.           *)
LEMMA HouseholdStep == ASSUME IInv, NEW i \in DOMAIN deviceMap, Household(i) PROVE IInv'
<1> DEFINE o == deviceMap[i]
           d == dev[o]
<1>1. /\ deviceMap' = Forgotten(deviceMap, i)
      /\ order' = Dropped(order, i)
      /\ dev' = [dev EXCEPT ![o] = NoDevice]
      /\ anoniDevices' = IF d.mac \in LocalMACs THEN Forgotten(anoniDevices, d.mac)
                         ELSE anoniDevices
      /\ members' = Removed(members, d.room, o)
      /\ devicecount' = Count(devicecount, d.room, -1)
      /\ UNCHANGED <<now, phase, todo, drifts, collided>>
  BY DEF Household
<1>2. /\ o \in Objects /\ d \in DeviceType /\ d.id = i /\ d.room \in Places /\ d.mac \in MACs
      /\ d.mac \in LocalMACs <=> i \notin GlobalMACs
  BY MapFacts, FieldsAre DEF DeviceOf
<1>3. dev \in [Objects -> DeviceType \cup {NoDevice}] /\ now \in 0 .. MaxTime
  BY MapFacts DEF IInv, TypeOK
<1>4. \A j \in DOMAIN deviceMap \ {i} : deviceMap[j] # o /\ deviceMap[j] \in Objects
  BY MapFacts
<1>5. /\ DOMAIN deviceMap' = DOMAIN deviceMap \ {i}
      /\ \A j \in DOMAIN deviceMap \ {i} : /\ deviceMap'[j] = deviceMap[j]
                                           /\ dev'[deviceMap[j]] = dev[deviceMap[j]]
  <2>1. /\ DOMAIN deviceMap' = DOMAIN deviceMap \ {i}
        /\ \A j \in DOMAIN deviceMap \ {i} : deviceMap'[j] = deviceMap[j]
    BY <1>1 DEF Forgotten
  <2>2. ASSUME NEW j \in DOMAIN deviceMap \ {i} PROVE dev'[deviceMap[j]] = dev[deviceMap[j]]
    BY <1>1, <1>3, <1>4
  <2> QED BY <2>1, <2>2
<1> HIDE DEF o, d
<1>6. /\ IsOrder(order') /\ DOMAIN order' = DOMAIN deviceMap \ {i}
      /\ \A j \in DOMAIN deviceMap \ {i} : order'[j] = order[j] \ {i}
  <2>1. IsOrder(order) /\ DOMAIN order = DOMAIN deviceMap
    BY MapFacts DEF IInv, ByAge
  <2>2. /\ IsOrder(Dropped(order, i)) /\ DOMAIN Dropped(order, i) = DOMAIN order \ {i}
        /\ \A j \in DOMAIN order \ {i} : Dropped(order, i)[j] = order[j] \ {i}
    BY <2>1, DroppedIs
  <2> QED BY <1>1, <2>1, <2>2
<1>7. /\ DOMAIN anoniDevices' \subseteq LocalMACs
      /\ Range(anoniDevices') \subseteq Identifiers \ GlobalMACs
      /\ \A n \in DOMAIN anoniDevices' : n \in DOMAIN anoniDevices
                                         /\ anoniDevices'[n] = anoniDevices[n]
      /\ \A n \in DOMAIN anoniDevices : n # d.mac => n \in DOMAIN anoniDevices'
      /\ d.mac \in LocalMACs => d.mac \notin DOMAIN anoniDevices'
  <2>1. /\ DOMAIN anoniDevices \subseteq LocalMACs
        /\ Range(anoniDevices) \subseteq Identifiers \ GlobalMACs
    BY DEF IInv, TypeOK, Stores
  <2>2. CASE d.mac \in LocalMACs
    <3>1. anoniDevices' = Forgotten(anoniDevices, d.mac)
      BY <1>1, <2>2
    <3> QED BY <2>1, <3>1 DEF Forgotten, Range
  <2>3. CASE d.mac \notin LocalMACs
    BY <1>1, <2>1, <2>3
  <2> QED BY <2>2, <2>3
<1>8. Stores'
  BY <1>1, <1>5, <1>7 DEF IInv, Stores, DeviceOf
<1>9. ByAge'
  <2>1. \A j \in DOMAIN deviceMap : order[j] \subseteq DOMAIN deviceMap
    BY MapFacts DEF IInv, ByAge, IsOrder
  <2> QED BY <1>1, <1>5, <1>6, <2>1 DEF IInv, ByAge, DeviceOf, Prompt
<1>10. /\ members \in [Places -> SUBSET Objects] /\ devicecount \in [Places -> Int]
       /\ \A p \in Places : IsFiniteSet(members[p])
  BY DEF IInv, TypeOK, Finite
<1>11. /\ members' \in [Places -> SUBSET Objects] /\ devicecount' \in [Places -> Int]
       /\ members'[d.room] = members[d.room] \ {o}
       /\ devicecount'[d.room] = devicecount[d.room] - 1
       /\ \A p \in Places \ {d.room} : members'[p] = members[p] /\ devicecount'[p] = devicecount[p]
  BY <1>1, <1>2, <1>10 DEF Removed, Count
<1>12. /\ IsFiniteSet(members[d.room] \ {o})
       /\ o \in members[d.room] =>
             Cardinality(members[d.room] \ {o}) = Cardinality(members[d.room]) - 1
  BY <1>2, <1>10, FS_RemoveElement
<1>13. Finite'
  BY <1>10, <1>11, <1>12 DEF Finite
<1>14. TypeOK'
  <2>1. dev' \in [Objects -> DeviceType \cup {NoDevice}]
    BY <1>1, <1>3
  <2>2. /\ DOMAIN deviceMap' \subseteq Identifiers
        /\ \A j \in DOMAIN deviceMap' :
              deviceMap'[j] \in Objects /\ dev'[deviceMap'[j]] \in DeviceType
    BY <1>5, MapFacts DEF DeviceOf
  <2> QED BY <1>1, <1>5, <1>6, <1>7, <1>11, <2>1, <2>2 DEF IInv, TypeOK
<1>15. ASSUME ~collided PROVE Resolves'
  <2>1. Resolves
    BY <1>15 DEF IInv, Sound
  <2>2. ASSUME NEW n \in DOMAIN anoniDevices' PROVE anoniDevices[n] # i
    <3>1. anoniDevices[n] \notin GlobalMACs
      BY <1>7, <2>2 DEF IInv, Stores, Range
    <3>2. dev[deviceMap[anoniDevices[n]]].mac = n
      BY <1>7, <2>1, <2>2 DEF Resolves, DeviceOf
    <3> QED BY <1>2, <1>7, <2>2, <3>1, <3>2 DEF d, o
  <2>3. ASSUME NEW n \in DOMAIN anoniDevices'
        PROVE  /\ anoniDevices'[n] \in DOMAIN deviceMap'
               /\ dev'[deviceMap'[anoniDevices'[n]]].mac = n
    BY <1>5, <1>7, <2>1, <2>2, <2>3 DEF Resolves, DeviceOf
  <2>4. ASSUME NEW j \in DOMAIN deviceMap', dev'[deviceMap'[j]].mac \in LocalMACs
        PROVE  /\ dev'[deviceMap'[j]].mac \in DOMAIN anoniDevices'
               /\ anoniDevices'[dev'[deviceMap'[j]].mac] = j
    <3>1. /\ dev'[deviceMap'[j]] = dev[deviceMap[j]] /\ j \in DOMAIN deviceMap /\ j # i
      BY <1>5, <2>4
    <3>2. /\ dev[deviceMap[j]].mac \in DOMAIN anoniDevices
          /\ anoniDevices[dev[deviceMap[j]].mac] = j
      BY <2>1, <2>4, <3>1 DEF Resolves, DeviceOf
    <3>3. d.mac \in LocalMACs => anoniDevices[d.mac] = i
      BY <2>1 DEF Resolves, DeviceOf, d, o
    <3>4. dev[deviceMap[j]].mac # d.mac
      BY <2>4, <3>1, <3>2, <3>3
    <3> QED BY <1>7, <3>1, <3>2, <3>4
  <2> QED BY <1>1, <2>1, <2>3, <2>4 DEF Resolves, DeviceOf
<1>16. ASSUME ~collided, drifts = 0 PROVE Exact'
  <2>1. Exact
    BY <1>16 DEF IInv, Sound
  <2>2. \A p \in Places : o \in members[p] <=> p = d.room
    BY <1>2, <2>1, MapFacts DEF Exact, Listed, DeviceOf, o, d
  <2>3. ASSUME NEW p \in Places, NEW x \in Objects PROVE x \in members'[p] <=> Listed(x, p)'
    <3>1. CASE x = o
      BY <1>2, <1>4, <1>5, <1>11, <2>2, <3>1 DEF Listed, DeviceOf
    <3>2. CASE x # o
      <4>1. Listed(x, p)' <=> Listed(x, p)
        BY <1>4, <1>5, <3>2 DEF Listed, DeviceOf, o
      <4> QED BY <1>11, <2>1, <3>2, <4>1 DEF Exact
    <3> QED BY <3>1, <3>2
  <2>4. \A p \in Places : devicecount'[p] = Cardinality(members'[p])
    BY <1>2, <1>11, <1>12, <2>1, <2>2 DEF Exact
  <2> QED BY <2>3, <2>4 DEF Exact
<1> QED BY <1>1, <1>8, <1>9, <1>13, <1>14, <1>15, <1>16 DEF IInv, Sound

(* A merge: the device A of ia takes the address and the position of the   *)
(* device B of ib, which goes.                                             *)
LEMMA MergeStep ==
    ASSUME IInv, NEW ia \in DOMAIN deviceMap, NEW ib \in DOMAIN deviceMap,
           ia \notin GlobalMACs, ib \notin GlobalMACs, ~collided => ia # ib,
           NEW x, NEW y, Kept(x, y) = deviceMap[ia], Merged(x, y) = deviceMap[ib],
           MergeAnonimous(x, y), DOMAIN todo' \subseteq LocalMACs,
           Range(todo') \subseteq Identifiers \ GlobalMACs,
           ~collided => \A m, n \in DOMAIN todo' : todo'[m] = todo'[n] => m = n,
           UNCHANGED <<now, phase, collided>>
    PROVE  IInv'
<1> DEFINE A == deviceMap[ia]
           B == deviceMap[ib]
           a == dev[A]
           b == dev[B]
           e == [a EXCEPT !.room = b.room, !.seen = b.seen, !.mac = b.mac, !.touched = now,
                          !.merged = TRUE]
           D == DOMAIN deviceMap
<1>1. /\ dev' = [o \in Objects |-> IF o = A THEN e ELSE IF o = B THEN NoDevice ELSE dev[o]]
      /\ deviceMap' = Stored(Forgotten(deviceMap, b.id), a.id, A)
      /\ order' = Touched(Dropped(order, b.id), a.id)
      /\ members' = Removed(members, b.room, B)
      /\ devicecount' = Count(devicecount, b.room, -1)
      /\ anoniDevices' = Stored(Forgotten(anoniDevices, a.mac), b.mac, a.id)
      /\ drifts' = drifts + (IF a.room # b.room THEN 1 ELSE 0)
      /\ drifts' <= MaxDrifts
  BY DEF MergeAnonimous, Rekeyed, Renamed
<1>2. /\ A \in Objects /\ a \in DeviceType /\ a.id = ia /\ a.mac \in LocalMACs /\ a.room \in Places
      /\ B \in Objects /\ b \in DeviceType /\ b.id = ib /\ b.mac \in LocalMACs /\ b.room \in Places
      /\ b.seen <= b.touched /\ b.touched <= now
      /\ ia \in Identifiers
  BY MapFacts, FieldsAre DEF DeviceOf, IInv, ByAge
<1>3. dev \in [Objects -> DeviceType \cup {NoDevice}] /\ now \in 0 .. MaxTime /\ now \in Nat
      /\ MaxTime \in Nat /\ D \subseteq Identifiers
  BY MapFacts, Numbers DEF IInv, TypeOK
<1>4. \A j \in D \ {ia} : deviceMap[j] # A /\ deviceMap[j] \in Objects
  BY MapFacts
<1>5. \A j \in D \ {ib} : deviceMap[j] # B
  BY MapFacts
<1> HIDE DEF A, B
<1>6. /\ e \in DeviceType /\ e.id = ia /\ e.mac = b.mac /\ e.room = b.room /\ e.touched = now
      /\ e.seen <= now /\ Prompt(e)
  <2>1. b.seen \in 0 .. MaxTime /\ b.touched \in 0 .. MaxTime /\ b.mac \in MACs
    BY <1>2, FieldsAre
  <2>2. b.seen <= now
    BY <1>2, <1>3, <2>1
  <2> HIDE DEF a, b
  <2> QED BY <1>2, <1>3, <2>1, <2>2 DEF DeviceType, Prompt
<1> HIDE DEF a, b, e, D
<1>7. /\ DOMAIN deviceMap' = (D \ {ib}) \cup {ia} /\ deviceMap'[ia] = A
      /\ \A j \in (D \ {ib}) \ {ia} : deviceMap'[j] = deviceMap[j]
  <2>1. deviceMap' = Stored(Forgotten(deviceMap, ib), ia, A)
    BY <1>1, <1>2
  <2> QED BY <2>1 DEF Stored, Forgotten, D
<1>8. dev'[A] = e /\ \A j \in (D \ {ib}) \ {ia} : dev'[deviceMap[j]] = dev[deviceMap[j]]
  BY <1>1, <1>2, <1>4, <1>5
<1>9. UpsertedMap(ia, A, D \ {ib}) /\ Fits(dev'[A], ia)
  <2>1. UpsertedMap(ia, A, D \ {ib})
    BY <1>7, <1>8 DEF UpsertedMap
  <2>2. Fits(e, ia)
    BY <1>2, <1>6 DEF Fits
  <2> QED BY <1>8, <2>1, <2>2
<1>10. /\ IsOrder(order') /\ DOMAIN order' = (D \ {ib}) \cup {ia}
       /\ \A j \in (D \ {ib}) \ {ia} : order'[j] \subseteq order[j] \ {ia}
  <2> DEFINE q == Dropped(order, ib)
  <2>1. IsOrder(order) /\ DOMAIN order = D
    BY MapFacts DEF IInv, ByAge, D
  <2>2. IsOrder(q) /\ DOMAIN q = D \ {ib} /\ \A j \in D \ {ib} : q[j] = order[j] \ {ib}
    BY <2>1, DroppedIs
  <2>3. order' = Touched(q, ia)
    BY <1>1, <1>2
  <2> HIDE DEF q
  <2>4. /\ IsOrder(Touched(q, ia)) /\ DOMAIN Touched(q, ia) = DOMAIN q \cup {ia}
        /\ \A j \in DOMAIN q \ {ia} : Touched(q, ia)[j] = q[j] \ {ia}
    BY <2>2, TouchedIs
  <2> QED BY <2>2, <2>3, <2>4
<1>11. /\ DOMAIN anoniDevices \subseteq LocalMACs
       /\ Range(anoniDevices) \subseteq Identifiers \ GlobalMACs
  BY DEF IInv, TypeOK, Stores
<1>12. /\ DOMAIN anoniDevices' = (DOMAIN anoniDevices \ {a.mac}) \cup {b.mac}
       /\ anoniDevices'[b.mac] = ia
       /\ \A n \in DOMAIN anoniDevices \ {a.mac, b.mac} : anoniDevices'[n] = anoniDevices[n]
  <2>1. anoniDevices' = Stored(Forgotten(anoniDevices, a.mac), b.mac, ia)
    BY <1>1, <1>2
  <2> QED BY <2>1 DEF Stored, Forgotten
<1>13. /\ DOMAIN anoniDevices' \subseteq LocalMACs
       /\ Range(anoniDevices') \subseteq Identifiers \ GlobalMACs
  BY <1>2, <1>11, <1>12 DEF Range
<1>14. /\ DOMAIN deviceMap' \subseteq Identifiers /\ DOMAIN order' = DOMAIN deviceMap'
       /\ \A j \in DOMAIN deviceMap' :
             deviceMap'[j] \in Objects /\ dev'[deviceMap'[j]] \in DeviceType
       /\ Stores' /\ ByAge'
  <2>1. D \ {ib} \in SUBSET DOMAIN deviceMap
    BY DEF D
  <2> QED BY <1>2, <1>9, <1>10, <1>13, <2>1, Upserts
<1>15. /\ members \in [Places -> SUBSET Objects] /\ devicecount \in [Places -> Int]
       /\ \A p \in Places : IsFiniteSet(members[p])
  BY DEF IInv, TypeOK, Finite
<1>16. /\ members' \in [Places -> SUBSET Objects] /\ devicecount' \in [Places -> Int]
       /\ members'[b.room] = members[b.room] \ {B}
       /\ devicecount'[b.room] = devicecount[b.room] - 1
       /\ \A p \in Places \ {b.room} : members'[p] = members[p] /\ devicecount'[p] = devicecount[p]
  BY <1>1, <1>2, <1>15 DEF Removed, Count
<1>17. /\ IsFiniteSet(members[b.room] \ {B})
       /\ B \in members[b.room] =>
             Cardinality(members[b.room] \ {B}) = Cardinality(members[b.room]) - 1
  BY <1>2, <1>15, FS_RemoveElement
<1>18. Finite'
  BY <1>15, <1>16, <1>17 DEF Finite
<1>19. TypeOK'
  <2>1. dev' \in [Objects -> DeviceType \cup {NoDevice}]
    BY <1>1, <1>3, <1>6
  <2>2. drifts' \in 0 .. MaxDrifts
    BY <1>1, Numbers DEF IInv, TypeOK
  <2> QED BY <1>3, <1>13, <1>14, <1>16, <2>1, <2>2 DEF IInv, TypeOK
<1>20. ASSUME ~collided PROVE Resolves'
  <2>1. Resolves /\ ia # ib
    BY <1>20 DEF IInv, Sound
  <2>2. anoniDevices[a.mac] = ia /\ anoniDevices[b.mac] = ib
    BY <1>2, <2>1 DEF Resolves, DeviceOf, A, B, a, b
  <2>3. ASSUME NEW n \in DOMAIN anoniDevices'
        PROVE  /\ anoniDevices'[n] \in DOMAIN deviceMap'
               /\ dev'[deviceMap'[anoniDevices'[n]]].mac = n
    <3>1. CASE n = b.mac
      BY <1>6, <1>7, <1>8, <1>12, <3>1
    <3>2. CASE n # b.mac
      <4>1. n \in DOMAIN anoniDevices \ {a.mac, b.mac} /\ anoniDevices'[n] = anoniDevices[n]
        BY <1>12, <2>3, <3>2
      <4>2. anoniDevices[n] \in D /\ dev[deviceMap[anoniDevices[n]]].mac = n
        BY <2>1, <4>1 DEF Resolves, DeviceOf, D
      <4>3. anoniDevices[n] \notin {ia, ib}
        BY <4>1, <4>2 DEF A, B, a, b
      <4> QED BY <1>7, <1>8, <4>1, <4>2, <4>3
    <3> QED BY <3>1, <3>2
  <2>4. ASSUME NEW j \in DOMAIN deviceMap', dev'[deviceMap'[j]].mac \in LocalMACs
        PROVE  /\ dev'[deviceMap'[j]].mac \in DOMAIN anoniDevices'
               /\ anoniDevices'[dev'[deviceMap'[j]].mac] = j
    <3>1. CASE j = ia
      BY <1>6, <1>7, <1>8, <1>12, <3>1
    <3>2. CASE j # ia
      <4>1. j \in (D \ {ib}) \ {ia} /\ dev'[deviceMap'[j]] = dev[deviceMap[j]]
        BY <1>7, <1>8, <2>4, <3>2
      <4>2. /\ dev[deviceMap[j]].mac \in DOMAIN anoniDevices
            /\ anoniDevices[dev[deviceMap[j]].mac] = j
        BY <2>1, <2>4, <4>1 DEF Resolves, DeviceOf, D
      <4>3. dev[deviceMap[j]].mac \notin {a.mac, b.mac}
        BY <2>2, <4>1, <4>2
      <4> QED BY <1>12, <4>1, <4>2, <4>3
    <3> QED BY <3>1, <3>2
  <2> QED BY <1>20, <2>1, <2>3, <2>4 DEF Resolves, DeviceOf
<1>21. ASSUME ~collided, drifts' = 0 PROVE Exact'
  <2>1. drifts = 0 /\ a.room = b.room
    BY <1>1, <1>21, Numbers DEF IInv, TypeOK
  <2>2. Exact /\ ia # ib
    BY <1>21, <2>1 DEF IInv, Sound
  <2>3. A # B
    BY <1>5, <2>2 DEF A, D
  <2>4. /\ \A p \in Places : B \in members[p] <=> p = b.room
        /\ \A p \in Places : A \in members[p] <=> p = b.room
    BY <1>2, <2>1, <2>2, MapFacts DEF Exact, Listed, DeviceOf, A, B, a, b
  <2>5. ASSUME NEW p \in Places, NEW o \in Objects PROVE o \in members'[p] <=> Listed(o, p)'
    <3>1. CASE o = B
      <4>1. ~Listed(o, p)'
        BY <1>5, <1>7, <2>2, <2>3, <3>1 DEF Listed, DeviceOf
      <4> QED BY <1>16, <2>4, <3>1, <4>1
    <3>2. CASE o = A
      <4>1. Listed(o, p)' <=> p = b.room
        <5>1. \A j \in DOMAIN deviceMap' : deviceMap'[j] = A <=> j = ia
          BY <1>4, <1>7
        <5>2. dev'[deviceMap'[ia]].room = b.room /\ ia \in DOMAIN deviceMap'
          BY <1>6, <1>7, <1>8
        <5> QED BY <3>2, <5>1, <5>2 DEF Listed, DeviceOf
      <4> QED BY <1>16, <2>3, <2>4, <3>2, <4>1
    <3>3. CASE o # A /\ o # B
      <4>1. Listed(o, p)' <=> Listed(o, p)
        <5>1. \A j \in DOMAIN deviceMap' : deviceMap'[j] = o =>
                 j \in D /\ deviceMap[j] = o /\ dev'[o] = dev[o]
          BY <1>7, <1>8, <3>3
        <5>2. \A j \in D : deviceMap[j] = o =>
                 j \in DOMAIN deviceMap' /\ deviceMap'[j] = o /\ dev'[o] = dev[o]
          BY <1>7, <1>8, <3>3 DEF A, B
        <5> QED BY <5>1, <5>2 DEF Listed, DeviceOf, D
      <4> QED BY <1>16, <2>2, <3>3, <4>1 DEF Exact
    <3> QED BY <3>1, <3>2, <3>3
  <2>6. \A p \in Places : devicecount'[p] = Cardinality(members'[p])
    BY <1>2, <1>16, <1>17, <2>2, <2>4 DEF Exact
  <2> QED BY <2>5, <2>6 DEF Exact
<1> QED BY <1>14, <1>18, <1>19, <1>20, <1>21 DEF IInv, Sound

(* A turn of the outer loop of the matching.                               *)
LEMMA FindSameStep == ASSUME IInv, NEW m \in DOMAIN todo, FindSame(m) PROVE IInv'
<1>1. /\ todo' = Forgotten(todo, m) /\ now' = now /\ phase' = phase /\ collided' = collided
      /\ now \in 0 .. MaxTime /\ now <= now'
  BY MapFacts, Numbers DEF FindSame
<1>2. /\ DOMAIN todo' = DOMAIN todo \ {m}
      /\ \A n \in DOMAIN todo' : todo'[n] = todo[n]
  BY <1>1 DEF Forgotten
<1>3. /\ DOMAIN todo \subseteq LocalMACs
      /\ Range(todo) \subseteq Identifiers \ GlobalMACs
      /\ ~collided => \A k, n \in DOMAIN todo : todo[k] = todo[n] => k = n
  BY DEF IInv, TypeOK, Stores, Sound, Resolves
<1>4. /\ DOMAIN todo' \subseteq LocalMACs
      /\ Range(todo') \subseteq Identifiers \ GlobalMACs
      /\ ~collided => \A k, n \in DOMAIN todo' : todo'[k] = todo'[n] => k = n
  BY <1>2, <1>3 DEF Range
<1>5. CASE UNCHANGED <<tables, drifts>>
  <2>1. /\ phase' \in {"analyze", "match", "clean", "dead"}
        /\ ~collided => phase' # "dead"
    BY <1>1 DEF IInv, TypeOK, Sound, Resolves
  <2> QED BY <1>1, <1>4, <1>5, <2>1, Elsewhere
<1>6. ASSUME NEW n \in DOMAIN todo', MatchOf(m, n) PROVE IInv'
  <2> DEFINE x == deviceMap[todo[n]]
             y == deviceMap[todo[m]]
  <2>1. /\ todo[m] \in DOMAIN deviceMap /\ todo[n] \in DOMAIN deviceMap
        /\ MergeAnonimous(x, y)
    BY <1>6 DEF MatchOf
  <2>2. /\ todo[m] \notin GlobalMACs /\ todo[n] \notin GlobalMACs
        /\ ~collided => todo[m] # todo[n]
    BY <1>2, <1>3, <1>6 DEF Range
  <2>3. (Kept(x, y) = y /\ Merged(x, y) = x) \/ (Kept(x, y) = x /\ Merged(x, y) = y)
    BY DEF Kept, Merged
  <2>4. PICK ia \in DOMAIN deviceMap, ib \in DOMAIN deviceMap :
           /\ ia \notin GlobalMACs /\ ib \notin GlobalMACs
           /\ ~collided => ia # ib
           /\ Kept(x, y) = deviceMap[ia] /\ Merged(x, y) = deviceMap[ib]
    BY <2>1, <2>2, <2>3
  <2> HIDE DEF x, y
  <2> QED BY <1>1, <1>4, <2>1, <2>4, MergeStep
<1> QED BY <1>5, <1>6 DEF FindSame

(* A packet, whose address leads to a device, to none yet, or nowhere.     *)
LEMMA PacketStep == ASSUME IInv, Packet PROVE IInv'
<1>1. PICK m \in MACs, sr \in Rooms, t \in (now - MaxDelay) .. now, r \in Places :
         t >= 0 /\ AnalyzePacket(m, sr, r, t)
  BY DEF Packet, Places
<1>2. t \in 0 .. now /\ now <= t + MaxDelay /\ r \in Places
  BY <1>1, MapFacts, Numbers
<1> DEFINE id == PermanentIdentifier(m)
<1>3. phase = "analyze" /\ UNCHANGED <<now, todo, drifts>>
  BY <1>1 DEF AnalyzePacket
<1>4. CASE id \in DOMAIN deviceMap /\ KnownDevice(deviceMap[id], sr, r, t)
           /\ UNCHANGED <<phase, collided>>
  BY <1>2, <1>3, <1>4, KnownDeviceStep
<1>5. CASE id \notin DOMAIN deviceMap /\ m \notin DOMAIN anoniDevices /\ NewDevice(m, r, t)
           /\ UNCHANGED phase
  <2>1. m \notin DOMAIN deviceMap
    BY <1>5 DEF PermanentIdentifier
  <2> QED BY <1>2, <1>3, <1>5, <2>1, NewDeviceStep
<1>6. CASE id \notin DOMAIN deviceMap /\ m \in DOMAIN anoniDevices /\ Die /\ UNCHANGED collided
  <2>1. anoniDevices[m] \notin DOMAIN deviceMap
    BY <1>6 DEF PermanentIdentifier
  <2> QED BY <1>3, <1>6, <2>1, DieStep
<1> QED BY <1>1, <1>4, <1>5, <1>6 DEF AnalyzePacket

-----------------------------------------------------------------------------
(* At the start there is no device.                                        *)
LEMMA InitHolds == Init => IInv
<1> SUFFICES ASSUME Init PROVE IInv
  OBVIOUS
<1>1. /\ DOMAIN deviceMap = {} /\ DOMAIN order = {} /\ DOMAIN anoniDevices = {}
      /\ DOMAIN todo = {} /\ now = 0 /\ phase = "analyze" /\ drifts = 0 /\ collided = FALSE
      /\ dev = [o \in Objects |-> NoDevice]
      /\ members = [r \in Places |-> {}] /\ devicecount = [r \in Places |-> 0]
  BY DEF Init
<1>2. TypeOK
  <2>1. now \in 0 .. MaxTime /\ drifts \in 0 .. MaxDrifts
    BY <1>1, Numbers
  <2>2. /\ dev \in [Objects -> DeviceType \cup {NoDevice}]
        /\ members \in [Places -> SUBSET Objects] /\ devicecount \in [Places -> Int]
    BY <1>1
  <2> QED BY <1>1, <2>1, <2>2 DEF TypeOK, Range
<1>3. Stores
  BY <1>1 DEF Stores, Range
<1>4. IsFiniteSet({}) /\ Cardinality({}) = 0
  BY FS_EmptySet
<1>5. ByAge
  BY <1>1, <1>4 DEF ByAge, IsOrder
<1>6. Finite /\ Sound
  BY <1>1, <1>4 DEF Finite, Sound, Resolves, Exact, Listed
<1> QED BY <1>2, <1>3, <1>5, <1>6 DEF IInv

(* Every step keeps the invariant.                                         *)
LEMMA StepHolds == IInv /\ [Next]_vars => IInv'
<1> SUFFICES ASSUME IInv, [Next]_vars PROVE IInv'
  OBVIOUS
<1>1. CASE Packet \/ Expire \/ EndMatch \/ EndCleaning \/ Tick
  BY <1>1, PacketStep, ExpireStep, EndStep, TickStep
<1>2. CASE \E m \in DOMAIN todo : FindSame(m)
  BY <1>2, FindSameStep
<1>3. CASE \E i \in DOMAIN deviceMap : Household(i)
  BY <1>3, HouseholdStep
<1>4. CASE UNCHANGED vars
  <2>1. /\ UNCHANGED <<tables, drifts, collided>>
        /\ now' = now /\ phase' = phase /\ todo' = todo
    BY <1>4 DEF vars, tables
  <2>2. now \in 0 .. MaxTime /\ now <= now
    BY MapFacts, Numbers
  <2>3. /\ phase' \in {"analyze", "match", "clean", "dead"}
        /\ DOMAIN todo' \subseteq LocalMACs /\ Range(todo') \subseteq Identifiers \ GlobalMACs
        /\ ~collided => (\A m, n \in DOMAIN todo' : todo'[m] = todo'[n] => m = n) /\ phase' # "dead"
    BY <2>1 DEF IInv, TypeOK, Stores, Sound, Resolves
  <2> QED BY <2>1, <2>2, <2>3, Elsewhere
<1> QED BY <1>1, <1>2, <1>3, <1>4 DEF Next

(* So it always holds.                                                     *)
LEMMA AlwaysHolds == Spec => []IInv
  BY InitHolds, StepHolds, PTL DEF Spec

-----------------------------------------------------------------------------
(* Sums.  FoldFunction adds up the numbers of a function by taking one     *)
(* element of the domain after another; Partial is the function it defines *)
(* for that on the subsets of the domain.                                  *)

Any(s) == CHOOSE x \in s : TRUE
Term(f, g, s) == IF s = {} THEN 0 ELSE f[Any(s)] + g[s \ {Any(s)}]
Partial(f) == CHOOSE g : g = [s \in SUBSET DOMAIN f |-> Term(f, g, s)]

Total(f) == Partial(f)[DOMAIN f]

(* So the fold is the total.                                               *)
LEMMA FoldIs == ASSUME NEW f PROVE FoldFunction(+, 0, f) = Total(f)
  BY DEF FoldFunction, FoldFunctionOnSet, MapThenFoldSet, Total, Partial, Term, Any

(* Without the element that is taken first, a set is smaller.              *)
LEMMA AnyIs ==
    ASSUME NEW D, IsFiniteSet(D), NEW s \in SUBSET D, s # {}
    PROVE  /\ Any(s) \in s /\ s \ {Any(s)} \in SUBSET D
           /\ Cardinality(s) \in Nat
           /\ Cardinality(s \ {Any(s)}) \in Nat
           /\ Cardinality(s \ {Any(s)}) = Cardinality(s) - 1
<1>1. Any(s) \in s
  BY DEF Any
<1>2. IsFiniteSet(s)
  BY FS_Subset
<1> QED BY <1>1, <1>2, FS_RemoveElement, FS_CardinalityType, FS_Subset

(* Of a family of subsets of a finite set one has no smaller one in it.    *)
LEMMA SmallestOf ==
    ASSUME NEW D, IsFiniteSet(D), NEW F \in SUBSET SUBSET D, F # {}
    PROVE  \E s \in F : s # {} => s \ {Any(s)} \notin F
<1> DEFINE N == {Cardinality(s) : s \in F}
<1>1. \A s \in F : Cardinality(s) \in Nat
  BY FS_Subset, FS_CardinalityType
<1>2. N \in SUBSET Nat /\ N # {}
  BY <1>1
<1>3. PICK n \in N : \A k \in N : n <= k
  <2> HIDE DEF N
  <2> QED BY <1>2, FirstOf
<1>4. PICK s \in F : Cardinality(s) = n
  BY <1>3
<1>5. ASSUME s # {}, s \ {Any(s)} \in F PROVE FALSE
  <2>1. Cardinality(s) <= Cardinality(s \ {Any(s)})
    BY <1>3, <1>4, <1>5
  <2> QED BY <1>5, <2>1, AnyIs
<1> QED BY <1>4, <1>5

(* A sum over the subsets of a finite domain exists.                       *)
LEMMA PartialIs ==
    ASSUME NEW f, IsFiniteSet(DOMAIN f)
    PROVE  \A s \in SUBSET DOMAIN f : Partial(f)[s] = Term(f, Partial(f), s)
<1> DEFINE D == DOMAIN f
           Small(n) == {s \in SUBSET D : Cardinality(s) <= n}
           Ok(n) == \E g : g = [s \in Small(n) |-> Term(f, g, s)]
           Bad == {n \in Nat : ~Ok(n)}
<1>1. ASSUME NEW n \in Nat, n > 0, Ok(n - 1) PROVE Ok(n)
  <2>1. PICK g : g = [s \in Small(n - 1) |-> Term(f, g, s)]
    BY <1>1
  <2> DEFINE h == [s \in Small(n) |-> Term(f, g, s)]
  <2>2. ASSUME NEW s \in Small(n) PROVE Term(f, g, s) = Term(f, h, s)
    <3>1. CASE s = {}
      BY <3>1 DEF Term
    <3>2. CASE s # {}
      <4> DEFINE t == s \ {Any(s)}
      <4>1. t \in Small(n - 1) /\ t \in Small(n)
        BY <3>2, <2>2, <1>1, AnyIs
      <4>2. g[t] = Term(f, g, t)
        BY <2>1, <4>1
      <4>3. h[t] = Term(f, g, t)
        BY <4>1
      <4> HIDE DEF h, t
      <4>4. g[t] = h[t]
        BY <4>2, <4>3
      <4> QED BY <3>2, <4>4 DEF Term, t
    <3> QED BY <3>1, <3>2
  <2>3. h = [s \in Small(n) |-> Term(f, h, s)]
    BY <2>2
  <2> QED BY <2>3
<1>2. Ok(0)
  <2> DEFINE h == [s \in Small(0) |-> 0]
  <2>1. \A s \in Small(0) : s = {}
    <3> SUFFICES ASSUME NEW s \in Small(0), s # {} PROVE FALSE
      OBVIOUS
    <3>1. Cardinality(s) <= 0 /\ s \in SUBSET D
      OBVIOUS
    <3>2. /\ Cardinality(s) \in Nat /\ Cardinality(s \ {Any(s)}) \in Nat
          /\ Cardinality(s \ {Any(s)}) = Cardinality(s) - 1
      BY <3>1, AnyIs
    <3> HIDE DEF Small, D
    <3> QED BY <3>1, <3>2
  <2>2. h = [s \in Small(0) |-> Term(f, h, s)]
    BY <2>1 DEF Term
  <2> QED BY <2>2
<1>3. \A n \in Nat : Ok(n)
  <2> HIDE DEF Ok
  <2> SUFFICES ASSUME Bad # {} PROVE FALSE
    OBVIOUS
  <2>1. PICK n \in Bad : \A k \in Bad : n <= k
    <3>1. Bad \in SUBSET Nat
      OBVIOUS
    <3> HIDE DEF Bad
    <3> QED BY <3>1, FirstOf
  <2>2. n \in Nat /\ ~Ok(n)
    BY <2>1
  <2>3. n # 0
    BY <2>2, <1>2
  <2>4. n - 1 \in Nat /\ n - 1 \notin Bad
    BY <2>1, <2>2, <2>3
  <2> QED BY <1>1, <2>2, <2>3, <2>4
<1>4. Cardinality(D) \in Nat /\ Small(Cardinality(D)) = SUBSET D
  <2>1. \A s \in SUBSET D : Cardinality(s) <= Cardinality(D)
    BY FS_Subset
  <2> QED BY <2>1, FS_CardinalityType
<1>5. \E g : g = [s \in SUBSET D |-> Term(f, g, s)]
  BY <1>3, <1>4
<1>6. Partial(f) = [s \in SUBSET D |-> Term(f, Partial(f), s)]
  BY <1>5 DEF Partial
<1> QED BY <1>6


(* Numbers add up to a number.                                             *)
LEMMA SumTyped ==
    ASSUME NEW f, IsFiniteSet(DOMAIN f), \A x \in DOMAIN f : f[x] \in Int
    PROVE  \A s \in SUBSET DOMAIN f : Partial(f)[s] \in Int
<1> DEFINE Bad == {s \in SUBSET DOMAIN f : Partial(f)[s] \notin Int}
<1> SUFFICES ASSUME Bad # {} PROVE FALSE
  OBVIOUS
<1>1. PICK s \in Bad : s # {} => s \ {Any(s)} \notin Bad
  <2>1. Bad \in SUBSET SUBSET DOMAIN f
    OBVIOUS
  <2> HIDE DEF Bad
  <2> QED BY <2>1, SmallestOf
<1>2. Partial(f)[s] = Term(f, Partial(f), s)
  BY <1>1, PartialIs
<1>3. s # {} => Any(s) \in DOMAIN f /\ s \ {Any(s)} \in SUBSET DOMAIN f
  BY <1>1, AnyIs
<1>4. s # {} => Partial(f)[s \ {Any(s)}] \in Int
  BY <1>1, <1>3
<1>5. Term(f, Partial(f), s) \in Int
  BY <1>3, <1>4 DEF Term
<1> QED BY <1>1, <1>2, <1>5

(* Nothing but zeros adds up to zero.                                      *)
LEMMA SumOfZeros ==
    ASSUME NEW f, IsFiniteSet(DOMAIN f), \A x \in DOMAIN f : f[x] = 0
    PROVE  Total(f) = 0
<1> DEFINE Bad == {s \in SUBSET DOMAIN f : Partial(f)[s] # 0}
<1>1. Bad = {}
  <2> SUFFICES ASSUME Bad # {} PROVE FALSE
    OBVIOUS
  <2>1. PICK s \in Bad : s # {} => s \ {Any(s)} \notin Bad
    <3>1. Bad \in SUBSET SUBSET DOMAIN f
      OBVIOUS
    <3> HIDE DEF Bad
    <3> QED BY <3>1, SmallestOf
  <2>2. Partial(f)[s] = Term(f, Partial(f), s)
    BY <2>1, PartialIs
  <2>3. s # {} => Any(s) \in DOMAIN f /\ s \ {Any(s)} \in SUBSET DOMAIN f
    BY <2>1, AnyIs
  <2>4. Term(f, Partial(f), s) = 0
    BY <2>1, <2>3 DEF Term
  <2> QED BY <2>1, <2>2, <2>4
<1> QED BY <1>1 DEF Total

(* When one number changes, the sum changes by as much.                    *)
LEMMA SumChanged ==
    ASSUME NEW f, IsFiniteSet(DOMAIN f), \A x \in DOMAIN f : f[x] \in Int,
           NEW r \in DOMAIN f, NEW n \in Int
    PROVE  Total([f EXCEPT ![r] = @ + n]) = Total(f) + n
<1> DEFINE h == [f EXCEPT ![r] = @ + n]
           D == DOMAIN f
           More(s) == IF r \in s THEN n ELSE 0
           Bad == {s \in SUBSET D : Partial(h)[s] # Partial(f)[s] + More(s)}
<1>1. /\ DOMAIN h = D
      /\ \A x \in D : h[x] \in Int /\ h[x] = IF x = r THEN f[r] + n ELSE f[x]
  OBVIOUS
<1> HIDE DEF h
<1>2. Bad = {}
  <2> SUFFICES ASSUME Bad # {} PROVE FALSE
    OBVIOUS
  <2>1. PICK s \in Bad : s # {} => s \ {Any(s)} \notin Bad
    <3>1. Bad \in SUBSET SUBSET D
      OBVIOUS
    <3> HIDE DEF Bad
    <3> QED BY <3>1, SmallestOf
  <2> DEFINE x == Any(s)
             t == s \ {x}
  <2>2. Partial(f)[s] = Term(f, Partial(f), s) /\ Partial(h)[s] = Term(h, Partial(h), s)
    BY <1>1, <2>1, PartialIs
  <2>3. s \in SUBSET D /\ Partial(h)[s] # Partial(f)[s] + More(s)
    BY <2>1
  <2>4. CASE s = {}
    BY <2>2, <2>3, <2>4 DEF Term
  <2>5. CASE s # {}
    <3>1. x \in s /\ t \in SUBSET D
      BY <2>3, <2>5, AnyIs
    <3>2. Partial(h)[t] = Partial(f)[t] + More(t)
      BY <2>1, <2>5, <3>1
    <3>3. Partial(f)[t] \in Int /\ f[x] \in Int /\ h[x] = IF x = r THEN f[x] + n ELSE f[x]
      BY <1>1, <2>3, <3>1, SumTyped
    <3>4. Partial(f)[s] = f[x] + Partial(f)[t] /\ Partial(h)[s] = h[x] + Partial(h)[t]
      BY <2>2, <2>5 DEF Term
    <3>5. CASE x = r
      <4>1. More(s) = n /\ More(t) = 0
        BY <3>1, <3>5
      <4> HIDE DEF x, t, More
      <4> QED BY <2>3, <3>2, <3>3, <3>4, <3>5, <4>1
    <3>6. CASE x # r
      <4>1. More(s) = More(t) /\ More(t) \in Int
        BY <3>1, <3>6
      <4> HIDE DEF x, t, More
      <4> QED BY <2>3, <3>2, <3>3, <3>4, <3>6, <4>1
    <3> QED BY <3>5, <3>6
  <2> QED BY <2>4, <2>5
<1>3. Partial(h)[D] = Partial(f)[D] + n
  <2>1. D \notin Bad
    BY <1>2
  <2> QED BY <2>1
<1>4. Total(h) = Partial(h)[D] /\ Total(f) = Partial(f)[D]
  BY <1>1 DEF Total
<1> QED BY <1>3, <1>4 DEF h

-----------------------------------------------------------------------------
(* The counts of the rooms add up.                                         *)

(* What they add up to.                                                    *)
LEMMA CountsAre ==
    /\ CountsAddUp <=> Total(devicecount) = Cardinality(Tracked)
    /\ CountsAddUp' <=> Total(devicecount') = Cardinality(Tracked')
<1>1. FoldFunction(+, 0, devicecount) = Total(devicecount)
  BY FoldIs
<1>2. CountsAddUp <=> Total(devicecount) = Cardinality(Tracked)
  BY <1>1 DEF CountsAddUp
<1>3. (CountsAddUp <=> Total(devicecount) = Cardinality(Tracked))'
  BY <1>2, PTL
<1> QED BY <1>2, <1>3

(* What a change of one count does to the sum.                             *)
LEMMA CountChanged ==
    ASSUME NEW c \in [Places -> Int], NEW r \in Places, NEW n \in Int
    PROVE  Count(c, r, n) \in [Places -> Int] /\ Total(Count(c, r, n)) = Total(c) + n
<1>1. IsFiniteSet(DOMAIN c)
  BY DeviceAssumption, FS_AddElement DEF Places
<1>2. Total([c EXCEPT ![r] = @ + n]) = Total(c) + n
  BY <1>1, SumChanged
<1> QED BY <1>2 DEF Count

(* There are finitely many rooms, each with a number, and finitely many    *)
(* devices.                                                                *)
LEMMA CountFacts ==
    ASSUME IInv
    PROVE  /\ devicecount \in [Places -> Int] /\ IsFiniteSet(DOMAIN devicecount)
           /\ IsFiniteSet(Tracked) /\ Cardinality(Tracked) \in Nat
<1>1. IsFiniteSet(Places)
  BY DeviceAssumption, FS_AddElement DEF Places
<1>2. IsFiniteSet(Tracked)
  <2>1. IsFiniteSet(DOMAIN deviceMap)
    BY MapFacts DEF IInv, ByAge, IsOrder
  <2>2. [i \in DOMAIN deviceMap |-> deviceMap[i]] \in Surjection(DOMAIN deviceMap, Tracked)
    BY DEF Surjection, Tracked, Range
  <2> QED BY <2>1, <2>2, FS_Surjection
<1> QED BY <1>1, <1>2, FS_CardinalityType DEF IInv, TypeOK

(* A count and the number of devices change together.                      *)
LEMMA CountMoves ==
    ASSUME IInv, CountsAddUp, NEW r \in Places, NEW n \in Int,
           devicecount' = Count(devicecount, r, n),
           Cardinality(Tracked') = Cardinality(Tracked) + n
    PROVE  CountsAddUp'
<1>1. Total(Count(devicecount, r, n)) = Total(devicecount) + n
  BY CountFacts, CountChanged
<1> QED BY <1>1, CountsAre

(* A packet of a device in the map moves its count.                        *)
LEMMA KnownDeviceCounts ==
    ASSUME IInv, CountsAddUp, NEW i \in DOMAIN deviceMap, NEW sr, NEW r \in Places, NEW t,
           KnownDevice(deviceMap[i], sr, r, t)
    PROVE  CountsAddUp'
<1> DEFINE old == dev[deviceMap[i]].room
<1>1. old \in Places
  BY MapFacts, FieldsAre DEF DeviceOf
<1> HIDE DEF old
<1>2. CASE UNCHANGED <<deviceMap, devicecount>>
  BY <1>2, CountsAre DEF Tracked
<1>3. CASE deviceMap' = deviceMap /\ devicecount' = Count(Count(devicecount, old, -1), r, 1)
  <2> DEFINE c == Count(devicecount, old, -1)
  <2>1. c \in [Places -> Int] /\ Total(c) = Total(devicecount) + (-1)
    <3>1. -1 \in Int
      OBVIOUS
    <3> QED BY <1>1, <3>1, CountFacts, CountChanged
  <2> HIDE DEF c
  <2>2. Total(Count(c, r, 1)) = Total(c) + 1
    BY <2>1, CountChanged
  <2>3. devicecount' = Count(c, r, 1) /\ Tracked' = Tracked
    BY <1>3 DEF c, Tracked
  <2>4. Total(devicecount) = Cardinality(Tracked)
    BY CountsAre
  <2>5. Total(devicecount') = Cardinality(Tracked)
    BY <2>1, <2>2, <2>3, <2>4, CountFacts
  <2> QED BY <2>3, <2>5, CountsAre
<1> QED BY <1>2, <1>3 DEF KnownDevice, Move, old, tables

(* A new device that takes no other's identifier is one more.              *)
LEMMA NewDeviceCounts ==
    ASSUME IInv, CountsAddUp, NEW m \in MACs, NEW r \in Places, NEW t, NewDevice(m, r, t), ~collided'
    PROVE  CountsAddUp'
<1> DEFINE id == Identifier(m)
           o == CHOOSE x \in Unused : TRUE
<1>1. /\ Unused # {} /\ id \notin DOMAIN deviceMap /\ deviceMap' = Stored(deviceMap, id, o)
      /\ devicecount' = Count(devicecount, r, 1)
  BY DEF NewDevice
<1>2. o \notin Tracked
  BY <1>1 DEF Unused
<1> HIDE DEF id, o
<1>3. Tracked' = Tracked \cup {o}
  <2>1. /\ DOMAIN deviceMap' = DOMAIN deviceMap \cup {id} /\ deviceMap'[id] = o
        /\ \A j \in DOMAIN deviceMap : deviceMap'[j] = deviceMap[j]
    BY <1>1 DEF Stored
  <2> QED BY <2>1 DEF Tracked, Range
<1>4. Cardinality(Tracked') = Cardinality(Tracked) + 1
  BY <1>2, <1>3, CountFacts, FS_AddElement
<1> QED BY <1>1, <1>4, CountMoves

(* A device that is removed, or merged into another one, is one less.      *)
LEMMA LossCounts ==
    ASSUME IInv, CountsAddUp, NEW i \in DOMAIN deviceMap, NEW r \in Places,
           DOMAIN deviceMap' = DOMAIN deviceMap \ {i},
           \A j \in DOMAIN deviceMap' : deviceMap'[j] = deviceMap[j],
           devicecount' = Count(devicecount, r, -1)
    PROVE  CountsAddUp'
<1>1. Tracked' = Tracked \ {deviceMap[i]} /\ deviceMap[i] \in Tracked
  BY MapFacts DEF Tracked, Range
<1>2. Cardinality(Tracked') = Cardinality(Tracked) + (-1)
  BY <1>1, CountFacts, FS_RemoveElement
<1> QED BY <1>2, CountMoves

(* Until an identifier collides, a merge is of two devices.                *)
LEMMA FindSameCounts ==
    ASSUME IInv, CountsAddUp, ~collided, NEW m \in DOMAIN todo, FindSame(m)
    PROVE  CountsAddUp'
<1>1. CASE UNCHANGED <<tables, drifts>>
  BY <1>1, CountsAre DEF Tracked, tables
<1>2. ASSUME NEW n \in DOMAIN todo', MatchOf(m, n) PROVE CountsAddUp'
  <2>1. n \in DOMAIN todo /\ n # m
    BY <1>2 DEF FindSame, Forgotten
  <2>2. todo[m] # todo[n]
    BY <2>1 DEF IInv, Sound, Resolves
  <2> DEFINE x == deviceMap[todo[n]]
             y == deviceMap[todo[m]]
  <2>3. /\ todo[m] \in DOMAIN deviceMap /\ todo[n] \in DOMAIN deviceMap
        /\ MergeAnonimous(x, y)
    BY <1>2 DEF MatchOf
  <2>4. (Kept(x, y) = y /\ Merged(x, y) = x) \/ (Kept(x, y) = x /\ Merged(x, y) = y)
    BY DEF Kept, Merged
  <2>5. PICK ia \in DOMAIN deviceMap, ib \in DOMAIN deviceMap :
           ia # ib /\ Kept(x, y) = deviceMap[ia] /\ Merged(x, y) = deviceMap[ib]
    BY <2>2, <2>3, <2>4
  <2> HIDE DEF x, y
  <2>6. /\ dev[deviceMap[ia]].id = ia /\ dev[deviceMap[ib]].id = ib
        /\ dev[deviceMap[ib]].room \in Places
    BY MapFacts, FieldsAre DEF DeviceOf
  <2>7. /\ deviceMap' = Stored(Forgotten(deviceMap, ib), ia, deviceMap[ia])
        /\ devicecount' = Count(devicecount, dev[deviceMap[ib]].room, -1)
    BY <2>3, <2>5, <2>6 DEF MergeAnonimous, Rekeyed
  <2>8. /\ DOMAIN deviceMap' = DOMAIN deviceMap \ {ib}
        /\ \A j \in DOMAIN deviceMap' : deviceMap'[j] = deviceMap[j]
    BY <2>5, <2>7 DEF Stored, Forgotten
  <2> QED BY <2>6, <2>7, <2>8, LossCounts
<1> QED BY <1>1, <1>2 DEF FindSame

(* A cleaning step removes one device.                                     *)
LEMMA HouseholdCounts ==
    ASSUME IInv, CountsAddUp, NEW i \in DOMAIN deviceMap, Household(i)
    PROVE  CountsAddUp'
<1>1. /\ deviceMap' = Forgotten(deviceMap, i)
      /\ devicecount' = Count(devicecount, dev[deviceMap[i]].room, -1)
  BY DEF Household
<1>2. dev[deviceMap[i]].room \in Places
  BY MapFacts, FieldsAre DEF DeviceOf
<1>3. /\ DOMAIN deviceMap' = DOMAIN deviceMap \ {i}
      /\ \A j \in DOMAIN deviceMap' : deviceMap'[j] = deviceMap[j]
  BY <1>1 DEF Forgotten
<1> QED BY <1>1, <1>2, <1>3, LossCounts

(* So the counts add up after every step, until an identifier collides.    *)
LEMMA StepCounts ==
    IInv /\ (~collided => CountsAddUp) /\ [Next]_vars => (~collided => CountsAddUp)'
<1> SUFFICES ASSUME IInv, ~collided => CountsAddUp, [Next]_vars, ~collided' PROVE CountsAddUp'
  OBVIOUS
<1>1. ~collided
  BY DEF Next, Packet, AnalyzePacket, NewDevice, Expire, FindSame, EndMatch, Household, EndCleaning,
         Tick, vars
<1>2. CountsAddUp
  BY <1>1
<1>3. CASE UNCHANGED <<deviceMap, devicecount>>
  BY <1>2, <1>3, CountsAre DEF Tracked
<1>4. CASE Packet
  <2>1. PICK m \in MACs, sr \in Rooms, t \in (now - MaxDelay) .. now, r \in Places :
           AnalyzePacket(m, sr, r, t)
    BY <1>4 DEF Packet, Places
  <2>2. \/ \E i \in DOMAIN deviceMap : KnownDevice(deviceMap[i], sr, r, t)
        \/ NewDevice(m, r, t)
        \/ UNCHANGED <<deviceMap, devicecount>>
    BY <2>1 DEF AnalyzePacket, Die, tables
  <2> QED BY <1>2, <1>3, <2>2, KnownDeviceCounts, NewDeviceCounts
<1>5. CASE \E m \in DOMAIN todo : FindSame(m)
  BY <1>1, <1>2, <1>5, FindSameCounts
<1>6. CASE \E i \in DOMAIN deviceMap : Household(i)
  BY <1>2, <1>6, HouseholdCounts
<1>7. CASE Expire \/ EndMatch \/ EndCleaning \/ Tick \/ UNCHANGED vars
  BY <1>3, <1>7 DEF Expire, EndMatch, EndCleaning, Tick, vars, tables
<1> QED BY <1>4, <1>5, <1>6, <1>7 DEF Next

-----------------------------------------------------------------------------
(* The analyzer's tables keep their types, for any addresses, rooms,       *)
(* objects and delays (AnalysisEngine.cs, Room.cs).                        *)
THEOREM TypeCorrect == Spec => []TypeOK
<1>1. IInv => TypeOK
  BY DEF IInv
<1> QED BY <1>1, AlwaysHolds, PTL

(* As long as no new device takes an identifier in use, deviceMap and      *)
(* anoniDevices agree, whatever the sightings, merges and removals, and    *)
(* anoniDevices.Add never throws (AnalysisEngine.cs:13,15).                *)
THEOREM MapsAgreeUntilCollision == Spec => []OnlyCollisionsConfuse
<1>1. ASSUME IInv PROVE OnlyCollisionsConfuse
  <2> SUFFICES ASSUME ~collided PROVE AnonymousResolve
    BY DEF OnlyCollisionsConfuse
  <2>1. Resolves
    BY <1>1 DEF IInv, Sound
  <2>2. \A i \in DOMAIN deviceMap : dev[deviceMap[i]].id = i
    BY <1>1, MapFacts DEF DeviceOf
  <2>3. ASSUME NEW o \in Tracked, dev[o].mac \in LocalMACs
        PROVE  dev[o].mac \in DOMAIN anoniDevices /\ anoniDevices[dev[o].mac] = dev[o].id
    <3>1. PICK i \in DOMAIN deviceMap : o = deviceMap[i]
      BY DEF Tracked, Range
    <3> QED BY <2>1, <2>2, <2>3, <3>1 DEF Resolves, DeviceOf
  <2> QED BY <2>1, <2>2, <2>3 DEF AnonymousResolve, Resolves, DeviceOf
<1> QED BY <1>1, AlwaysHolds, PTL

(* As long as no identifier collides, the counts of the rooms add up to    *)
(* the tracked devices, whatever moves, merges and removals; and as long   *)
(* as no merge leaves a room behind, the rooms list and count exactly the  *)
(* devices last located in them (Room.addDevice, removeDevice;             *)
(* AnalysisEngine.cs:106,113).                                             *)
THEOREM RoomsExactUntilDrift == Spec => []OnlyMergesDrift
<1>1. ASSUME IInv, ~collided, drifts = 0 PROVE RoomsExact
  <2>1. Exact /\ members \in [Places -> SUBSET Objects]
    BY <1>1 DEF IInv, TypeOK, Sound
  <2>2. ASSUME NEW r \in Places PROVE members[r] = {o \in Tracked : dev[o].room = r}
    <3>1. \A o \in members[r] : o \in Objects /\ o \in Tracked /\ dev[o].room = r
      BY <2>1, <2>2 DEF Exact, Listed, DeviceOf, Tracked, Range
    <3>2. \A o \in Tracked : dev[o].room = r => o \in members[r]
      BY <1>1, <2>1, MapFacts DEF Exact, Listed, DeviceOf, Tracked, Range
    <3> QED BY <3>1, <3>2
  <2> QED BY <2>1, <2>2 DEF RoomsExact, Exact
<1>2. Init => CountsAddUp
  <2> SUFFICES ASSUME Init PROVE CountsAddUp
    OBVIOUS
  <2>1. /\ devicecount = [r \in Places |-> 0] /\ Tracked = {} /\ IsFiniteSet(DOMAIN devicecount)
    BY InitHolds, CountFacts DEF Init, Tracked, Range
  <2>2. Total(devicecount) = 0
    BY <2>1, SumOfZeros
  <2> QED BY <2>1, <2>2, FS_EmptySet, CountsAre
<1>3. Init => (~collided => CountsAddUp)
  BY <1>2
<1>4. Spec => [](~collided => CountsAddUp)
  BY <1>3, AlwaysHolds, StepCounts, PTL DEF Spec
<1>5. IInv /\ (~collided => CountsAddUp) => OnlyMergesDrift
  BY <1>1 DEF OnlyMergesDrift
<1> QED BY <1>4, <1>5, AlwaysHolds, PTL

(* A cleaning that looks at the head only leaves no device whose last      *)
(* upsert is longer ago than ForgetAfter: the head is the one upserted     *)
(* first, and not silent (householdCleaning).  So a device that a packet   *)
(* placed stays no longer than that, and the delay of the packet, after    *)
(* its date.                                                               *)
THEOREM CleaningsAreComplete == Spec => CleaningIsComplete
<1>1. ASSUME IInv, [Next]_vars
      PROVE  [EndCleaning =>
                 \A o \in Tracked :
                     /\ now - dev[o].touched <= ForgetAfter
                     /\ ~dev[o].merged => now - dev[o].seen <= ForgetAfter + MaxDelay]_vars
  <2> SUFFICES ASSUME EndCleaning, NEW o \in Tracked
               PROVE  /\ now - dev[o].touched <= ForgetAfter
                      /\ ~dev[o].merged => now - dev[o].seen <= ForgetAfter + MaxDelay
    OBVIOUS
  <2>1. PICK i \in DOMAIN deviceMap : o = deviceMap[i]
    BY DEF Tracked, Range
  <2>2. DOMAIN order = DOMAIN deviceMap /\ IsOrder(order)
    BY <1>1, MapFacts DEF IInv, ByAge
  <2>3. PICK h \in DOMAIN order : IsOldest(order, h) /\ \A j \in DOMAIN order \ {h} : h \in order[j]
    <3>1. IsOrder(order) /\ DOMAIN order # {}
      BY <2>1, <2>2
    <3> QED BY <3>1, OneIsOldest
  <2>4. ~(DeviceOf(h).seen + ForgetAfter < now)
    BY <2>2, <2>3 DEF EndCleaning, Silent, DeviceOf
  <2>5. DeviceOf(h).seen <= DeviceOf(h).touched /\ (i = h \/ DeviceOf(h).touched <= DeviceOf(i).touched)
    BY <1>1, <2>1, <2>2, <2>3 DEF IInv, ByAge
  <2>6. /\ DeviceOf(h).seen \in 0 .. MaxTime /\ DeviceOf(h).touched \in 0 .. MaxTime
        /\ DeviceOf(i).touched \in 0 .. MaxTime /\ now \in 0 .. MaxTime
        /\ ForgetAfter \in Nat /\ MaxTime \in Nat /\ MaxDelay \in Nat
        /\ DeviceOf(i).seen \in 0 .. MaxTime
    <3>1. h \in DOMAIN deviceMap /\ DeviceOf(h) \in DeviceType /\ DeviceOf(i) \in DeviceType
      BY <1>1, <2>2, MapFacts
    <3> QED BY <1>1, <3>1, MapFacts, FieldsAre, Numbers
  <2>7. now - DeviceOf(i).touched <= ForgetAfter
    BY <2>4, <2>5, <2>6
  <2>8. ASSUME ~DeviceOf(i).merged PROVE now - DeviceOf(i).seen <= ForgetAfter + MaxDelay
    <3>1. DeviceOf(i).touched <= DeviceOf(i).seen + MaxDelay
      BY <1>1, <2>1, <2>8 DEF IInv, ByAge, Prompt
    <3> QED BY <2>6, <2>7, <3>1
  <2> QED BY <2>1, <2>7, <2>8 DEF DeviceOf
<1> QED BY <1>1, AlwaysHolds, PTL DEF Spec, CleaningIsComplete

=============================================================================
