------------------------- MODULE PacketFusionProofs --------------------------
(***************************************************************************)
(* Proofs about PacketFusion, for any stations, rooms and packets: what is *)
(* emitted is complete, what is complete does not wait, and a pass of the  *)
(* periodic task leaves nothing old behind.                                *)
(***************************************************************************)
EXTENDS PacketFusion, Integers, FiniteSetTheorems, SequenceTheorems, WellFoundedInduction, TLAPS

-----------------------------------------------------------------------------
(* Orders by age (see Recency).                                             *)

(* Of any two keys one is older, and what is older than an older key is    *)
(* older.                                                                  *)
IsOrder(q) ==
    /\ IsFiniteSet(DOMAIN q)
    /\ \A k \in DOMAIN q :
          /\ q[k] \subseteq DOMAIN q \ {k}
          /\ \A j \in DOMAIN q \ {k} : j \in q[k] <=> k \notin q[j]
          /\ \A j \in q[k] : q[j] \subseteq q[k]

(* A key that is touched becomes the youngest.                             *)
LEMMA TouchedIs ==
    ASSUME NEW q, IsOrder(q), NEW k
    PROVE  /\ IsOrder(Touched(q, k))
           /\ DOMAIN Touched(q, k) = DOMAIN q \cup {k}
           /\ Touched(q, k)[k] = DOMAIN q \ {k}
           /\ \A j \in DOMAIN q \ {k} : Touched(q, k)[j] = q[j] \ {k}
<1> DEFINE n == Touched(q, k)
           D == DOMAIN q \cup {k}
<1>1. DOMAIN n = D /\ n[k] = DOMAIN q \ {k} /\ \A j \in DOMAIN q \ {k} : n[j] = q[j] \ {k}
  BY DEF Touched
<1>2. \A o \in DOMAIN q :
         /\ q[o] \subseteq DOMAIN q \ {o}
         /\ \A x \in DOMAIN q \ {o} : x \in q[o] <=> o \notin q[x]
         /\ \A x \in q[o] : q[x] \subseteq q[o]
  BY DEF IsOrder
<1>3. IsFiniteSet(D)
  BY FS_AddElement DEF IsOrder
<1>4. DOMAIN q \subseteq D /\ k \in D /\ \A o \in D \ {k} : o \in DOMAIN q
  OBVIOUS
<1> HIDE DEF n, D
<1>5. ASSUME NEW j \in D
      PROVE  /\ n[j] \subseteq D \ {j}
             /\ \A o \in D \ {j} : o \in n[j] <=> j \notin n[o]
             /\ \A o \in n[j] : n[o] \subseteq n[j]
  <2>1. CASE j = k
    <3>1. \A o \in D \ {k} : k \notin n[o] /\ o \in n[k]
      BY <1>1, <1>4
    <3>2. ASSUME NEW o \in n[k] PROVE n[o] \subseteq n[k]
      BY <1>1, <1>2, <3>2
    <3> QED BY <1>1, <1>4, <2>1, <3>1, <3>2
  <2>2. CASE j # k
    <3>1. j \in DOMAIN q /\ n[j] = q[j] \ {k} /\ q[j] \subseteq DOMAIN q \ {j}
      BY <1>1, <1>2, <1>4, <2>2
    <3>2. ASSUME NEW o \in D \ {j} PROVE o \in n[j] <=> j \notin n[o]
      <4>1. CASE o = k
        BY <1>1, <2>2, <3>1, <4>1
      <4>2. CASE o # k
        BY <1>1, <1>2, <1>4, <2>2, <3>1, <3>2, <4>2
      <4> QED BY <4>1, <4>2
    <3>3. ASSUME NEW o \in n[j] PROVE n[o] \subseteq n[j]
      <4>1. o \in q[j] /\ o # k /\ o \in DOMAIN q
        BY <3>1, <3>3
      <4> QED BY <1>1, <1>2, <3>1, <4>1
    <3> QED BY <1>4, <3>1, <3>2, <3>3
  <2> QED BY <2>1, <2>2
<1>6. IsOrder(n)
  BY <1>1, <1>3, <1>5 DEF IsOrder
<1> QED BY <1>1, <1>6 DEF n, D

(* A key that is dropped leaves the order of the others.                   *)
LEMMA DroppedIs ==
    ASSUME NEW q, IsOrder(q), NEW k
    PROVE  /\ IsOrder(Dropped(q, k))
           /\ DOMAIN Dropped(q, k) = DOMAIN q \ {k}
           /\ \A j \in DOMAIN q \ {k} : Dropped(q, k)[j] = q[j] \ {k}
<1> DEFINE n == Dropped(q, k)
           D == DOMAIN q \ {k}
<1>1. DOMAIN n = D /\ \A j \in D : n[j] = q[j] \ {k}
  BY DEF Dropped
<1>2. IsFiniteSet(D)
  BY FS_RemoveElement DEF IsOrder
<1> HIDE DEF n
<1>3. ASSUME NEW j \in D
      PROVE  /\ n[j] \subseteq D \ {j}
             /\ \A o \in D \ {j} : o \in n[j] <=> j \notin n[o]
             /\ \A o \in n[j] : n[o] \subseteq n[j]
  <2>1. /\ q[j] \subseteq DOMAIN q \ {j}
        /\ \A o \in DOMAIN q \ {j} : o \in q[j] <=> j \notin q[o]
        /\ \A o \in q[j] : q[o] \subseteq q[j]
    BY DEF IsOrder
  <2> QED BY <1>1, <2>1
<1>4. IsOrder(n)
  BY <1>1, <1>2, <1>3 DEF IsOrder
<1> QED BY <1>1, <1>4 DEF n

(* Of a set of naturals one is the first.                                  *)
LEMMA FirstOf == ASSUME NEW S \in SUBSET Nat, S # {} PROVE \E s \in S : \A t \in S : s <= t
<1> DEFINE before == OpToRel(<, Nat)
<1>1. IsWellFoundedOn(before, Nat)
  BY NatLessThanWellFounded
<1>2. before = {ss \in Nat \X Nat : ss[1] < ss[2]}
  BY Zenon DEF OpToRel
<1> HIDE DEF before
<1>3. PICK s \in S : \A t \in S : <<t, s>> \notin before
  BY <1>1, WFMin
<1>4. \A x, y \in Nat : x < y => <<x, y>> \in before
  BY <1>2
<1>5. ASSUME NEW t \in S PROVE s <= t
  <2>1. s \in Nat /\ t \in Nat /\ ~ t < s
    BY <1>3, <1>4
  <2> QED BY <2>1
<1> QED BY <1>5

(* Of the keys of an order, one is the oldest, and older than all others.  *)
LEMMA OneIsOldest ==
    ASSUME NEW q, IsOrder(q), DOMAIN q # {}
    PROVE  \E k \in DOMAIN q : IsOldest(q, k) /\ \A j \in DOMAIN q \ {k} : k \in q[j]
<1> DEFINE N == {Cardinality(q[k]) : k \in DOMAIN q}
<1>1. /\ IsFiniteSet(DOMAIN q)
      /\ \A k \in DOMAIN q :
            /\ q[k] \subseteq DOMAIN q \ {k}
            /\ \A j \in DOMAIN q \ {k} : j \in q[k] <=> k \notin q[j]
            /\ \A j \in q[k] : q[j] \subseteq q[k]
  BY DEF IsOrder
<1>2. \A k \in DOMAIN q : IsFiniteSet(q[k]) /\ Cardinality(q[k]) \in Nat
  BY <1>1, FS_Subset, FS_CardinalityType
<1>3. PICK n \in N : \A m \in N : n <= m
  <2>1. N \in SUBSET Nat /\ N # {}
    BY <1>2
  <2> QED BY <2>1, FirstOf
<1>4. PICK k \in DOMAIN q : n = Cardinality(q[k])
  BY <1>3
<1>5. ASSUME NEW j \in q[k] PROVE FALSE
  <2>1. j \in DOMAIN q /\ q[j] \subseteq q[k] /\ j \notin q[j]
    BY <1>1, <1>4, <1>5
  <2>2. Cardinality(q[j]) <= Cardinality(q[k])
        /\ (Cardinality(q[k]) = Cardinality(q[j]) => q[k] = q[j])
    BY <1>2, <1>4, <2>1, FS_Subset
  <2>3. Cardinality(q[k]) <= Cardinality(q[j])
    BY <1>3, <1>4, <2>1
  <2> QED BY <1>2, <1>4, <1>5, <2>1, <2>2, <2>3
<1>6. IsOldest(q, k)
  BY <1>4, <1>5 DEF IsOldest
<1>7. \A j \in DOMAIN q \ {k} : k \in q[j]
  BY <1>1, <1>4, <1>5
<1> QED BY <1>4, <1>6, <1>7

-----------------------------------------------------------------------------
(* The parts of the inductive invariant.                                   *)

(* The dictionary has the object of a board under its name; a packet lists *)
(* every station once, and stations and receptions are finitely many.      *)
Receivings ==
    /\ IsFiniteSet(associated)
    /\ \A b \in DOMAIN stations : BoardOf(stations[b]) = b
    /\ \A p \in DOMAIN recv :
          /\ Range(recv[p]) \subseteq used
          /\ \A i, j \in DOMAIN recv[p] : recv[p][i] = recv[p][j] => i = j

(* The container orders the waiting packets by their last copy, and a copy *)
(* is never older than its packet.                                         *)
ByAge ==
    /\ IsOrder(order)
    /\ \A p \in DOMAIN order : \A q \in order[p] : idle[p] <= idle[q]
    /\ \A p \in DOMAIN idle : idle[p] <= age[p]

IInv == TypeOK /\ Receivings /\ ByAge /\ NoneCompleteWaits

-----------------------------------------------------------------------------
(* Lemmas about the operators.                                             *)

(* The winner is a room of one of the receptions, and it is mature.        *)
LEMMA WinnerIs ==
    ASSUME NEW rs \in Seq(Stations), IsReady(rs)
    PROVE  \E i \in DOMAIN rs : Winner(rs) = RoomOf(rs[i]) /\ Mature(rs, Winner(rs))
<1>1. Winners(rs) \in SUBSET Nat /\ Winners(rs) # {} /\ Winners(rs) \subseteq DOMAIN rs
  BY DEF IsReady, Winners, Keys
<1> DEFINE i == CHOOSE x \in Winners(rs) : \A j \in Winners(rs) : x <= j
<1>2. i \in Winners(rs)
  BY <1>1, FirstOf
<1>3. Winner(rs) = RoomOf(rs[i])
  BY DEF Winner
<1> HIDE DEF i
<1> QED BY <1>1, <1>2, <1>3 DEF Winners, Keys

Distinct(rs) == \A i, j \in DOMAIN rs : rs[i] = rs[j] => i = j

(* Where every station is listed once, receptions count stations.          *)
LEMMA CountIs ==
    ASSUME NEW rs \in Seq(Stations), Distinct(rs), NEW r
    PROVE  /\ IsFiniteSet({rs[i] : i \in InRoom(rs, r)})
           /\ Cardinality({rs[i] : i \in InRoom(rs, r)}) = Cardinality(InRoom(rs, r))
<1> DEFINE S == InRoom(rs, r)
           T == {rs[i] : i \in S}
           f == [i \in S |-> rs[i]]
<1>1. S \subseteq 1 .. Len(rs) /\ IsFiniteSet(1 .. Len(rs))
  BY FS_Interval DEF InRoom
<1>2. IsFiniteSet(S)
  BY <1>1, FS_Subset
<1>3. \A i, j \in S : rs[i] = rs[j] => i = j
  BY DEF Distinct, InRoom
<1> HIDE DEF S
<1>4. f \in Bijection(S, T)
  <2>1. f \in [S -> T] /\ \A i \in S : f[i] = rs[i]
    OBVIOUS
  <2>2. \A t \in T : \E i \in S : f[i] = t
    OBVIOUS
  <2>3. \A i, j \in S : f[i] = f[j] => i = j
    BY <1>3, <2>1
  <2> HIDE DEF f, T
  <2> QED BY <2>1, <2>2, <2>3 DEF Bijection, Injection, Surjection, IsInjective
<1>5. ExistsBijection(S, T)
  BY <1>4 DEF ExistsBijection
<1> QED BY <1>2, <1>5, FS_Bijection DEF S

(* Where a room has no twin, receptions of its name are its receptions.    *)
LEMMA TwinlessIs ==
    ASSUME NEW rs \in Seq(Stations), Range(rs) \subseteq used, NEW r, Twinless(r)
    PROVE  Named(rs, r) = InRoom(rs, r)
BY DEF Twinless, Named, InRoom, Range

(* packetReducer keeps a list of distinct stations that begins with the    *)
(* old one and has the new station in it.                                  *)
LEMMA ReducedIs ==
    ASSUME IInv, NEW p \in Packets, NEW s \in used
    PROVE  /\ Reduced(p, s) \in Seq(Stations) /\ Distinct(Reduced(p, s))
           /\ Range(Reduced(p, s)) \subseteq used /\ s \in Range(Reduced(p, s))
<1>0. s \in Stations
  BY DEF IInv, TypeOK
<1>1. CASE p \notin DOMAIN recv
  <2>1. Reduced(p, s) = <<s>>
    BY <1>1 DEF Reduced
  <2> QED BY <1>0, <2>1 DEF Distinct, Range
<1>2. CASE p \in DOMAIN recv /\ s \in Range(recv[p])
  <2>1. Reduced(p, s) = recv[p]
    BY <1>2 DEF Reduced
  <2> QED BY <1>2, <2>1 DEF IInv, TypeOK, Receivings, Distinct
<1>3. CASE p \in DOMAIN recv /\ s \notin Range(recv[p])
  <2> DEFINE old == recv[p]
             new == Append(old, s)
  <2>1. Reduced(p, s) = new
    BY <1>3 DEF Reduced
  <2>2. old \in Seq(Stations) /\ Range(old) \subseteq used /\ Distinct(old) /\ s \notin Range(old)
    BY <1>3 DEF IInv, TypeOK, Receivings, Distinct
  <2> HIDE DEF old
  <2>3. /\ new \in Seq(Stations) /\ Len(old) \in Nat
        /\ DOMAIN new = 1 .. Len(old) + 1 /\ DOMAIN old = 1 .. Len(old)
        /\ new[Len(old) + 1] = s /\ \A i \in 1 .. Len(old) : new[i] = old[i]
    BY <1>0, <2>2
  <2> HIDE DEF new
  <2>4. \A i \in DOMAIN new : i \in DOMAIN old \/ i = Len(old) + 1
    BY <2>3
  <2>5. Distinct(new)
    BY <2>2, <2>3, <2>4 DEF Distinct, Range
  <2>6. Range(new) \subseteq used /\ s \in Range(new)
    BY <2>2, <2>3, <2>4 DEF Range
  <2> QED BY <2>1, <2>3, <2>5, <2>6
<1> QED BY <1>1, <1>2, <1>3

-----------------------------------------------------------------------------
(* Steps that leave the waiting packets alone.                             *)

(* Files begin and end, the analyzer takes a packet, passes begin and end. *)
LEMMA Elsewhere ==
    ASSUME IInv, UNCHANGED <<boards, waiting>>, uploading' \subseteq used,
           analysis' \in Seq([packet : Packets, recv : SUBSET Stations, count : Nat]),
           timer' \in {"sleeps", "checks", "pops", "blocked"}
    PROVE  IInv'
<1>1. /\ stations' = stations /\ associated' = associated /\ used' = used
      /\ recv' = recv /\ age' = age /\ order' = order /\ idle' = idle
  BY DEF boards, waiting
<1>2. TypeOK'
  BY <1>1 DEF IInv, TypeOK
<1>3. Receivings' /\ ByAge'
  BY <1>1 DEF IInv, Receivings, ByAge
<1>4. NoneCompleteWaits'
  BY <1>1 DEF IInv, NoneCompleteWaits, StationsOf, Twinless
<1> QED BY <1>2, <1>3, <1>4 DEF IInv

(* A new station has received nothing yet: its room is not complete.       *)
LEMMA AddStationStep == ASSUME IInv, NEW s \in Stations, AddStation(s) PROVE IInv'
<1>1. /\ associated' = associated \cup {s} /\ used' = used \cup {s} /\ s \notin used
      /\ recv' = recv /\ age' = age /\ order' = order /\ idle' = idle
      /\ uploading' = uploading /\ analysis' = analysis /\ timer' = timer
      /\ DOMAIN stations' = DOMAIN stations \cup {BoardOf(s)}
      /\ \A b \in DOMAIN stations' :
            stations'[b] = IF b = BoardOf(s) THEN s ELSE stations[b]
  BY DEF AddStation, waiting, Stored
<1>2. TypeOK'
  <2>1. Range(stations') \subseteq associated \cup {s}
    BY <1>1 DEF IInv, TypeOK, Range
  <2> QED BY <1>1, <2>1 DEF IInv, TypeOK
<1>3. Receivings'
  <2>1. IsFiniteSet(associated \cup {s})
    BY FS_AddElement DEF IInv, Receivings
  <2> QED BY <1>1, <2>1 DEF IInv, Receivings
<1>4. ByAge'
  BY <1>1 DEF IInv, ByAge
<1>5. NoneCompleteWaits'
  <2> SUFFICES ASSUME used' = associated', NEW p \in DOMAIN recv, NEW t \in associated',
                      Twinless(RoomOf(t))'
               PROVE  ~(StationsOf(RoomOf(t))' \subseteq Range(recv[p]))
    BY <1>1 DEF NoneCompleteWaits
  <2>0. Twinless(RoomOf(t))
    BY <1>1 DEF Twinless
  <2>1. used = associated /\ associated \subseteq used
    BY <1>1 DEF IInv, TypeOK
  <2>2. CASE t = s
    <3>1. s \in StationsOf(RoomOf(t))' /\ s \notin Range(recv[p])
      BY <1>1, <2>2 DEF StationsOf, IInv, Receivings
    <3> QED BY <3>1
  <2>3. CASE t # s
    <3>1. ~(StationsOf(RoomOf(t)) \subseteq Range(recv[p]))
      BY <1>1, <2>0, <2>1, <2>3 DEF IInv, NoneCompleteWaits
    <3>2. StationsOf(RoomOf(t)) \subseteq StationsOf(RoomOf(t))'
      BY <1>1 DEF StationsOf
    <3> QED BY <3>1, <3>2
  <2> QED BY <2>2, <2>3
<1> QED BY <1>2, <1>3, <1>4, <1>5 DEF IInv

(* Once a station has left, nothing more is said.                          *)
LEMMA RemoveStationStep == ASSUME IInv, NEW b \in DOMAIN stations, RemoveStation(b) PROVE IInv'
<1> DEFINE s == stations[b]
<1>0. s \in associated
  BY DEF IInv, TypeOK, Range
<1>1. /\ associated' = associated \ {s} /\ used' = used
      /\ DOMAIN stations' = DOMAIN stations \ {b}
      /\ \A o \in DOMAIN stations \ {b} : stations'[o] = stations[o]
      /\ recv' = recv /\ age' = age /\ order' = order /\ idle' = idle
      /\ uploading' = uploading /\ analysis' = analysis /\ timer' = timer
  BY DEF RemoveStation, waiting, Forgotten
<1>2. TypeOK'
  <2>1. \A o \in DOMAIN stations \ {b} : stations[o] \in associated /\ stations[o] # s
    BY DEF IInv, TypeOK, Receivings, Range
  <2>2. Range(stations') \subseteq associated \ {s}
    BY <1>1, <2>1 DEF Range
  <2> QED BY <1>1, <2>2 DEF IInv, TypeOK
<1>3. Receivings'
  <2>1. IsFiniteSet(associated \ {s})
    BY FS_RemoveElement DEF IInv, Receivings
  <2> QED BY <1>1, <2>1 DEF IInv, Receivings
<1>4. ByAge'
  BY <1>1 DEF IInv, ByAge
<1>5. used' # associated'
  BY <1>0, <1>1 DEF IInv, TypeOK
<1> QED BY <1>2, <1>3, <1>4, <1>5 DEF IInv, NoneCompleteWaits

(* A file begins, for a station that is there, or ends.                    *)
LEMMA FileStep == ASSUME IInv, NEW s \in Stations, FileStart(s) \/ FileEnd(s) PROVE IInv'
<1>1. uploading' \subseteq used
  BY DEF IInv, TypeOK, FileStart, FileEnd
<1>2. analysis' \in Seq([packet : Packets, recv : SUBSET Stations, count : Nat])
      /\ timer' \in {"sleeps", "checks", "pops", "blocked"} /\ UNCHANGED <<boards, waiting>>
  BY DEF IInv, TypeOK, FileStart, FileEnd
<1> QED BY <1>1, <1>2, Elsewhere

(* The analyzer takes the first packet of its queue.                       *)
LEMMA TakeStep == ASSUME IInv, Take PROVE IInv'
<1>1. analysis' \in Seq([packet : Packets, recv : SUBSET Stations, count : Nat])
      /\ Len(analysis') <= Len(analysis)
  <2>1. analysis \in Seq([packet : Packets, recv : SUBSET Stations, count : Nat])
        /\ analysis # <<>> /\ analysis' = Tail(analysis)
    BY DEF IInv, TypeOK, Take
  <2> QED BY <2>1, HeadTailProperties, LenProperties
<1>2. /\ uploading' \subseteq used /\ timer' \in {"sleeps", "checks", "pops", "blocked"}
      /\ UNCHANGED <<boards, waiting>>
  BY DEF IInv, TypeOK, Take
<1> QED BY <1>1, <1>2, Elsewhere

(* The periodic task begins, checks the boards, or ends its pass.          *)
LEMMA TimerStep == ASSUME IInv, Wake \/ Check \/ EndPass PROVE IInv'
<1>1. /\ uploading' \subseteq used /\ timer' \in {"sleeps", "checks", "pops", "blocked"}
      /\ analysis' \in Seq([packet : Packets, recv : SUBSET Stations, count : Nat])
      /\ UNCHANGED <<boards, waiting>>
  BY DEF IInv, TypeOK, Wake, Check, CheckReturns, CheckBlocks, EndPass
<1> QED BY <1>1, Elsewhere

-----------------------------------------------------------------------------
(* Steps of the waiting packets.                                           *)

(* A packet leaves the container: the others keep their order.             *)
LEMMA Leaves ==
    ASSUME IInv, UNCHANGED <<boards, uploading, timer>>, NEW p,
           recv' = Forgotten(recv, p), age' = Forgotten(age, p), order' = Left(p),
           idle' = Forgotten(idle, p),
           analysis' \in Seq([packet : Packets, recv : SUBSET Stations, count : Nat])
    PROVE  IInv'
<1>0. /\ stations' = stations /\ associated' = associated /\ used' = used
      /\ uploading' = uploading /\ timer' = timer
  BY DEF boards
<1> DEFINE D == DOMAIN recv \ {p}
<1>1. /\ DOMAIN recv' = D /\ DOMAIN age' = D /\ DOMAIN order' = D /\ DOMAIN idle' = D
      /\ \A q \in D : /\ recv'[q] = recv[q] /\ age'[q] = age[q] /\ idle'[q] = idle[q]
                      /\ order'[q] = order[q] \ {p}
  BY DEF Forgotten, Left, Dropped, IInv, TypeOK
<1>2. /\ DOMAIN recv = DOMAIN order /\ DOMAIN idle = DOMAIN recv
      /\ D \subseteq DOMAIN recv /\ p \notin D /\ \A q \in DOMAIN recv : q = p \/ q \in D
  BY DEF IInv, TypeOK
<1>3. TypeOK'
  BY <1>0, <1>1 DEF IInv, TypeOK
<1>4. Receivings'
  BY <1>0, <1>1 DEF IInv, Receivings
<1>5. ByAge'
  <2>1. IsOrder(order')
    <3>1. IsOrder(order)
      BY DEF IInv, ByAge
    <3>2. order' = Dropped(order, p)
      BY DEF Left
    <3>3. IsOrder(Dropped(order, p))
      BY <3>1, DroppedIs
    <3> QED BY <3>2, <3>3
  <2> HIDE DEF D
  <2>2. ASSUME NEW q \in D, NEW o \in order'[q] PROVE idle'[q] <= idle'[o]
    <3>1. order[q] \subseteq DOMAIN recv /\ \A x \in order[q] : idle[q] <= idle[x]
      BY <1>2 DEF IInv, ByAge, IsOrder
    <3>2. o \in order[q] /\ o # p /\ o \in D
      BY <1>1, <1>2, <2>2, <3>1
    <3> QED BY <1>1, <3>1, <3>2
  <2>3. \A q \in D : idle'[q] <= age'[q]
    BY <1>1, <1>2 DEF IInv, ByAge
  <2> QED BY <1>1, <2>1, <2>2, <2>3 DEF ByAge
<1>6. NoneCompleteWaits'
  BY <1>0, <1>1 DEF IInv, NoneCompleteWaits, StationsOf, Twinless
<1> QED BY <1>3, <1>4, <1>5, <1>6 DEF IInv

(* The periodic task drops a packet.                                       *)
LEMMA PopOldStep == ASSUME IInv, NEW p, PopOld(p) PROVE IInv'
<1>1. analysis' \in Seq([packet : Packets, recv : SUBSET Stations, count : Nat])
  BY DEF PopOld, IInv, TypeOK
<1> QED BY <1>1, Leaves DEF PopOld

(* Time passes for all alike.                                              *)
LEMMA TickStep == ASSUME IInv, Tick PROVE IInv'
<1>0. Old \in Nat
  BY FusionAssumption
<1>1. /\ DOMAIN age' = DOMAIN recv /\ DOMAIN idle' = DOMAIN recv
      /\ \A p \in DOMAIN recv :
            /\ age'[p] = IF age[p] > Old THEN age[p] ELSE age[p] + 1
            /\ idle'[p] = IF idle[p] > Old THEN idle[p] ELSE idle[p] + 1
      /\ recv' = recv /\ order' = order /\ associated' = associated /\ used' = used
      /\ stations' = stations /\ uploading' = uploading /\ analysis' = analysis
      /\ timer' = timer
  BY DEF Tick, Older, IInv, TypeOK, boards
<1>2. /\ DOMAIN order = DOMAIN recv
      /\ \A p \in DOMAIN recv : age[p] \in 0 .. Old + 1 /\ idle[p] \in 0 .. Old + 1
  BY DEF IInv, TypeOK
<1>3. \A p \in DOMAIN recv : age'[p] \in 0 .. Old + 1 /\ idle'[p] \in 0 .. Old + 1
  BY <1>0, <1>1, <1>2
<1>4. TypeOK'
  BY <1>1, <1>3 DEF IInv, TypeOK
<1>5. Receivings' /\ NoneCompleteWaits'
  BY <1>1 DEF IInv, Receivings, NoneCompleteWaits, StationsOf, Twinless
<1>6. \A p, q \in DOMAIN recv : idle[p] <= idle[q] => idle'[p] <= idle'[q]
  BY <1>0, <1>1, <1>2
<1>7. \A p \in DOMAIN recv : idle'[p] <= age'[p]
  <2>1. \A p \in DOMAIN recv : idle[p] <= age[p]
    BY <1>2 DEF IInv, TypeOK, ByAge
  <2> QED BY <1>0, <1>1, <1>2, <2>1
<1>8. ByAge'
  <2>1. /\ IsOrder(order)
        /\ \A p \in DOMAIN order : \A q \in order[p] : idle'[p] <= idle'[q]
    BY <1>2, <1>6 DEF IInv, ByAge, IsOrder
  <2> QED BY <1>1, <1>2, <1>7, <2>1 DEF ByAge
<1> QED BY <1>4, <1>5, <1>8 DEF IInv

(* A packet stays, as the youngest one: no room of its stations is mature. *)
LEMMA Stays ==
    ASSUME IInv, NEW s \in used, NEW p \in Packets, NEW a \in 0 .. Old + 1,
           ~IsReady(Reduced(p, s)),
           recv' = Stored(recv, p, Reduced(p, s)),
           age' = IF p \in DOMAIN age THEN age ELSE Stored(age, p, a),
           order' = Upserted(p), idle' = Stored(idle, p, 0),
           UNCHANGED <<boards, uploading, analysis, timer>>
    PROVE  IInv'
<1>0. /\ stations' = stations /\ associated' = associated /\ used' = used
      /\ uploading' = uploading /\ timer' = timer /\ analysis' = analysis
  BY DEF boards
<1> DEFINE rs == Reduced(p, s)
           D == DOMAIN recv \cup {p}
<1>1. rs \in Seq(Stations) /\ Distinct(rs) /\ Range(rs) \subseteq used /\ ~IsReady(rs)
  BY ReducedIs
<1> HIDE DEF rs
<1>2. /\ DOMAIN recv = DOMAIN order /\ DOMAIN idle = DOMAIN recv /\ DOMAIN age = DOMAIN recv
      /\ \A q \in DOMAIN recv : age[q] \in 0 .. Old + 1 /\ idle[q] \in 0 .. Old + 1
      /\ Old \in Nat
  BY FusionAssumption DEF IInv, TypeOK
<1>3. /\ DOMAIN recv' = D /\ DOMAIN age' = D /\ DOMAIN order' = D /\ DOMAIN idle' = D
      /\ recv'[p] = rs /\ idle'[p] = 0 /\ age'[p] \in 0 .. Old + 1
      /\ order'[p] = DOMAIN recv \ {p}
      /\ \A q \in D \ {p} : /\ recv'[q] = recv[q] /\ age'[q] = age[q] /\ idle'[q] = idle[q]
                            /\ order'[q] = order[q] \ {p}
  <2>1. DOMAIN recv' = D /\ recv'[p] = rs /\ \A q \in D \ {p} : recv'[q] = recv[q]
    BY DEF Stored, rs
  <2>2. DOMAIN idle' = D /\ idle'[p] = 0 /\ \A q \in D \ {p} : idle'[q] = idle[q]
    BY <1>2 DEF Stored
  <2>3. /\ DOMAIN order' = D /\ order'[p] = DOMAIN recv \ {p}
        /\ \A q \in D \ {p} : order'[q] = order[q] \ {p}
    BY <1>2 DEF Upserted, Touched
  <2>4. DOMAIN age' = D /\ age'[p] \in 0 .. Old + 1 /\ \A q \in D \ {p} : age'[q] = age[q]
    BY <1>2 DEF Stored
  <2> QED BY <2>1, <2>2, <2>3, <2>4
<1>4. \A q \in D : q = p \/ (q \in DOMAIN recv /\ q # p)
  OBVIOUS
<1>5. TypeOK'
  <2>1. \A q \in D : /\ recv'[q] \in Seq(Stations) /\ age'[q] \in 0 .. Old + 1
                     /\ idle'[q] \in 0 .. Old + 1
    <3>1. \A q \in DOMAIN recv : recv[q] \in Seq(Stations)
      BY DEF IInv, TypeOK
    <3> QED BY <1>1, <1>2, <1>3, <1>4, <3>1
  <2>2. D \subseteq Packets
    BY DEF IInv, TypeOK
  <2> QED BY <1>0, <1>3, <2>1, <2>2 DEF IInv, TypeOK
<1>6. Receivings'
  <2>1. \A q \in D : /\ Range(recv'[q]) \subseteq used
                     /\ \A i, j \in DOMAIN recv'[q] : recv'[q][i] = recv'[q][j] => i = j
    BY <1>1, <1>3, <1>4 DEF IInv, Receivings, Distinct
  <2> QED BY <1>0, <1>3, <2>1 DEF IInv, Receivings
<1>7. ByAge'
  <2>1. IsOrder(order')
    <3>1. IsOrder(order)
      BY DEF IInv, ByAge
    <3>2. order' = Touched(order, p)
      BY DEF Upserted
    <3>3. IsOrder(Touched(order, p))
      BY <3>1, TouchedIs
    <3> QED BY <3>2, <3>3
  <2>2. \A q \in DOMAIN recv : order[q] \subseteq DOMAIN recv \ {q}
    BY <1>2 DEF IInv, ByAge, IsOrder
  <2>3. ASSUME NEW q \in D, NEW o \in order'[q] PROVE idle'[q] <= idle'[o]
    <3>1. CASE q = p
      <4>1. o \in DOMAIN recv \ {p}
        BY <1>3, <2>3, <3>1
      <4>2. idle[o] \in 0 .. Old + 1 /\ idle'[o] = idle[o]
        BY <1>2, <1>3, <4>1
      <4> QED BY <1>2, <1>3, <3>1, <4>2
    <3>2. CASE q # p
      <4>1. q \in DOMAIN recv /\ o \in order[q] /\ o # p /\ o \in DOMAIN recv
        BY <1>3, <2>2, <2>3, <3>2
      <4> QED BY <1>2, <1>3, <3>2, <4>1 DEF IInv, ByAge
    <3> QED BY <3>1, <3>2
  <2>4. \A q \in D : idle'[q] <= age'[q]
    <3>1. \A q \in DOMAIN recv : idle[q] <= age[q]
      BY <1>2 DEF IInv, ByAge
    <3> QED BY <1>2, <1>3, <1>4, <3>1
  <2> QED BY <1>3, <2>1, <2>3, <2>4 DEF ByAge
<1>8. NoneCompleteWaits'
  <2> SUFFICES ASSUME used = associated, NEW q \in D, NEW t \in associated,
                      Twinless(RoomOf(t)), StationsOf(RoomOf(t)) \subseteq Range(recv'[q])
               PROVE  FALSE
    BY <1>0, <1>3 DEF NoneCompleteWaits, StationsOf, Twinless
  <2>1. CASE q # p
    BY <1>3, <2>1 DEF IInv, NoneCompleteWaits
  <2>2. CASE q = p
    <3> DEFINE r == RoomOf(t)
               T == {rs[i] : i \in InRoom(rs, r)}
    <3>1. t \in StationsOf(r) /\ StationsOf(r) \subseteq Range(rs)
      BY <1>3, <2>2 DEF StationsOf
    <3>2. T = StationsOf(r)
      BY <1>1, <3>1 DEF StationsOf, InRoom, Range
    <3>3. Cardinality(T) = Cardinality(InRoom(rs, r))
      BY <1>1, CountIs
    <3>4. Named(rs, r) = InRoom(rs, r)
      BY <1>1, TwinlessIs
    <3>5. Mature(rs, r)
      BY <3>2, <3>3, <3>4 DEF Mature, stationcount
    <3>6. PICK i \in Named(rs, r) : \A j \in Named(rs, r) : i <= j
      <4>1. Named(rs, r) \in SUBSET Nat
        BY <1>1 DEF Named
      <4>2. Named(rs, r) # {}
        BY <3>1 DEF Range, Named
      <4> QED BY <4>1, <4>2, FirstOf
    <3>7. i \in DOMAIN rs /\ RoomOf(rs[i]) = r
      BY <3>4, <3>6 DEF InRoom
    <3>8. i \in Keys(rs)
      BY <3>6, <3>7 DEF Keys
    <3> QED BY <1>1, <3>5, <3>7, <3>8 DEF IsReady, Winners
  <2> QED BY <2>1, <2>2
<1> QED BY <1>5, <1>6, <1>7, <1>8 DEF IInv

(* What an emission holds: distinct stations of one room, as many as the   *)
(* room has, if no other room has its name.                                *)
IsEmission(e) ==
    \E r : /\ e.recv # {} /\ \A s \in e.recv : RoomOf(s) = r
           /\ IsFiniteSet(e.recv) /\ Cardinality(e.recv) = e.count
           /\ Twinless(r) => e.count = stationcount(r)

(* An emission is that: the winning room is mature, and lists its stations *)
(* once.                                                                   *)
LEMMA EmissionIs ==
    ASSUME IInv, NEW p \in Packets, NEW s \in used, IsReady(Reduced(p, s))
    PROVE  /\ Emission(p, Reduced(p, s)) \in [packet : Packets, recv : SUBSET Stations, count : Nat]
           /\ IsEmission(Emission(p, Reduced(p, s)))
<1> DEFINE rs == Reduced(p, s)
           r == Winner(rs)
           T == {rs[i] : i \in InRoom(rs, r)}
           e == Emission(p, rs)
<1>1. rs \in Seq(Stations) /\ Distinct(rs) /\ IsReady(rs) /\ Range(rs) \subseteq used
  BY ReducedIs
<1> HIDE DEF rs
<1>2. PICK i \in DOMAIN rs : r = RoomOf(rs[i]) /\ Mature(rs, r)
  BY <1>1, WinnerIs
<1>3. e = [packet |-> p, recv |-> T, count |-> Cardinality(InRoom(rs, r))]
  BY DEF Emission
<1>4. IsFiniteSet(T) /\ Cardinality(T) = Cardinality(InRoom(rs, r))
  BY <1>1, CountIs
<1>5. T # {} /\ T \subseteq Stations /\ \A t \in T : RoomOf(t) = r
  BY <1>1, <1>2 DEF InRoom
<1>6. Cardinality(T) \in Nat
  BY <1>4, FS_CardinalityType
<1>7. Twinless(r) => Cardinality(InRoom(rs, r)) = stationcount(r)
  BY <1>1, <1>2, TwinlessIs DEF Mature
<1> HIDE DEF r, T, e
<1>8. e \in [packet : Packets, recv : SUBSET Stations, count : Nat]
  BY <1>3, <1>4, <1>5, <1>6
<1>9. e.recv = T /\ e.count = Cardinality(T)
  BY <1>3, <1>4
<1>10. IsEmission(e)
  BY <1>4, <1>5, <1>7, <1>9 DEF IsEmission
<1> QED BY <1>8, <1>10 DEF e, rs

(* A line is parsed: its packet is emitted, or waits.                      *)
LEMMA ParseLineStep ==
    ASSUME IInv, NEW s \in Stations, NEW p \in Packets, NEW a \in 0 .. Old + 1, ParseLine(s, p, a)
    PROVE  IInv'
<1>1. s \in used
  BY DEF ParseLine, IInv, TypeOK
<1>2. CASE IsReady(Reduced(p, s))
  <2>1. analysis' \in Seq([packet : Packets, recv : SUBSET Stations, count : Nat])
    <3>1. /\ analysis \in Seq([packet : Packets, recv : SUBSET Stations, count : Nat])
          /\ analysis' = Append(analysis, Emission(p, Reduced(p, s)))
      BY <1>2 DEF ParseLine, IInv, TypeOK
    <3> QED BY <1>1, <1>2, <3>1, EmissionIs, AppendProperties
  <2> QED BY <1>2, <2>1, Leaves DEF ParseLine
<1>3. CASE ~IsReady(Reduced(p, s))
  BY <1>1, <1>3, Stays DEF ParseLine
<1> QED BY <1>2, <1>3

-----------------------------------------------------------------------------
(* The invariant.                                                          *)

(* It holds when nothing has arrived.                                      *)
LEMMA InitHolds == Init => IInv
<1> SUFFICES ASSUME Init PROVE IInv
  OBVIOUS
<1>1. /\ DOMAIN recv = {} /\ DOMAIN age = {} /\ DOMAIN order = {} /\ DOMAIN idle = {}
      /\ DOMAIN stations = {} /\ Range(stations) = {}
      /\ associated = {} /\ used = {} /\ uploading = {} /\ analysis = <<>> /\ timer = "sleeps"
  BY DEF Init, Range
<1>2. IsFiniteSet({}) /\ IsOrder(order)
  BY <1>1, FS_EmptySet DEF IsOrder
<1>3. TypeOK
  BY <1>1 DEF TypeOK
<1> QED BY <1>1, <1>2, <1>3 DEF IInv, Receivings, ByAge, NoneCompleteWaits

(* Every step keeps it.                                                    *)
LEMMA StepHolds == IInv /\ [Next]_vars => IInv'
<1> SUFFICES ASSUME IInv, [Next]_vars PROVE IInv'
  OBVIOUS
<1>1. ASSUME NEW s \in Stations, \/ AddStation(s)
                                 \/ FileStart(s) \/ FileEnd(s)
                                 \/ \E p \in Packets, a \in 0 .. Old + 1 : ParseLine(s, p, a)
      PROVE  IInv'
  BY <1>1, AddStationStep, FileStep, ParseLineStep
<1>2. CASE Take \/ Wake \/ Check \/ EndPass
  BY <1>2, TakeStep, TimerStep
<1>3. CASE PopAnOld
  BY <1>3, PopOldStep DEF PopAnOld
<1>4. CASE Tick
  BY <1>4, TickStep
<1>5. CASE UNCHANGED vars
  <2>1. /\ UNCHANGED <<boards, waiting>> /\ uploading' = uploading
        /\ analysis' = analysis /\ timer' = timer
    BY <1>5 DEF vars, boards, waiting
  <2> QED BY <2>1, Elsewhere DEF IInv, TypeOK
<1>6. ASSUME NEW b \in DOMAIN stations, RemoveStation(b) PROVE IInv'
  BY <1>6, RemoveStationStep
<1> QED BY <1>1, <1>2, <1>3, <1>4, <1>5, <1>6 DEF Next

(* So it always holds.                                                     *)
LEMMA AlwaysHolds == Spec => []IInv
  BY InitHolds, StepHolds, PTL DEF Spec

(* Lists, ages and the queue of the analyzer keep their types.             *)
THEOREM TypeCorrect == Spec => []TypeOK
<1>1. IInv => TypeOK
  BY DEF IInv
<1> QED BY <1>1, AlwaysHolds, PTL

(* While no station has left, no waiting packet has been received by a     *)
(* whole room: the last copy takes it out.                                 *)
THEOREM CompleteNeverWaits == Spec => []NoneCompleteWaits
<1>1. IInv => NoneCompleteWaits
  BY DEF IInv
<1> QED BY <1>1, AlwaysHolds, PTL

(* Only a parsed line makes the queue longer, by the emission of its packet. *)
LEMMA EmitsIs ==
    ASSUME IInv, [Next]_vars, Emits
    PROVE  IsEmission(Emitted)
<1>1. analysis \in Seq([packet : Packets, recv : SUBSET Stations, count : Nat])
      /\ Len(analysis) \in Nat
  BY LenProperties DEF IInv, TypeOK
<1>2. CASE \E s \in Stations, p \in Packets, a \in 0 .. Old + 1 : ParseLine(s, p, a)
  <2>1. PICK s \in Stations, p \in Packets, a \in 0 .. Old + 1 : ParseLine(s, p, a)
    BY <1>2
  <2>2. s \in used
    BY <2>1 DEF ParseLine, IInv, TypeOK
  <2>3. IsReady(Reduced(p, s))
    BY <2>1 DEF ParseLine, Emits
  <2>4. analysis' = Append(analysis, Emission(p, Reduced(p, s)))
    BY <2>1, <2>3 DEF ParseLine
  <2>5. Emitted = Emission(p, Reduced(p, s))
    BY <1>1, <2>2, <2>3, <2>4, EmissionIs, AppendProperties DEF Emitted
  <2> QED BY <2>2, <2>3, <2>5, EmissionIs
<1>3. CASE Take
  <2>1. Len(analysis') = Len(analysis) - 1
    BY <1>1, <1>3, HeadTailProperties DEF Take
  <2> QED BY <1>1, <2>1 DEF Emits
<1>4. CASE analysis' = analysis
  BY <1>4 DEF Emits
<1>5. \/ \E s \in Stations, p \in Packets, a \in 0 .. Old + 1 : ParseLine(s, p, a)
      \/ Take
      \/ analysis' = analysis
  BY DEF Next, AddStation, RemoveStation, FileStart, FileEnd, Wake, Check, CheckReturns,
         CheckBlocks, PopAnOld, PopOld, EndPass, Tick, vars
<1> QED BY <1>2, <1>3, <1>4, <1>5

(* A packet that matures has been received by all stations of one room,    *)
(* each once, as far as none of them has left meanwhile and no other room   *)
(* has the name of theirs.                                                 *)
THEOREM EmissionsAreComplete == Spec => EmissionIsComplete
<1>1. ASSUME IInv, [Next]_vars
      PROVE  [Emits =>
                LET rs == Emitted.recv
                IN  /\ rs # {}
                    /\ \A s, t \in rs : RoomOf(s) = RoomOf(t)
                    /\ Cardinality(rs) = Emitted.count
                    /\ \A s \in rs :
                           rs \subseteq associated /\ Twinless(RoomOf(s)) =>
                               StationsOf(RoomOf(s)) \subseteq rs]_vars
  <2> SUFFICES ASSUME Emits
               PROVE  /\ Emitted.recv # {}
                      /\ \A s, t \in Emitted.recv : RoomOf(s) = RoomOf(t)
                      /\ Cardinality(Emitted.recv) = Emitted.count
                      /\ \A s \in Emitted.recv :
                            Emitted.recv \subseteq associated /\ Twinless(RoomOf(s)) =>
                                StationsOf(RoomOf(s)) \subseteq Emitted.recv
    OBVIOUS
  <2> DEFINE T == Emitted.recv
  <2>1. PICK r : /\ T # {} /\ \A s \in T : RoomOf(s) = r
                 /\ IsFiniteSet(T) /\ Cardinality(T) = Emitted.count
                 /\ Twinless(r) => Emitted.count = stationcount(r)
    BY <1>1, EmitsIs DEF IsEmission
  <2> HIDE DEF T
  <2>2. ASSUME T \subseteq associated, Twinless(r) PROVE StationsOf(r) = T
    <3>1. T \in SUBSET StationsOf(r)
      BY <2>1, <2>2 DEF StationsOf
    <3>2. IsFiniteSet(StationsOf(r))
      <4>1. IsFiniteSet(associated) /\ StationsOf(r) \in SUBSET associated
        BY <1>1 DEF IInv, Receivings, StationsOf
      <4> QED BY <4>1, FS_Subset
    <3>3. Cardinality(StationsOf(r)) = Cardinality(T)
      BY <2>1, <2>2 DEF stationcount
    <3> QED BY <3>1, <3>2, <3>3, FS_Subset
  <2> QED BY <2>1, <2>2 DEF T
<1> QED BY <1>1, AlwaysHolds, PTL DEF Spec, EmissionIsComplete

(* After a pass every waiting packet has had a copy within the time: the   *)
(* one updated first is not old, and the others were updated later.        *)
THEOREM PassesAreComplete == Spec => PassIsComplete
<1>1. ASSUME IInv, [Next]_vars
      PROVE  [EndPass => \A p \in DOMAIN recv : idle[p] <= Old]_vars
  <2> SUFFICES ASSUME EndPass, NEW p \in DOMAIN recv PROVE idle[p] <= Old
    OBVIOUS
  <2>1. /\ DOMAIN order = DOMAIN recv /\ DOMAIN idle = DOMAIN recv /\ DOMAIN age = DOMAIN recv
        /\ \A q \in DOMAIN recv : age[q] \in 0 .. Old + 1 /\ idle[q] \in 0 .. Old + 1
        /\ Old \in Nat
    BY <1>1, FusionAssumption DEF IInv, TypeOK
  <2>2. PICK o \in DOMAIN order :
            IsOldest(order, o) /\ \A q \in DOMAIN order \ {o} : o \in order[q]
    <3>1. IsOrder(order) /\ DOMAIN order # {}
      BY <1>1, <2>1 DEF IInv, ByAge
    <3> QED BY <3>1, OneIsOldest
  <2>3. age[o] <= Old
    BY <2>1, <2>2 DEF EndPass, IsOld
  <2>4. idle[o] <= age[o]
    BY <1>1, <2>1, <2>2 DEF IInv, ByAge
  <2>5. p = o \/ idle[p] <= idle[o]
    BY <1>1, <2>1, <2>2 DEF IInv, ByAge
  <2>6. p \in DOMAIN recv /\ o \in DOMAIN recv
    BY <2>1
  <2> QED BY <2>1, <2>3, <2>4, <2>5, <2>6
<1> QED BY <1>1, AlwaysHolds, PTL DEF Spec, PassIsComplete

=============================================================================
