-------------------------- MODULE SpiffsCacheProofs --------------------------
(***************************************************************************)
(* Proofs about SpiffsCache, for any number of cache pages, flash pages,   *)
(* objects and descriptors: copies are what the flash holds, and bytes     *)
(* that wait belong to one object with a descriptor to flush them and show *)
(* where they were written.                                                *)
(***************************************************************************)
EXTENDS SpiffsCache, FiniteSetTheorems, SequenceTheorems, WellFoundedInduction, TLAPS

-----------------------------------------------------------------------------
\* Lemmas about the operators.

\* spiffs_cache_page_allocate and the searches of pages find one of those they look
\* for.
LEMMA FirstIsIn == ASSUME NEW S \in SUBSET Slots, S # {} PROVE First(S) \in S
<1>1. S \subseteq Nat
  BY CacheAssumption
<1> DEFINE before == OpToRel(<, Nat)
<1>2. IsWellFoundedOn(before, Nat)
  BY NatLessThanWellFounded
<1>3. before = {ss \in Nat \X Nat : ss[1] < ss[2]}
  BY Zenon DEF OpToRel
<1> HIDE DEF before
<1>4. PICK s \in S : \A t \in S : <<t, s>> \notin before
  BY <1>1, <1>2, WFMin
<1>5. \A x, y \in Nat : x < y => <<x, y>> \in before
  BY <1>3
<1>6. ASSUME NEW t \in S PROVE s <= t
  <2>1. s \in Nat /\ t \in Nat
    BY <1>1
  <2>2. ~ t < s
    BY <1>4, <1>5, <2>1
  <2> QED BY <2>1, <2>2
<1> QED BY <1>6 DEF First

\* What SPIFFS_write makes of a sequence of bytes: its length and its bytes.
IsPut(p, b, at, d) ==
    /\ p \in Seq(Nat)
    /\ Len(p) = Larger(Len(b), at + Len(d))
    /\ \A i \in 1 .. Larger(Len(b), at + Len(d)) :
          p[i] = IF i - at \in 1 .. Len(d) THEN d[i - at]
                 ELSE IF i <= Len(b) THEN b[i] ELSE 0

\* Put makes a sequence of bytes.
LEMMA PutFacts == ASSUME NEW b \in Seq(Nat), NEW at \in Nat, NEW d \in Seq(Nat)
                  PROVE  IsPut(Put(b, at, d), b, at, d)
<1> DEFINE n == Larger(Len(b), at + Len(d))
           byte(i) == IF i - at \in 1 .. Len(d) THEN d[i - at]
                      ELSE IF i <= Len(b) THEN b[i] ELSE 0
<1>1. n \in Nat
  BY LenProperties DEF Larger
<1>2. \A i \in 1 .. n : byte(i) \in Nat
  <2>1. \A i \in 1 .. Len(d) : d[i] \in Nat
    BY ElementOfSeq
  <2>2. \A i \in 1 .. Len(b) : b[i] \in Nat
    BY ElementOfSeq
  <2> QED BY <1>1, <2>1, <2>2
<1>3. Put(b, at, d) = [i \in 1 .. n |-> byte(i)]
  BY DEF Put
<1> HIDE DEF byte, n
<1>4. Put(b, at, d) \in [1 .. n -> Nat]
  BY <1>2, <1>3
<1>5. Put(b, at, d) \in Seq(Nat)
  BY <1>1, <1>4, SeqDef
<1>6. Len(Put(b, at, d)) = n
  <2>1. DOMAIN Put(b, at, d) = 1 .. n
    BY <1>4
  <2>2. DOMAIN Put(b, at, d) = 1 .. Len(Put(b, at, d)) /\ Len(Put(b, at, d)) \in Nat
    BY <1>5, LenProperties
  <2> QED BY <1>1, <2>1, <2>2
<1>7. \A i \in 1 .. n : Put(b, at, d)[i] = byte(i)
  BY <1>3
<1> QED BY <1>5, <1>6, <1>7 DEF n, byte, IsPut

\* Writing into what waits is writing over the file with what waits.
LEMMA PutTwice ==
    ASSUME NEW b \in Seq(Nat), NEW at \in Nat, NEW d \in Seq(Nat),
           NEW off \in Nat, NEW e \in Seq(Nat), at <= off, off <= at + Len(d)
    PROVE  Put(Put(b, at, d), off, e) = Put(b, at, Put(d, off - at, e))
<1>1. off - at \in Nat /\ Len(b) \in Nat /\ Len(d) \in Nat /\ Len(e) \in Nat
  BY LenProperties
<1> DEFINE x == Put(b, at, d)
           y == Put(d, off - at, e)
           n == Larger(Larger(Len(b), at + Len(d)), off + Len(e))
<1>2. IsPut(x, b, at, d)
  BY PutFacts
<1>3. IsPut(y, d, off - at, e)
  BY <1>1, PutFacts
<1> HIDE DEF x, y
<1>4. IsPut(Put(x, off, e), x, off, e) /\ Len(x) = Larger(Len(b), at + Len(d))
  <2>1. x \in Seq(Nat) /\ Len(x) = Larger(Len(b), at + Len(d))
    BY <1>2, Zenon DEF IsPut
  <2> QED BY <2>1, PutFacts
<1>5. n = Larger(Len(b), at + Len(y)) /\ n \in Nat
  BY <1>1, <1>3 DEF Larger, IsPut
<1>6. IsPut(Put(b, at, y), b, at, y)
  BY <1>3, PutFacts DEF IsPut
<1>7. ASSUME NEW i \in 1 .. n PROVE Put(x, off, e)[i] = Put(b, at, y)[i]
  <2>1. i \in Nat /\ i >= 1
    BY <1>5
  <2>2. CASE i - off \in 1 .. Len(e)
    <3>1. i - at \in 1 .. Len(y) /\ (i - at) - (off - at) = i - off
      BY <1>1, <1>3, <2>1, <2>2 DEF Larger, IsPut
    <3>2. y[i - at] = e[i - off]
      BY <1>1, <1>3, <2>1, <2>2, <3>1 DEF IsPut
    <3> QED BY <1>4, <1>5, <1>6, <2>2, <3>1, <3>2 DEF IsPut
  <2>3. CASE i - off \notin 1 .. Len(e) /\ i - at \in 1 .. Len(d)
    <3>1. /\ i - at \in 1 .. Larger(Len(d), (off - at) + Len(e))
          /\ (i - at) - (off - at) \notin 1 .. Len(e) /\ i - at <= Len(d)
      BY <1>1, <2>1, <2>3 DEF Larger
    <3>2. i - at \in 1 .. Len(y) /\ y[i - at] = d[i - at]
      BY <1>3, <3>1 DEF IsPut
    <3>3. i \in 1 .. Larger(Len(b), at + Len(d))
      BY <1>1, <2>1, <2>3 DEF Larger
    <3>4. i <= Len(x) /\ x[i] = d[i - at]
      BY <1>2, <1>4, <2>3, <3>3 DEF IsPut
    <3> QED BY <1>4, <1>5, <1>6, <2>1, <2>3, <3>2, <3>4 DEF IsPut
  <2>4. CASE i - off \notin 1 .. Len(e) /\ i - at \notin 1 .. Len(d)
    <3>1. i - at \notin 1 .. Len(y)
      BY <1>1, <1>3, <2>1, <2>4 DEF Larger, IsPut
    <3>2. i <= Len(x) <=> i <= Larger(Len(b), at + Len(d))
      BY <1>4
    <3>3. i <= Len(b) => i <= Len(x) /\ x[i] = b[i]
      BY <1>1, <1>2, <2>1, <2>4, <3>2 DEF Larger, IsPut
    <3>4. i <= Len(x) => x[i] = IF i <= Len(b) THEN b[i] ELSE 0
      BY <1>1, <1>2, <2>1, <2>4, <3>2 DEF Larger, IsPut
    <3> QED BY <1>4, <1>5, <1>6, <2>1, <2>4, <3>1, <3>3, <3>4 DEF IsPut
  <2> QED BY <2>2, <2>3, <2>4
<1>8. Put(x, off, e) = Put(b, at, y)
  BY <1>4, <1>5, <1>6, <1>7, SeqEqual DEF IsPut
<1> QED BY <1>8 DEF x, y

\* A page with no bytes yet shows the file as it is.
LEMMA PutNothing ==
    ASSUME NEW b \in Seq(Nat), NEW at \in Nat, at <= Len(b) PROVE Put(b, at, <<>>) = b
<1>1. <<>> \in Seq(Nat) /\ Len(<<>>) = 0 /\ Len(b) \in Nat
  BY EmptySeq, LenProperties
<1>2. IsPut(Put(b, at, <<>>), b, at, <<>>)
  BY <1>1, PutFacts
<1>3. Larger(Len(b), at + Len(<<>>)) = Len(b)
  BY <1>1 DEF Larger
<1>4. \A i \in 1 .. Len(b) : Put(b, at, <<>>)[i] = b[i]
  BY <1>1, <1>2, <1>3 DEF IsPut
<1> QED BY <1>1, <1>2, <1>3, <1>4, SeqEqual DEF IsPut

-----------------------------------------------------------------------------
\* Lemmas about the copies.

\* Freeing pages leaves the other copies and their order.
LEMMA FreedAges ==
    ASSUME NEW c \in [Slots -> CachePage], NEW o \in [Slots -> SUBSET Slots],
           Ages(c, o), NEW S \in SUBSET Slots
    PROVE  /\ Freed(c, S) \in [Slots -> CachePage]
           /\ Forgot(o, S) \in [Slots -> SUBSET Slots]
           /\ Copies(Freed(c, S)) = Copies(c) \ S
           /\ \A s \in Slots \ S : Freed(c, S)[s] = c[s]
           /\ Ages(Freed(c, S), Forgot(o, S))
<1>1. Free \in CachePage /\ Free.kind = "free"
  BY EmptySeq DEF Free, CachePage
<1>2. Freed(c, S) \in [Slots -> CachePage]
  BY <1>1 DEF Freed
<1>3. Forgot(o, S) \in [Slots -> SUBSET Slots]
  BY DEF Forgot
<1>4. \A s \in Slots : /\ Freed(c, S)[s] = (IF s \in S THEN Free ELSE c[s])
                       /\ Forgot(o, S)[s] = IF s \in S THEN {} ELSE o[s] \ S
  BY DEF Freed, Forgot
<1>5. Copies(Freed(c, S)) = Copies(c) \ S
  BY <1>1, <1>4 DEF Copies
<1> DEFINE e == Freed(c, S)
           n == Forgot(o, S)
<1>6. Copies(c) \subseteq Slots /\ Copies(e) \subseteq Slots
  BY DEF Copies
<1> HIDE DEF e, n
<1>7. \A s \in Slots : \A x : x \in n[s] <=> s \notin S /\ x \in o[s] /\ x \notin S
  BY <1>4 DEF n
<1>8. \A s : s \in Copies(e) <=> s \in Copies(c) /\ s \notin S
  BY <1>5 DEF e
<1>9. /\ \A s \in Slots : \A t \in o[s] : t \in Copies(c) /\ t # s
      /\ \A s \in Slots : s \notin Copies(c) => o[s] = {}
      /\ \A s, t \in Copies(c) : s # t => (s \in o[t] <=> t \notin o[s])
      /\ \A s, t \in Copies(c) : s \in o[t] => \A u \in o[s] : u \in o[t]
  BY DEF Ages
<1>10. Ages(e, n)
  <2>1. ASSUME NEW s \in Slots PROVE n[s] \subseteq Copies(e) \ {s}
    BY <1>7, <1>8, <1>9
  <2>2. ASSUME NEW s \in Slots \ Copies(e) PROVE n[s] = {}
    BY <1>7, <1>8, <1>9
  <2>3. ASSUME NEW s \in Copies(e), NEW t \in Copies(e), s # t
        PROVE  s \in n[t] <=> t \notin n[s]
    BY <1>6, <1>7, <1>8, <1>9, <2>3
  <2>4. ASSUME NEW s \in Copies(e), NEW t \in Copies(e), s \in n[t]
        PROVE  n[s] \subseteq n[t]
    BY <1>6, <1>7, <1>8, <1>9, <2>4
  <2> QED BY <2>1, <2>2, <2>3, <2>4 DEF Ages
<1> QED BY <1>2, <1>3, <1>4, <1>5, <1>10 DEF e, n

\* The last access makes a copy the youngest.
LEMMA TouchedAges ==
    ASSUME NEW c \in [Slots -> CachePage], NEW o \in [Slots -> SUBSET Slots],
           Ages(c, o), NEW s \in Slots, NEW d, Copies(d) = Copies(c) \cup {s}
    PROVE  /\ Touched(c, o, s) \in [Slots -> SUBSET Slots]
           /\ Ages(d, Touched(c, o, s))
<1>1. \A t \in Slots : Touched(c, o, s)[t] = IF t = s THEN Copies(c) \ {s} ELSE o[t] \ {s}
  BY DEF Touched, Forgot
<1>2. Touched(c, o, s) \in [Slots -> SUBSET Slots]
  BY DEF Touched, Forgot, Copies
<1> DEFINE n == Touched(c, o, s)
<1>3. Copies(c) \subseteq Slots
  BY DEF Copies
<1> HIDE DEF n
<1>4. \A t \in Slots : \A x : x \in n[t] <=> x # s /\ x \in (IF t = s THEN Copies(c) ELSE o[t])
  BY <1>1 DEF n
<1>5. /\ \A t \in Slots : \A u \in o[t] : u \in Copies(c) /\ u # t
      /\ \A t \in Slots : t \notin Copies(c) => o[t] = {}
      /\ \A t, u \in Copies(c) : t # u => (t \in o[u] <=> u \notin o[t])
      /\ \A t, u \in Copies(c) : t \in o[u] => \A w \in o[t] : w \in o[u]
  BY DEF Ages
<1>6. \A t : t \in Copies(d) <=> t \in Copies(c) \/ t = s
  OBVIOUS
<1>7. Ages(d, n)
  <2>1. ASSUME NEW t \in Slots PROVE n[t] \subseteq Copies(d) \ {t}
    BY <1>4, <1>5, <1>6
  <2>2. ASSUME NEW t \in Slots \ Copies(d) PROVE n[t] = {}
    BY <1>4, <1>5, <1>6
  <2>3. ASSUME NEW t \in Copies(d), NEW u \in Copies(d), t # u
        PROVE  t \in n[u] <=> u \notin n[t]
    BY <1>3, <1>4, <1>5, <1>6, <2>3
  <2>4. ASSUME NEW t \in Copies(d), NEW u \in Copies(d), t \in n[u]
        PROVE  n[t] \subseteq n[u]
    BY <1>3, <1>4, <1>5, <1>6, <2>4
  <2> QED BY <2>1, <2>2, <2>3, <2>4 DEF Ages
<1> QED BY <1>2, <1>7 DEF n

-----------------------------------------------------------------------------
\* The invariant, as a predicate of the record a call works on.

Calling == [c : [Slots -> CachePage], older : [Slots -> SUBSET Slots],
            disk : [Objs -> Seq(Nat) \cup {None}], fds : [Fds -> Descriptor],
            lost : SUBSET Objs, ok : BOOLEAN]

\* Copies are of pages, waiting bytes and open descriptors of objects, and an open
\* file is there.
Typed(t) ==
    /\ t \in Calling
    /\ \A s \in Copies(t.c) : t.c[s].pix \in Pix
    /\ Ages(t.c, t.older)
    /\ \A s \in Slots : t.c[s].kind = "write" => t.c[s].obj \in Objs
    /\ \A f \in Fds : t.fds[f].open => t.fds[f].obj \in Objs /\ t.disk[t.fds[f].obj] # None

\* No file is longer than the bound, with the bytes that wait.
Short(t) ==
    /\ \A o \in Objs : t.disk[o] # None => Len(t.disk[o]) <= MaxLen
    /\ \A s \in Slots : t.c[s].kind = "write" => t.c[s].offset + Len(t.c[s].data) <= MaxLen

\* Who waits for what, and who can flush it.
Tied(t) ==
    /\ \A r, s \in Slots : (/\ t.c[r].kind = "write" /\ t.c[s].kind = "write"
                            /\ t.c[r].obj = t.c[s].obj) => r = s
    /\ \A s \in Slots : t.c[s].kind = "write" =>
          \/ t.c[s].obj \in t.lost
          \/ \E f \in Fds : t.fds[f].open /\ t.fds[f].obj = t.c[s].obj
    /\ \A f \in Fds : (t.fds[f].open /\ t.fds[f].page # None) =>
          t.fds[f].page \in WaitingFor(t.c, t.fds[f].obj)

\* What was accepted is there.
Shows(t, m) ==
    \A o \in Objs \ t.lost : t.disk[o] # None => View(t.c, t.disk, o) = m[o]

\* Until something is lost: closed descriptors know no page, waiting bytes begin
\* within the file or at its end, and descriptors are within it or at its end.
Placed(t, m) ==
    /\ \A f \in Fds : ~t.fds[f].open => t.fds[f].page = None
    /\ \A s \in Slots : t.c[s].kind = "write" => t.c[s].offset <= Len(t.disk[t.c[s].obj])
    /\ \A f \in Fds : t.fds[f].open => t.fds[f].off <= Len(m[t.fds[f].obj])

Safe(t, m) == /\ Typed(t) /\ Short(t) /\ Tied(t) /\ Shows(t, m)
              /\ t.lost = {} => Placed(t, m)

\* A call leaves the copies it does not drop.
OnlyDrops(c, d) == \A s \in Copies(d) : s \in Copies(c) /\ d[s] = c[s]

-----------------------------------------------------------------------------
\* What the parts of a call do to the record.

\* spiffs_cache_fd_release frees one page and changes nothing of a descriptor but the
\* page it knows.
LEMMA ReleaseIs ==
    ASSUME NEW t \in Calling, NEW s \in Slots
    PROVE  LET r == Release(t, s) IN
           /\ r \in Calling
           /\ r.c = [t.c EXCEPT ![s] = Free]
           /\ r.older = t.older /\ r.disk = t.disk /\ r.lost = t.lost /\ r.ok = t.ok
           /\ \A g \in Fds : r.fds[g] = IF t.fds[g].open /\ t.fds[g].page = s
                                        THEN [t.fds[g] EXCEPT !.page = None] ELSE t.fds[g]
<1> DEFINE r == Release(t, s)
           gs == [g \in Fds |-> IF t.fds[g].open /\ t.fds[g].page = s
                                THEN [t.fds[g] EXCEPT !.page = None] ELSE t.fds[g]]
<1>1. Free \in CachePage
  BY EmptySeq DEF Free, CachePage
<1>2. r = [t EXCEPT !.c = [t.c EXCEPT ![s] = Free], !.fds = gs]
  BY DEF Release, Calling
<1>3. gs \in [Fds -> Descriptor]
  BY DEF Calling, Descriptor
<1>4. [t.c EXCEPT ![s] = Free] \in [Slots -> CachePage]
  BY <1>1 DEF Calling
<1> HIDE DEF r, gs
<1>5. r \in Calling
  BY <1>2, <1>3, <1>4 DEF Calling
<1>6. /\ r.c = [t.c EXCEPT ![s] = Free] /\ r.fds = gs
      /\ r.older = t.older /\ r.disk = t.disk /\ r.lost = t.lost /\ r.ok = t.ok
  BY <1>2 DEF Calling
<1> QED BY <1>5, <1>6 DEF r, gs

\* All of a write gets to the object, or nothing.
WriteDoes(t, r, obj, offset, data) ==
    /\ r \in Calling
    /\ r.c = t.c /\ r.older = t.older /\ r.fds = t.fds /\ r.lost = t.lost
    /\ \/ /\ r.ok = t.ok
          /\ r.disk = [t.disk EXCEPT ![obj] = Put(t.disk[obj], offset, data)]
       \/ r.ok = FALSE /\ r.disk = t.disk

\* spiffs_hydro_write does all of a write or nothing.
LEMMA HydroWriteIs ==
    ASSUME NEW t \in Calling, NEW obj \in Objs, t.disk[obj] # None,
           NEW offset \in Nat, offset <= Len(t.disk[obj]), NEW data \in Seq(Nat),
           NEW room \in BOOLEAN
    PROVE  WriteDoes(t, HydroWrite(t, obj, offset, data, room), obj, offset, data)
<1> DEFINE r == HydroWrite(t, obj, offset, data, room)
           disk2 == [t.disk EXCEPT ![obj] = Put(t.disk[obj], offset, data)]
<1>1. t.disk[obj] \in Seq(Nat)
  BY DEF Calling
<1>2. Put(t.disk[obj], offset, data) \in Seq(Nat)
  BY <1>1, PutFacts DEF IsPut
<1>3. disk2 \in [Objs -> Seq(Nat) \cup {None}]
  BY <1>2 DEF Calling
<1>4. ~ offset > Len(t.disk[obj])
  BY <1>1, LenProperties
<1>5. r = [t EXCEPT !.disk = disk2] \/ r = [t EXCEPT !.ok = FALSE]
  BY <1>4 DEF HydroWrite, Calling
<1> HIDE DEF r, disk2
<1>6. r = [t EXCEPT !.disk = disk2] => WriteDoes(t, r, obj, offset, data)
  BY <1>3 DEF Calling, disk2, WriteDoes
<1>7. r = [t EXCEPT !.ok = FALSE] => WriteDoes(t, r, obj, offset, data)
  BY DEF Calling, WriteDoes
<1> QED BY <1>5, <1>6, <1>7 DEF r

\* A write page that is dumped: its bytes are written or lost, and it goes.
DumpDoes(t, r, f, s) ==
    LET obj == t.fds[f].obj IN
    /\ r \in Calling
    /\ r.c = [t.c EXCEPT ![s] = Free] /\ r.older = t.older
    /\ \A g \in Fds : r.fds[g] = IF t.fds[g].open /\ t.fds[g].page = s
                                 THEN [t.fds[g] EXCEPT !.page = None] ELSE t.fds[g]
    /\ \/ /\ r.ok = TRUE /\ r.lost = {}
          /\ r.disk = [t.disk EXCEPT ![obj] = Put(t.disk[obj], t.c[s].offset, t.c[s].data)]
       \/ /\ r.ok = FALSE /\ r.lost = {obj} /\ r.disk = t.disk

\* Dumping a write page ends in one of the two ways of DumpDoes.
LEMMA DumpIs ==
    ASSUME NEW t, NEW m, Safe(t, m), t.lost = {}, t.ok = TRUE,
           NEW f \in Fds, t.fds[f].open, NEW s \in WaitingFor(t.c, t.fds[f].obj),
           NEW room \in BOOLEAN
    PROVE  DumpDoes(t, Dump(t, f, s, room), f, s)
<1> DEFINE obj == t.fds[f].obj
           w == HydroWrite(t, obj, t.c[s].offset, t.c[s].data, room)
           u == [w EXCEPT !.lost = IF w.ok THEN @ ELSE @ \cup {obj}]
           r == Release(u, s)
<1>1. /\ t \in Calling /\ obj \in Objs /\ t.disk[obj] # None
      /\ s \in Slots /\ t.c[s].kind = "write" /\ t.c[s].obj = obj
  BY DEF Safe, Typed, WaitingFor
<1>2. t.c[s].offset \in Nat /\ t.c[s].data \in Seq(Nat)
  BY <1>1 DEF Calling, CachePage
<1>3. t.c[s].offset <= Len(t.disk[obj])
  BY <1>1 DEF Safe, Placed
<1>4. WriteDoes(t, w, obj, t.c[s].offset, t.c[s].data)
  BY <1>1, <1>2, <1>3, HydroWriteIs
<1>5. Dump(t, f, s, room) = r
  BY DEF Dump
<1> HIDE DEF w
<1>6. /\ u \in Calling
      /\ u.c = t.c /\ u.older = t.older /\ u.fds = t.fds /\ u.disk = w.disk /\ u.ok = w.ok
      /\ u.lost = IF w.ok THEN {} ELSE {obj}
  BY <1>1, <1>4 DEF Calling, WriteDoes
<1> HIDE DEF u
<1>7. /\ r \in Calling
      /\ r.c = [u.c EXCEPT ![s] = Free]
      /\ r.older = u.older /\ r.disk = u.disk /\ r.lost = u.lost /\ r.ok = u.ok
      /\ \A g \in Fds : r.fds[g] = IF u.fds[g].open /\ u.fds[g].page = s
                                   THEN [u.fds[g] EXCEPT !.page = None] ELSE u.fds[g]
  BY <1>1, <1>6, ReleaseIs
<1> HIDE DEF r
<1> QED BY <1>4, <1>5, <1>6, <1>7 DEF DumpDoes, WriteDoes

-----------------------------------------------------------------------------
\* What an object shows.

\* With a page that waits, the file is what is on the flash with its bytes put in.
LEMMA ViewWaiting ==
    ASSUME NEW t, Typed(t), Tied(t), NEW o \in Objs, NEW s \in WaitingFor(t.c, o), NEW d
    PROVE  /\ WaitingFor(t.c, o) = {s}
           /\ View(t.c, d, o) = Put(d[o], t.c[s].offset, t.c[s].data)
<1>1. \A x \in WaitingFor(t.c, o) : x = s
  BY DEF Tied, WaitingFor
<1>2. WaitingFor(t.c, o) = {s} /\ {s} \in SUBSET Slots
  BY <1>1 DEF WaitingFor
<1>3. First({s}) = s
  BY <1>2, FirstIsIn
<1> QED BY <1>2, <1>3 DEF View

\* A file is the same while its bytes on the flash and its page are.
LEMMA ViewStill ==
    ASSUME NEW c, NEW e, NEW d, NEW b, NEW o, b[o] = d[o],
           WaitingFor(e, o) = WaitingFor(c, o),
           \A s \in WaitingFor(c, o) : e[s] = c[s]
    PROVE  View(e, b, o) = View(c, d, o)
<1>1. CASE WaitingFor(c, o) = {}
  BY <1>1 DEF View
<1>2. CASE WaitingFor(c, o) # {}
  <2>1. First(WaitingFor(c, o)) \in WaitingFor(c, o)
    BY <1>2, FirstIsIn DEF WaitingFor
  <2>2. e[First(WaitingFor(e, o))] = c[First(WaitingFor(c, o))]
    BY <2>1
  <2> QED BY <2>2 DEF View
<1> QED BY <1>1, <1>2

-----------------------------------------------------------------------------
\* Flushing.

\* The page of an object's waiting bytes goes: r is t after that, whatever became of
\* the bytes.
FreesPage(t, r, f, s) ==
    LET obj == t.fds[f].obj IN
    /\ r \in Calling
    /\ r.c = [t.c EXCEPT ![s] = Free] /\ r.older = t.older
    /\ \A g \in Fds : r.fds[g] = IF t.fds[g].open /\ t.fds[g].page = s
                                 THEN [t.fds[g] EXCEPT !.page = None] ELSE t.fds[g]
    /\ r.disk[obj] # None
    /\ \A o \in Objs : o # obj => r.disk[o] = t.disk[o]

\* The descriptors of the object forget the page, nobody else is disturbed.
Undisturbed(t, r, f, m) ==
    /\ Typed(r) /\ Tied(r) /\ Placed(r, m)
    /\ WaitingFor(r.c, t.fds[f].obj) = {}
    /\ \A x \in Slots : r.c[x].kind = "write" => r.c[x] = t.c[x]
    /\ \A o \in Objs : o # t.fds[f].obj => View(r.c, r.disk, o) = View(t.c, t.disk, o)
    /\ r.fds[f] = [t.fds[f] EXCEPT !.page = None]
    /\ OnlyDrops(t.c, r.c)

\* Whoever the page is taken from, everybody else is undisturbed.
LEMMA FreedPage ==
    ASSUME NEW t, NEW m, Safe(t, m), t.lost = {}, NEW f \in Fds, t.fds[f].open,
           NEW s \in WaitingFor(t.c, t.fds[f].obj), NEW r, FreesPage(t, r, f, s)
    PROVE  Undisturbed(t, r, f, m)
<1> DEFINE obj == t.fds[f].obj
<1>1. /\ t \in Calling /\ r \in Calling /\ obj \in Objs 
      /\ s \in Slots /\ t.c[s].kind = "write" /\ t.c[s].obj = obj /\ s # None
  BY CacheAssumption DEF Safe, Typed, FreesPage, WaitingFor, Calling, CachePage
<1>2. Free.kind = "free"
  BY DEF Free
<1>3. \A x \in Slots : r.c[x] = IF x = s THEN Free ELSE t.c[x]
  BY <1>1 DEF FreesPage, Calling
<1>4. \A g \in Fds : /\ r.fds[g].open <=> t.fds[g].open
                     /\ r.fds[g].obj = t.fds[g].obj
                     /\ r.fds[g].off = t.fds[g].off
                     /\ t.fds[g].open /\ t.fds[g].page = s => r.fds[g].page = None
                     /\ ~(t.fds[g].open /\ t.fds[g].page = s) => r.fds[g].page = t.fds[g].page
  <2> TAKE g \in Fds
  <2>1. t.fds[g] \in Descriptor
    BY <1>1 DEF Calling
  <2>2. CASE t.fds[g].open /\ t.fds[g].page = s
    <3>1. r.fds[g] = [t.fds[g] EXCEPT !.page = None]
      BY <2>2 DEF FreesPage
    <3> QED BY <2>1, <2>2, <3>1 DEF Descriptor
  <2>3. CASE ~(t.fds[g].open /\ t.fds[g].page = s)
    <3>1. r.fds[g] = t.fds[g]
      BY <2>3 DEF FreesPage
    <3> QED BY <2>3, <3>1
  <2> QED BY <2>2, <2>3
<1>5. Copies(r.c) = Copies(t.c) /\ \A x \in Copies(r.c) : r.c[x] = t.c[x]
  BY <1>1, <1>2, <1>3 DEF Copies
<1>6. /\ WaitingFor(r.c, obj) = {}
      /\ \A o : o # obj => WaitingFor(r.c, o) = WaitingFor(t.c, o)
  <2>1. \A x \in Slots : t.c[x].kind = "write" /\ t.c[x].obj = obj => x = s
    BY <1>1 DEF Safe, Tied
  <2>2. WaitingFor(r.c, obj) = {}
    BY <1>2, <1>3, <2>1 DEF WaitingFor
  <2>3. ASSUME NEW o, o # obj, NEW x \in Slots
        PROVE  x \in WaitingFor(r.c, o) <=> x \in WaitingFor(t.c, o)
    BY <1>1, <1>2, <1>3, <2>3 DEF WaitingFor
  <2>4. \A o : WaitingFor(r.c, o) \subseteq Slots /\ WaitingFor(t.c, o) \subseteq Slots
    BY DEF WaitingFor
  <2> QED BY <2>2, <2>3, <2>4
<1>7. Typed(r)
  <2>1. Ages(r.c, r.older)
    <3>1. Ages(t.c, t.older) /\ r.older = t.older
      BY DEF Safe, Typed, FreesPage
    <3> QED BY <1>5, <3>1 DEF Ages
  <2>2. \A x \in Copies(r.c) : r.c[x].pix \in Pix
    BY <1>5 DEF Safe, Typed
  <2>3. \A x \in Slots : r.c[x].kind = "write" => r.c[x].obj \in Objs
    BY <1>2, <1>3 DEF Safe, Typed
  <2>4. ASSUME NEW g \in Fds, r.fds[g].open
        PROVE  r.fds[g].obj \in Objs /\ r.disk[r.fds[g].obj] # None
    <3>1. t.fds[g].open /\ r.fds[g].obj = t.fds[g].obj
      BY <1>4, <2>4
    <3>2. t.fds[g].obj \in Objs /\ t.disk[t.fds[g].obj] # None
      BY <3>1 DEF Safe, Typed
    <3> QED BY <1>1, <3>1, <3>2 DEF FreesPage
  <2> QED BY <1>1, <2>1, <2>2, <2>3, <2>4 DEF Typed
<1>8. Tied(r)
  <2>1. \A x, y \in Slots : (/\ r.c[x].kind = "write" /\ r.c[y].kind = "write"
                             /\ r.c[x].obj = r.c[y].obj) => x = y
    BY <1>2, <1>3 DEF Safe, Tied
  <2>2. ASSUME NEW x \in Slots, r.c[x].kind = "write"
        PROVE  \E g \in Fds : r.fds[g].open /\ r.fds[g].obj = r.c[x].obj
    BY <1>2, <1>3, <1>4, <2>2 DEF Safe, Tied
  <2>3. ASSUME NEW g \in Fds, r.fds[g].open, r.fds[g].page # None
        PROVE  r.fds[g].page \in WaitingFor(r.c, r.fds[g].obj)
    <3>1. t.fds[g].open /\ t.fds[g].page # s /\ r.fds[g].page = t.fds[g].page
      BY <1>4, <2>3
    <3>2. t.fds[g].page \in WaitingFor(t.c, t.fds[g].obj)
      BY <2>3, <3>1 DEF Safe, Tied
    <3> QED BY <1>3, <1>4, <3>1, <3>2 DEF WaitingFor
  <2> QED BY <2>1, <2>2, <2>3 DEF Tied
<1>9. ASSUME NEW o \in Objs, o # obj
      PROVE  View(r.c, r.disk, o) = View(t.c, t.disk, o)
  <2>1. r.disk[o] = t.disk[o] /\ WaitingFor(r.c, o) = WaitingFor(t.c, o)
    BY <1>6, <1>9 DEF FreesPage
  <2>2. \A x \in WaitingFor(t.c, o) : r.c[x] = t.c[x]
    BY <1>1, <1>3, <1>9 DEF WaitingFor
  <2> QED BY <2>1, <2>2, ViewStill
<1>10. Placed(r, m)
  <2>1. \A x \in Slots : r.c[x].kind = "write" => r.c[x].offset <= Len(r.disk[r.c[x].obj])
    <3> SUFFICES ASSUME NEW x \in Slots, r.c[x].kind = "write"
                 PROVE  r.c[x].offset <= Len(r.disk[r.c[x].obj])
      OBVIOUS
    <3>1. x # s /\ r.c[x] = t.c[x] /\ t.c[x].obj \in Objs /\ t.c[x].obj # obj
      BY <1>1, <1>2, <1>3 DEF Safe, Typed, Tied
    <3>2. t.c[x].offset <= Len(t.disk[t.c[x].obj])
      BY <3>1 DEF Safe, Placed
    <3> QED BY <3>1, <3>2 DEF FreesPage
  <2>2. \A g \in Fds : ~r.fds[g].open => r.fds[g].page = None
    BY <1>4 DEF Safe, Placed
  <2>3. \A g \in Fds : r.fds[g].open => r.fds[g].off <= Len(m[r.fds[g].obj])
    BY <1>4 DEF Safe, Placed
  <2> QED BY <2>1, <2>2, <2>3 DEF Placed
<1>11. r.fds[f] = [t.fds[f] EXCEPT !.page = None]
  <2>1. t.fds[f].page \in {s, None}
    BY <1>1 DEF Safe, Tied, WaitingFor
  <2>2. CASE t.fds[f].page = s
    BY <2>2 DEF FreesPage
  <2>3. CASE t.fds[f].page = None
    BY <1>1, <2>3 DEF FreesPage, Calling, Descriptor
  <2> QED BY <2>1, <2>2, <2>3
<1>12. \A x \in Slots : r.c[x].kind = "write" => r.c[x] = t.c[x]
  BY <1>2, <1>3
<1> QED BY <1>5, <1>6, <1>7, <1>8, <1>9, <1>10, <1>11, <1>12 DEF OnlyDrops, Undisturbed

\* What a flush through a descriptor does: the bytes are on the flash or lost, and
\* nothing waits for the object.
Flushed(t, r, f, m) ==
    /\ Safe(r, m)
    /\ r.ok \/ r.lost # {}
    /\ r.lost = {} => r.ok /\ r.disk[t.fds[f].obj] = m[t.fds[f].obj]
    /\ WaitingFor(r.c, t.fds[f].obj) = {}
    /\ r.fds[f] = [t.fds[f] EXCEPT !.page = None]
    /\ OnlyDrops(t.c, r.c)

\* A dumped page leaves the file as it was meant, or its object lost.
LEMMA DumpSafe ==
    ASSUME NEW t, NEW m, Safe(t, m), t.lost = {}, NEW f \in Fds, t.fds[f].open,
           NEW s \in WaitingFor(t.c, t.fds[f].obj), NEW r, DumpDoes(t, r, f, s)
    PROVE  Flushed(t, r, f, m)
<1> DEFINE obj == t.fds[f].obj
           put == Put(t.disk[obj], t.c[s].offset, t.c[s].data)
<1>1. /\ t \in Calling /\ r \in Calling /\ obj \in Objs /\ t.disk[obj] \in Seq(Nat)
      /\ s \in Slots /\ t.c[s].kind = "write" /\ t.c[s].obj = obj
      /\ t.c[s].offset \in Nat /\ t.c[s].data \in Seq(Nat)
      /\ t.c[s].offset <= Len(t.disk[obj]) /\ t.disk[obj] # None
  BY CacheAssumption DEF Safe, Typed, Placed, DumpDoes, WaitingFor, Calling, CachePage
<1>2. /\ put \in Seq(Nat) /\ put # None
      /\ Len(put) = Larger(Len(t.disk[obj]), t.c[s].offset + Len(t.c[s].data))
      /\ Len(put) >= Len(t.disk[obj])
  <2>1. IsPut(put, t.disk[obj], t.c[s].offset, t.c[s].data)
    BY <1>1, PutFacts
  <2>2. Len(put) \in Nat /\ Len(t.disk[obj]) \in Nat /\ Len(t.c[s].data) \in Nat
    BY <1>1, <2>1, LenProperties DEF IsPut
  <2>3. Len(put) = Larger(Len(t.disk[obj]), t.c[s].offset + Len(t.c[s].data))
    BY <2>1 DEF IsPut
  <2>4. Len(put) >= Len(t.disk[obj])
    <3> HIDE DEF put, obj
    <3> QED BY <2>2, <2>3, <1>1 DEF Larger
  <2>5. put \in Seq(Nat) /\ put # None
    BY <2>1, CacheAssumption DEF IsPut
  <2> HIDE DEF put
  <2> QED BY <2>2, <2>3, <2>4, <2>5
<1>3. m[obj] = put
  <2>1. View(t.c, t.disk, obj) = put
    BY <1>1, ViewWaiting DEF Safe
  <2> QED BY <1>1, <2>1, CacheAssumption DEF Safe, Shows, Typed
<1>4. /\ \A o \in Objs : o # obj => r.disk[o] = t.disk[o]
      /\ \/ r.ok = TRUE /\ r.lost = {} /\ r.disk[obj] = put
         \/ r.ok = FALSE /\ r.lost = {obj} /\ r.disk[obj] = t.disk[obj]
  BY <1>1 DEF DumpDoes, Calling
<1> HIDE DEF put
<1>5. FreesPage(t, r, f, s)
  BY <1>1, <1>2, <1>4 DEF FreesPage, DumpDoes
<1>6. /\ Typed(r) /\ Tied(r) /\ Placed(r, m)
      /\ WaitingFor(r.c, obj) = {}
      /\ \A x \in Slots : r.c[x].kind = "write" => r.c[x] = t.c[x]
      /\ \A o \in Objs : o # obj => View(r.c, r.disk, o) = View(t.c, t.disk, o)
      /\ r.fds[f] = [t.fds[f] EXCEPT !.page = None]
      /\ OnlyDrops(t.c, r.c)
  <2>1. Undisturbed(t, r, f, m)
    BY <1>5, FreedPage
  <2> QED BY <2>1 DEF Undisturbed
<1>7. Short(r)
  <2>1. Len(put) <= MaxLen
    <3>1. Len(t.disk[obj]) <= MaxLen /\ t.c[s].offset + Len(t.c[s].data) <= MaxLen
      BY <1>1 DEF Safe, Typed, Short
    <3>2. Larger(Len(t.disk[obj]), t.c[s].offset + Len(t.c[s].data)) <= MaxLen
      BY <3>1 DEF Larger
    <3> QED BY <1>2, <3>2, Zenon
  <2>2. ASSUME NEW o \in Objs, r.disk[o] # None PROVE Len(r.disk[o]) <= MaxLen
    <3>1. CASE r.disk[o] = put
      BY <2>1, <3>1
    <3>2. CASE r.disk[o] = t.disk[o]
      BY <2>2, <3>2 DEF Safe, Short
    <3> QED BY <1>4, <3>1, <3>2
  <2>3. ASSUME NEW x \in Slots, r.c[x].kind = "write"
        PROVE  r.c[x].offset + Len(r.c[x].data) <= MaxLen
    BY <1>6, <2>3 DEF Safe, Short
  <2> QED BY <2>2, <2>3 DEF Short
<1>8. Shows(r, m)
  <2> SUFFICES ASSUME NEW o \in Objs \ r.lost, r.disk[o] # None
               PROVE  View(r.c, r.disk, o) = m[o]
    BY DEF Shows
  <2>1. CASE o = obj
    BY <1>3, <1>4, <1>6, <2>1 DEF View
  <2>2. CASE o # obj
    BY <1>4, <1>6, <2>2 DEF Safe, Shows
  <2> QED BY <2>1, <2>2
<1> QED BY <1>3, <1>4, <1>6, <1>7, <1>8 DEF Safe, Flushed

\* Who flushes finds the page that waits, if there is one.
LEMMA PageOfIs ==
    ASSUME NEW t, NEW m, Safe(t, m), NEW f \in Fds, t.fds[f].open
    PROVE  \/ /\ PageOf(t, f) = None /\ t.fds[f].page = None
              /\ WaitingFor(t.c, t.fds[f].obj) = {}
           \/ PageOf(t, f) \in WaitingFor(t.c, t.fds[f].obj) /\ PageOf(t, f) # None
<1> DEFINE waiting == WaitingFor(t.c, t.fds[f].obj)
<1>1. waiting \in SUBSET Slots
  BY DEF WaitingFor
<1>2. CASE t.fds[f].page # None
  BY <1>2 DEF Safe, Tied, PageOf
<1>3. CASE t.fds[f].page = None /\ waiting = {}
  BY <1>3 DEF PageOf
<1>4. CASE t.fds[f].page = None /\ waiting # {}
  <2>1. First(waiting) \in waiting
    BY <1>1, <1>4, FirstIsIn
  <2>2. PageOf(t, f) = First(waiting)
    BY <1>4 DEF PageOf
  <2> QED BY <1>1, <2>1, <2>2, CacheAssumption
<1> QED BY <1>2, <1>3, <1>4

\* So does a flush, with or without a page to dump.
LEMMA FlushSafe ==
    ASSUME NEW t, NEW m, Safe(t, m), t.lost = {}, t.ok = TRUE, NEW f \in Fds, t.fds[f].open,
           NEW room \in BOOLEAN
    PROVE  Flushed(t, Flush(t, f, room), f, m)
<1> DEFINE s == PageOf(t, f)
<1>1. CASE s = None
  <2>1. t.fds[f].page = None /\ WaitingFor(t.c, t.fds[f].obj) = {}
    BY <1>1, PageOfIs
  <2>2. Flush(t, f, room) = t
    BY <1>1 DEF Flush
  <2>3. t.disk[t.fds[f].obj] = m[t.fds[f].obj]
    BY <2>1 DEF Safe, Typed, Shows, View
  <2>4. t.fds[f] = [t.fds[f] EXCEPT !.page = None]
    BY <2>1 DEF Safe, Typed, Calling, Descriptor
  <2> QED BY <2>1, <2>2, <2>3, <2>4 DEF Flushed, OnlyDrops
<1>2. CASE s # None
  <2>1. s \in WaitingFor(t.c, t.fds[f].obj)
    BY <1>2, PageOfIs
  <2>2. Flush(t, f, room) = Dump(t, f, s, room)
    BY <1>2 DEF Flush
  <2> HIDE DEF s
  <2>3. DumpDoes(t, Dump(t, f, s, room), f, s)
    BY <2>1, DumpIs
  <2> QED BY <2>1, <2>2, <2>3, DumpSafe
<1> QED BY <1>1, <1>2

-----------------------------------------------------------------------------
\* Descriptors.

\* Changing one descriptor changes nothing else.
LEMMA FdsIs ==
    ASSUME NEW t \in Calling, NEW f \in Fds, NEW fd \in Descriptor
    PROVE  LET r == [t EXCEPT !.fds = [@ EXCEPT ![f] = fd]] IN
           /\ r \in Calling
           /\ r.c = t.c /\ r.older = t.older /\ r.disk = t.disk /\ r.lost = t.lost
           /\ r.ok = t.ok /\ r.fds[f] = fd
           /\ \A g \in Fds \ {f} : r.fds[g] = t.fds[g]
<1> DEFINE gs == [t.fds EXCEPT ![f] = fd]
<1>1. gs \in [Fds -> Descriptor] /\ gs[f] = fd /\ \A g \in Fds \ {f} : gs[g] = t.fds[g]
  BY DEF Calling
<1> HIDE DEF gs
<1>2. [t EXCEPT !.fds = gs] \in Calling
  BY <1>1 DEF Calling
<1>3. LET r == [t EXCEPT !.fds = gs] IN
      /\ r.c = t.c /\ r.older = t.older /\ r.disk = t.disk /\ r.lost = t.lost
      /\ r.ok = t.ok /\ r.fds = gs
  BY DEF Calling
<1> QED BY <1>1, <1>2, <1>3 DEF gs

\* A descriptor moves within what the file holds.
MovesTo(t, r, f, x) ==
    /\ r \in Calling
    /\ r.c = t.c /\ r.older = t.older /\ r.disk = t.disk /\ r.lost = t.lost
    /\ r.fds[f] = [t.fds[f] EXCEPT !.off = x]
    /\ \A g \in Fds \ {f} : r.fds[g] = t.fds[g]

\* Setting fdoffset moves the descriptor and nothing else.
LEMMA MoveIs ==
    ASSUME NEW t \in Calling, NEW f \in Fds, NEW x \in 0 .. MaxLen
    PROVE  MovesTo(t, [t EXCEPT !.fds[f].off = x], f, x)
<1> DEFINE fd == [t.fds[f] EXCEPT !.off = x]
<1>1. fd \in Descriptor
  BY DEF Calling, Descriptor
<1>2. [t EXCEPT !.fds[f].off = x] = [t EXCEPT !.fds = [@ EXCEPT ![f] = fd]]
  OBVIOUS
<1> HIDE DEF fd
<1> QED BY <1>1, <1>2, FdsIs DEF MovesTo, fd

\* A descriptor may go anywhere within the file.
LEMMA MoveSafe ==
    ASSUME NEW t, NEW m, Safe(t, m), NEW f \in Fds,
           NEW x, t.lost = {} => x <= Len(m[t.fds[f].obj]),
           NEW r, MovesTo(t, r, f, x)
    PROVE  Safe(r, m)
<1>1. \A g \in Fds : /\ r.fds[g].open <=> t.fds[g].open
                     /\ r.fds[g].obj = t.fds[g].obj /\ r.fds[g].page = t.fds[g].page
                     /\ r.fds[g].off = IF g = f THEN x ELSE t.fds[g].off
  BY DEF MovesTo, Safe, Typed, Calling, Descriptor
<1>2. Typed(r)
  BY <1>1 DEF MovesTo, Safe, Typed
<1>3. Short(r) /\ Shows(r, m)
  BY DEF MovesTo, Safe, Short, Shows
<1>4. Tied(r)
  BY <1>1 DEF MovesTo, Safe, Tied
<1>5. r.lost = {} => Placed(r, m)
  BY <1>1 DEF MovesTo, Safe, Placed
<1> QED BY <1>2, <1>3, <1>4, <1>5 DEF Safe

\* A descriptor of an object that nothing waits for is closed.
Shuts(t, r, f) ==
    /\ r \in Calling
    /\ r.c = t.c /\ r.older = t.older /\ r.disk = t.disk /\ r.lost = t.lost
    /\ r.fds[f] = Shut(t.fds[f])
    /\ \A g \in Fds \ {f} : r.fds[g] = t.fds[g]

\* Closing a descriptor changes no other.
LEMMA ShutIs ==
    ASSUME NEW t \in Calling, NEW f \in Fds
    PROVE  Shuts(t, [t EXCEPT !.fds[f] = Shut(@)], f)
<1> DEFINE fd == Shut(t.fds[f])
<1>1. fd \in Descriptor
  BY CacheAssumption DEF Calling, Descriptor, Shut
<1>2. [t EXCEPT !.fds[f] = Shut(@)] = [t EXCEPT !.fds = [@ EXCEPT ![f] = fd]]
  OBVIOUS
<1> HIDE DEF fd
<1> QED BY <1>1, <1>2, FdsIs DEF Shuts, fd

\* A descriptor may be closed when nothing waits for its object.
LEMMA ShutSafe ==
    ASSUME NEW t, NEW m, Safe(t, m), NEW f \in Fds, t.fds[f].page = None,
           WaitingFor(t.c, t.fds[f].obj) = {}, NEW r, Shuts(t, r, f)
    PROVE  Safe(r, m)
<1>1. ~r.fds[f].open /\ r.fds[f].page = None
  BY DEF Shuts, Shut
<1>2. \A g \in Fds : r.fds[g].open => t.fds[g].open /\ g # f /\ r.fds[g] = t.fds[g]
  BY <1>1 DEF Shuts
<1>3. Typed(r)
  BY <1>2 DEF Shuts, Safe, Typed
<1>4. Short(r) /\ Shows(r, m)
  BY DEF Shuts, Safe, Short, Shows
<1>5. Tied(r)
  <2>1. ASSUME NEW s \in Slots, r.c[s].kind = "write"
        PROVE  r.c[s].obj \in r.lost \/ \E g \in Fds : r.fds[g].open /\ r.fds[g].obj = r.c[s].obj
    <3>1. \/ t.c[s].obj \in t.lost
          \/ \E g \in Fds : t.fds[g].open /\ t.fds[g].obj = t.c[s].obj
      BY <2>1 DEF Shuts, Safe, Tied
    <3>2. t.c[s].obj # t.fds[f].obj
      BY <2>1 DEF Shuts, WaitingFor
    <3> QED BY <3>1, <3>2 DEF Shuts
  <2>2. ASSUME NEW g \in Fds, r.fds[g].open, r.fds[g].page # None
        PROVE  r.fds[g].page \in WaitingFor(r.c, r.fds[g].obj)
    BY <1>2, <2>2 DEF Shuts, Safe, Tied
  <2> QED BY <2>1, <2>2 DEF Shuts, Safe, Tied
<1>6. r.lost = {} => Placed(r, m)
  BY <1>1, <1>2 DEF Shuts, Safe, Placed
<1> QED BY <1>3, <1>4, <1>5, <1>6 DEF Safe

\* A descriptor gets to know the page that waits for its object, or forgets it.
Knows(t, r, f, s) ==
    /\ r \in Calling
    /\ r.c = t.c /\ r.older = t.older /\ r.disk = t.disk /\ r.lost = t.lost /\ r.ok = t.ok
    /\ r.fds[f] = [t.fds[f] EXCEPT !.page = s]
    /\ \A g \in Fds \ {f} : r.fds[g] = t.fds[g]

\* Remembering a page changes nothing else.
LEMMA KnowIs ==
    ASSUME NEW t \in Calling, NEW f \in Fds, NEW s \in Slots \cup {None}
    PROVE  Knows(t, [t EXCEPT !.fds[f].page = s], f, s)
<1> DEFINE fd == [t.fds[f] EXCEPT !.page = s]
<1>1. fd \in Descriptor
  BY DEF Calling, Descriptor
<1>2. [t EXCEPT !.fds[f].page = s] = [t EXCEPT !.fds = [@ EXCEPT ![f] = fd]]
  OBVIOUS
<1> HIDE DEF fd
<1> QED BY <1>1, <1>2, FdsIs DEF Knows, fd

\* A descriptor may remember the page of its object, or none.
LEMMA KnowSafe ==
    ASSUME NEW t, NEW m, Safe(t, m), NEW f \in Fds, t.fds[f].open,
           NEW s, s = None \/ s \in WaitingFor(t.c, t.fds[f].obj),
           NEW r, Knows(t, r, f, s)
    PROVE  Safe(r, m)
<1>1. \A g \in Fds : /\ r.fds[g].open <=> t.fds[g].open
                     /\ r.fds[g].obj = t.fds[g].obj /\ r.fds[g].off = t.fds[g].off
                     /\ r.fds[g].page = IF g = f THEN s ELSE t.fds[g].page
  BY DEF Knows, Safe, Typed, Calling, Descriptor
<1>2. Typed(r)
  BY <1>1 DEF Knows, Safe, Typed
<1>3. Short(r) /\ Shows(r, m)
  BY DEF Knows, Safe, Short, Shows
<1>4. Tied(r)
  BY <1>1 DEF Knows, Safe, Tied
<1>5. r.lost = {} => Placed(r, m)
  BY <1>1 DEF Knows, Safe, Placed
<1> QED BY <1>2, <1>3, <1>4, <1>5 DEF Safe

\* The object goes, with its descriptors; bytes that wait for it are lost.
GoneDoes(t, r, obj) ==
    /\ r \in Calling
    /\ r.c = t.c /\ r.older = t.older /\ r.disk = [t.disk EXCEPT ![obj] = None]
    /\ r.lost = IF WaitingFor(t.c, obj) = {} THEN t.lost ELSE t.lost \cup {obj}
    /\ \A g \in Fds : r.fds[g] = IF t.fds[g].open /\ t.fds[g].obj = obj
                                 THEN Shut(t.fds[g]) ELSE t.fds[g]

\* The removal of an object is what GoneDoes says.
LEMMA GoneIs ==
    ASSUME NEW t \in Calling, NEW obj \in Objs PROVE GoneDoes(t, Gone(t, obj), obj)
<1> DEFINE gs == [g \in Fds |-> IF t.fds[g].open /\ t.fds[g].obj = obj
                                THEN Shut(t.fds[g]) ELSE t.fds[g]]
           lost2 == IF WaitingFor(t.c, obj) = {} THEN t.lost ELSE t.lost \cup {obj}
           disk2 == [t.disk EXCEPT ![obj] = None]
<1>1. gs \in [Fds -> Descriptor]
  BY CacheAssumption DEF Calling, Descriptor, Shut
<1>2. lost2 \in SUBSET Objs /\ disk2 \in [Objs -> Seq(Nat) \cup {None}]
  BY DEF Calling
<1>3. Gone(t, obj) = [t EXCEPT !.disk = disk2, !.lost = lost2, !.fds = gs]
  BY DEF Gone, Calling
<1>4. \A g \in Fds : gs[g] = IF t.fds[g].open /\ t.fds[g].obj = obj
                             THEN Shut(t.fds[g]) ELSE t.fds[g]
  OBVIOUS
<1> HIDE DEF gs, lost2, disk2
<1>5. LET r == [t EXCEPT !.disk = disk2, !.lost = lost2, !.fds = gs] IN
      /\ r \in Calling
      /\ r.c = t.c /\ r.older = t.older /\ r.disk = disk2 /\ r.lost = lost2 /\ r.fds = gs
  BY <1>1, <1>2 DEF Calling
<1> QED BY <1>3, <1>4, <1>5 DEF GoneDoes, lost2, disk2

\* A removal closes every descriptor of the object and leaves the others as they were.
LEMMA GoneSafe ==
    ASSUME NEW t, NEW m \in [Objs -> Seq(Nat) \cup {None}], NEW obj \in Objs,
           Typed(t), Short(t), Tied(t), Placed(t, m), t.lost = {},
           \A o \in Objs \ {obj} : t.disk[o] # None => View(t.c, t.disk, o) = m[o],
           NEW r, GoneDoes(t, r, obj)
    PROVE  Safe(r, [m EXCEPT ![obj] = None])
<1> DEFINE m2 == [m EXCEPT ![obj] = None]
<1>1. \A g \in Fds : r.fds[g].open => t.fds[g].obj # obj /\ r.fds[g] = t.fds[g]
  <2> SUFFICES ASSUME NEW g \in Fds, r.fds[g].open
               PROVE  t.fds[g].obj # obj /\ r.fds[g] = t.fds[g]
    OBVIOUS
  <2>1. ~Shut(t.fds[g]).open
    BY DEF Shut
  <2>2. ~(t.fds[g].open /\ t.fds[g].obj = obj)
    BY <2>1 DEF GoneDoes
  <2>3. r.fds[g] = t.fds[g]
    BY <2>2 DEF GoneDoes
  <2> QED BY <2>2, <2>3
<1>2. \A o \in Objs : r.disk[o] = IF o = obj THEN None ELSE t.disk[o]
  BY DEF GoneDoes, Typed, Calling
<1>3. Typed(r)
  BY <1>1, <1>2 DEF GoneDoes, Typed
<1>4. Short(r)
  BY <1>2 DEF GoneDoes, Short
<1>5. Tied(r)
  <2>1. ASSUME NEW s \in Slots, r.c[s].kind = "write"
        PROVE  r.c[s].obj \in r.lost \/ \E g \in Fds : r.fds[g].open /\ r.fds[g].obj = r.c[s].obj
    <3>1. CASE t.c[s].obj = obj
      BY <2>1, <3>1 DEF GoneDoes, WaitingFor
    <3>2. CASE t.c[s].obj # obj
      <4>1. PICK g \in Fds : t.fds[g].open /\ t.fds[g].obj = t.c[s].obj
        BY <2>1 DEF GoneDoes, Tied
      <4>2. r.fds[g] = t.fds[g]
        BY <3>2, <4>1 DEF GoneDoes
      <4> QED BY <4>1, <4>2 DEF GoneDoes
    <3> QED BY <3>1, <3>2
  <2>2. ASSUME NEW g \in Fds, r.fds[g].open, r.fds[g].page # None
        PROVE  r.fds[g].page \in WaitingFor(r.c, r.fds[g].obj)
    BY <1>1, <2>2 DEF GoneDoes, Tied
  <2> QED BY <2>1, <2>2 DEF GoneDoes, Tied
<1>6. Shows(r, m2)
  <2> SUFFICES ASSUME NEW o \in Objs, r.disk[o] # None PROVE View(r.c, r.disk, o) = m2[o]
    BY DEF Shows
  <2>1. o # obj /\ r.disk[o] = t.disk[o] /\ m2[o] = m[o]
    BY <1>2
  <2>2. View(r.c, r.disk, o) = View(t.c, t.disk, o)
    <3>1. r.c = t.c
      BY DEF GoneDoes
    <3> QED BY <2>1, <3>1, ViewStill
  <2> QED BY <2>1, <2>2
<1>7. r.lost = {} => Placed(r, m2)
  <2> SUFFICES ASSUME r.lost = {} PROVE Placed(r, m2)
    OBVIOUS
  <2>1. WaitingFor(t.c, obj) = {}
    BY DEF GoneDoes
  <2>2. ASSUME NEW g \in Fds, ~r.fds[g].open PROVE r.fds[g].page = None
    <3>1. CASE t.fds[g].open /\ t.fds[g].obj = obj
      <4>1. r.fds[g] = Shut(t.fds[g])
        BY <3>1 DEF GoneDoes
      <4>2. r.fds[g].page = t.fds[g].page
        BY <4>1 DEF Shut
      <4>3. t.fds[g].page = None
        BY <2>1, <3>1 DEF Tied
      <4> QED BY <4>2, <4>3
    <3>2. CASE ~(t.fds[g].open /\ t.fds[g].obj = obj)
      BY <2>2, <3>2 DEF GoneDoes, Placed
    <3> QED BY <3>1, <3>2
  <2>3. ASSUME NEW s \in Slots, r.c[s].kind = "write"
        PROVE  r.c[s].offset <= Len(r.disk[r.c[s].obj])
    BY <1>2, <2>1, <2>3 DEF GoneDoes, Typed, Placed, WaitingFor
  <2>4. ASSUME NEW g \in Fds, r.fds[g].open PROVE r.fds[g].off <= Len(m2[r.fds[g].obj])
    BY <1>1, <2>4 DEF Typed, Placed
  <2> QED BY <2>2, <2>3, <2>4 DEF Placed
<1> QED BY <1>3, <1>4, <1>5, <1>6, <1>7 DEF Safe

-----------------------------------------------------------------------------
\* Writing.

\* The file is longer by what is written, or as long.
LEMMA PutLonger ==
    ASSUME NEW b \in Seq(Nat), NEW at \in Nat, NEW d \in Seq(Nat)
    PROVE  /\ Put(b, at, d) \in Seq(Nat) /\ Put(b, at, d) # None
           /\ Len(Put(b, at, d)) \in Nat /\ Len(b) \in Nat /\ Len(d) \in Nat
           /\ Len(Put(b, at, d)) >= Len(b) /\ Len(Put(b, at, d)) >= at + Len(d)
           /\ Len(Put(b, at, d)) = Len(b) \/ Len(Put(b, at, d)) = at + Len(d)
<1> DEFINE p == Put(b, at, d)
<1>1. p \in Seq(Nat) /\ Len(p) = Larger(Len(b), at + Len(d))
  BY PutFacts DEF IsPut
<1> HIDE DEF p
<1>2. p # None
  BY <1>1, CacheAssumption
<1>3. Len(p) \in Nat /\ Len(b) \in Nat /\ Len(d) \in Nat
  BY <1>1, LenProperties
<1>4. /\ Len(p) >= Len(b) /\ Len(p) >= at + Len(d)
      /\ Len(p) = Len(b) \/ Len(p) = at + Len(d)
  BY <1>1, <1>3 DEF Larger
<1> QED BY <1>1, <1>2, <1>3, <1>4 DEF p

\* What was meant after bytes are written to an object that shows what was meant.
Written(m, obj, offset, data) == [m EXCEPT ![obj] = Put(m[obj], offset, data)]

\* Written through to an object that nothing waits for.
LEMMA ThroughSafe ==
    ASSUME NEW t, NEW m \in [Objs -> Seq(Nat) \cup {None}], Safe(t, m), t.lost = {},
           NEW obj \in Objs, t.disk[obj] # None, WaitingFor(t.c, obj) = {},
           NEW offset \in Nat, offset <= Len(t.disk[obj]), NEW data \in Seq(Nat),
           offset + Len(data) <= MaxLen,
           NEW r, WriteDoes(t, r, obj, offset, data)
    PROVE  /\ r.disk = t.disk => Safe(r, m)
           /\ r.disk # t.disk => Safe(r, Written(m, obj, offset, data))
           /\ r.disk = [t.disk EXCEPT ![obj] = Put(t.disk[obj], offset, data)] =>
                 Safe(r, Written(m, obj, offset, data))
<1> DEFINE put == Put(t.disk[obj], offset, data)
           m2 == Written(m, obj, offset, data)
<1>1. t \in Calling /\ t.disk[obj] \in Seq(Nat) /\ r \in Calling
  BY DEF Safe, Typed, Calling, WriteDoes
<1>2. m[obj] = t.disk[obj]
  BY DEF Safe, Shows, View
<1>3. /\ m2[obj] = put
      /\ \A o \in Objs \ {obj} : m2[o] = m[o]
  BY <1>2 DEF Written
<1>4. /\ put \in Seq(Nat) /\ put # None /\ Len(put) \in Nat /\ Len(put) <= MaxLen
      /\ Len(t.disk[obj]) \in Nat /\ Len(put) >= Len(t.disk[obj])
  <2>1. Len(t.disk[obj]) <= MaxLen
    BY DEF Safe, Short
  <2> QED BY <1>1, <2>1, PutLonger
<1> HIDE DEF put, m2
<1>5. ASSUME r.disk = t.disk PROVE Safe(r, m)
  <2>1. Typed(r)
    BY <1>1, <1>5 DEF Safe, Typed, WriteDoes
  <2>2. Short(r) /\ Tied(r) /\ Shows(r, m) /\ Placed(r, m)
    BY <1>5 DEF Safe, Short, Tied, Shows, Placed, WriteDoes
  <2> QED BY <2>1, <2>2 DEF Safe
<1>6. ASSUME r.disk = [t.disk EXCEPT ![obj] = put] PROVE Safe(r, m2)
  <2>1. \A o \in Objs : r.disk[o] = IF o = obj THEN put ELSE t.disk[o]
    BY <1>1, <1>6 DEF Calling
  <2>2. Typed(r)
    BY <1>1, <1>4, <2>1 DEF Safe, Typed, WriteDoes
  <2>3. Short(r)
    BY <1>4, <2>1 DEF Safe, Short, WriteDoes
  <2>4. Tied(r)
    BY DEF Safe, Tied, WriteDoes
  <2>5. Shows(r, m2)
    <3> SUFFICES ASSUME NEW o \in Objs, r.disk[o] # None PROVE View(r.c, r.disk, o) = m2[o]
      BY DEF Shows
    <3>1. CASE o = obj
      BY <1>3, <2>1, <3>1 DEF View, WriteDoes
    <3>2. CASE o # obj
      <4>1. r.c = t.c /\ r.disk[o] = t.disk[o]
        BY <2>1, <3>2 DEF WriteDoes
      <4>2. View(r.c, r.disk, o) = View(t.c, t.disk, o)
        BY <4>1, ViewStill
      <4> QED BY <1>3, <3>2, <4>1, <4>2 DEF Safe, Shows
    <3> QED BY <3>1, <3>2
  <2>6. Placed(r, m2)
    <3>1. ASSUME NEW s \in Slots, r.c[s].kind = "write"
          PROVE  r.c[s].offset <= Len(r.disk[r.c[s].obj])
      BY <2>1, <3>1 DEF Safe, Typed, Placed, WriteDoes, WaitingFor
    <3>2. ASSUME NEW g \in Fds, r.fds[g].open PROVE r.fds[g].off <= Len(m2[r.fds[g].obj])
      <4>1. r.fds[g] = t.fds[g] /\ t.fds[g].off \in Nat /\ t.fds[g].obj \in Objs
        BY <1>1, <3>2, CacheAssumption DEF Safe, Typed, WriteDoes, Calling, Descriptor
      <4>2. t.fds[g].off <= Len(m[t.fds[g].obj])
        BY <3>2, <4>1 DEF Safe, Placed
      <4>3. CASE t.fds[g].obj = obj
        BY <1>2, <1>3, <1>4, <4>1, <4>2, <4>3
      <4>4. CASE t.fds[g].obj # obj
        BY <1>3, <4>1, <4>2, <4>4
      <4> QED BY <4>3, <4>4
    <3> QED BY <3>1, <3>2 DEF Safe, Placed, WriteDoes
  <2> QED BY <2>2, <2>3, <2>4, <2>5, <2>6 DEF Safe
<1>7. r.disk = t.disk \/ r.disk = [t.disk EXCEPT ![obj] = put]
  BY DEF WriteDoes, put
<1> QED BY <1>5, <1>6, <1>7 DEF put, m2

\* Into the page that waits for the object of the descriptor.
StoreDoes(t, r, s, data) ==
    /\ r \in Calling
    /\ r.c = [t.c EXCEPT ![s] = [@ EXCEPT !.data = data]]
    /\ r.older = t.older /\ r.disk = t.disk /\ r.lost = t.lost /\ r.ok = t.ok /\ r.fds = t.fds

\* Bytes put into a page change no other page.
LEMMA StoreIs ==
    ASSUME NEW t \in Calling, NEW s \in Slots, NEW data \in Seq(Nat)
    PROVE  StoreDoes(t, [t EXCEPT !.c[s].data = data], s, data)
<1> DEFINE c2 == [t.c EXCEPT ![s] = [@ EXCEPT !.data = data]]
<1>1. c2 \in [Slots -> CachePage]
  <2>1. t.c[s] \in CachePage
    BY DEF Calling
  <2>2. [t.c[s] EXCEPT !.data = data] \in CachePage
    BY <2>1 DEF CachePage
  <2> QED BY <2>2 DEF Calling
<1>2. [t EXCEPT !.c[s].data = data] = [t EXCEPT !.c = c2]
  OBVIOUS
<1> HIDE DEF c2
<1>3. LET r == [t EXCEPT !.c = c2] IN
      /\ r \in Calling /\ r.c = c2
      /\ r.older = t.older /\ r.disk = t.disk /\ r.lost = t.lost /\ r.ok = t.ok /\ r.fds = t.fds
  BY <1>1 DEF Calling
<1> QED BY <1>2, <1>3 DEF StoreDoes, c2

\* Bytes that go to a page with room for them show where they were written.
LEMMA StoreSafe ==
    ASSUME NEW t, NEW m \in [Objs -> Seq(Nat) \cup {None}], Safe(t, m), t.lost = {},
           NEW obj \in Objs, t.disk[obj] # None, NEW s \in WaitingFor(t.c, obj),
           NEW offset \in Nat, t.c[s].offset <= offset,
           offset <= t.c[s].offset + Len(t.c[s].data),
           NEW data \in Seq(Nat), offset + Len(data) <= MaxLen,
           NEW r, StoreDoes(t, r, s, Put(t.c[s].data, offset - t.c[s].offset, data))
    PROVE  /\ Safe(r, Written(m, obj, offset, data))
           /\ OnlyDrops(t.c, r.c)
<1> DEFINE b == t.disk[obj]
           at == t.c[s].offset
           d == t.c[s].data
           e == Put(d, offset - at, data)
           put == Put(m[obj], offset, data)
           m2 == Written(m, obj, offset, data)
<1>1. /\ t \in Calling /\ r \in Calling /\ b \in Seq(Nat) /\ at \in Nat /\ d \in Seq(Nat)
      /\ s \in Slots /\ t.c[s].kind = "write" /\ t.c[s].obj = obj
      /\ offset - at \in Nat /\ at <= Len(b) /\ at <= offset /\ offset <= at + Len(d)
  <2>1. t \in Calling /\ r \in Calling /\ s \in Slots /\ t.c[s].kind = "write" /\ t.c[s].obj = obj
    BY DEF Safe, Typed, StoreDoes, WaitingFor
  <2>2. b \in Seq(Nat) /\ t.c[s] \in CachePage
    BY <2>1 DEF Calling
  <2>3. at \in Nat /\ d \in Seq(Nat)
    BY <2>2 DEF CachePage
  <2>4. at <= Len(b)
    BY <2>1 DEF Safe, Placed
  <2> QED BY <2>1, <2>2, <2>3, <2>4
<1>2. m[obj] = Put(b, at, d)
  <2>1. View(t.c, t.disk, obj) = Put(b, at, d)
    BY ViewWaiting, Zenon DEF Safe
  <2>2. View(t.c, t.disk, obj) = m[obj]
    BY Zenon DEF Safe, Shows
  <2> QED BY <2>1, <2>2
<1>3. put = Put(b, at, e)
  <2>1. Put(Put(b, at, d), offset, data) = Put(b, at, e)
    <3> HIDE DEF b, at, d
    <3> QED BY <1>1, PutTwice
  <2> QED BY <1>2, <2>1
<1>4. m[obj] \in Seq(Nat) /\ Len(m[obj]) \in Nat /\ Len(put) \in Nat /\ Len(put) >= Len(m[obj])
  <2>1. m[obj] \in Seq(Nat) /\ Len(m[obj]) \in Nat
    BY <1>1, <1>2, PutLonger
  <2> QED BY <2>1, PutLonger
<1>5. e \in Seq(Nat) /\ at + Len(e) <= MaxLen
  <2>1. at + Len(d) <= MaxLen
    BY <1>1 DEF Safe, Short
  <2>2. /\ e \in Seq(Nat) /\ Len(e) \in Nat /\ Len(d) \in Nat /\ Len(data) \in Nat
        /\ Len(e) = Len(d) \/ Len(e) = (offset - at) + Len(data)
    BY <1>1, PutLonger
  <2>3. at \in Nat /\ MaxLen \in Nat /\ offset + Len(data) <= MaxLen
    BY <1>1, CacheAssumption
  <2> HIDE DEF e, at, d
  <2>4. at + ((offset - at) + Len(data)) <= MaxLen
    BY <2>2, <2>3
  <2> QED BY <2>1, <2>2, <2>4
<1>6. m2[obj] = put /\ \A o \in Objs \ {obj} : m2[o] = m[o]
  BY DEF Written
<1> HIDE DEF e, put, m2
<1>7. \A x \in Slots : /\ x # s => r.c[x] = t.c[x]
                       /\ r.c[s] = [t.c[s] EXCEPT !.data = e]
  <2>1. r.c = [t.c EXCEPT ![s] = [t.c[s] EXCEPT !.data = e]]
    BY DEF StoreDoes, e
  <2> QED BY <1>1, <2>1 DEF Calling
<1>8. /\ r.c[s].kind = "write" /\ r.c[s].obj = obj /\ r.c[s].offset = at /\ r.c[s].data = e
  <2>1. t.c[s] \in CachePage /\ r.c[s] = [t.c[s] EXCEPT !.data = e]
    BY <1>1, <1>7 DEF Calling
  <2> QED BY <1>1, <2>1 DEF CachePage
<1>9. \A x \in Slots : r.c[x].kind = t.c[x].kind /\ r.c[x].obj = t.c[x].obj
                       /\ r.c[x].offset = t.c[x].offset
  BY <1>1, <1>7, <1>8
<1>10. /\ \A o : WaitingFor(r.c, o) = WaitingFor(t.c, o)
       /\ Copies(r.c) = Copies(t.c)
       /\ \A x \in Copies(r.c) : x # s /\ r.c[x] = t.c[x]
  BY <1>1, <1>7, <1>9 DEF WaitingFor, Copies
<1>11. Typed(r)
  <2>1. Ages(r.c, r.older)
    BY <1>10 DEF Safe, Typed, Ages, StoreDoes
  <2>2. \A x \in Copies(r.c) : r.c[x].pix \in Pix
    BY <1>10 DEF Safe, Typed
  <2>3. \A x \in Slots : r.c[x].kind = "write" => r.c[x].obj \in Objs
    BY <1>9 DEF Safe, Typed
  <2>4. \A g \in Fds : r.fds[g].open => r.fds[g].obj \in Objs /\ r.disk[r.fds[g].obj] # None
    BY DEF Safe, Typed, StoreDoes
  <2> QED BY <1>1, <2>1, <2>2, <2>3, <2>4 DEF Typed
<1>12. Short(r)
  <2>1. ASSUME NEW x \in Slots, r.c[x].kind = "write"
        PROVE  r.c[x].offset + Len(r.c[x].data) <= MaxLen
    <3>1. CASE x = s
      BY <1>5, <1>8, <3>1
    <3>2. CASE x # s
      BY <1>7, <2>1, <3>2 DEF Safe, Short
    <3> QED BY <3>1, <3>2
  <2> QED BY <2>1 DEF Safe, Short, StoreDoes
<1>13. Tied(r)
  <2>1. \A x, y \in Slots : (/\ r.c[x].kind = "write" /\ r.c[y].kind = "write"
                             /\ r.c[x].obj = r.c[y].obj) => x = y
    BY <1>9 DEF Safe, Tied
  <2>2. ASSUME NEW x \in Slots, r.c[x].kind = "write"
        PROVE  \E g \in Fds : r.fds[g].open /\ r.fds[g].obj = r.c[x].obj
    BY <1>9, <2>2 DEF Safe, Tied, StoreDoes
  <2>3. ASSUME NEW g \in Fds, r.fds[g].open, r.fds[g].page # None
        PROVE  r.fds[g].page \in WaitingFor(r.c, r.fds[g].obj)
    <3>1. r.fds = t.fds
      BY DEF StoreDoes
    <3>2. t.fds[g].page \in WaitingFor(t.c, t.fds[g].obj)
      BY <2>3, <3>1 DEF Safe, Tied
    <3> QED BY <1>10, <3>1, <3>2
  <2> QED BY <2>1, <2>2, <2>3 DEF Tied
<1>14. Shows(r, m2)
  <2> SUFFICES ASSUME NEW o \in Objs, r.disk[o] # None PROVE View(r.c, r.disk, o) = m2[o]
    BY DEF Shows
  <2>1. CASE o = obj
    <3>1. View(r.c, r.disk, obj) = Put(r.disk[obj], r.c[s].offset, r.c[s].data)
      <4>1. s \in WaitingFor(r.c, obj)
        BY <1>10
      <4> QED BY <1>11, <1>13, <4>1, ViewWaiting, Zenon
    <3> QED BY <1>3, <1>6, <1>8, <2>1, <3>1 DEF StoreDoes
  <2>2. CASE o # obj
    <3>1. \A x \in WaitingFor(t.c, o) : r.c[x] = t.c[x]
      BY <1>1, <1>7, <2>2 DEF WaitingFor
    <3>2. r.disk[o] = t.disk[o]
      BY DEF StoreDoes
    <3>3. View(r.c, r.disk, o) = View(t.c, t.disk, o)
      BY <1>10, <3>1, <3>2, ViewStill
    <3> QED BY <1>6, <2>2, <3>2, <3>3 DEF Safe, Shows
  <2> QED BY <2>1, <2>2
<1>15. Placed(r, m2)
  <2>1. ASSUME NEW x \in Slots, r.c[x].kind = "write"
        PROVE  r.c[x].offset <= Len(r.disk[r.c[x].obj])
    BY <1>9, <2>1 DEF Safe, Placed, StoreDoes
  <2>2. ASSUME NEW g \in Fds, r.fds[g].open PROVE r.fds[g].off <= Len(m2[r.fds[g].obj])
    <3>1. r.fds[g] = t.fds[g] /\ t.fds[g].off \in Nat /\ t.fds[g].obj \in Objs
      BY <1>1, <2>2, CacheAssumption DEF Safe, Typed, StoreDoes, Calling, Descriptor
    <3>2. t.fds[g].off <= Len(m[t.fds[g].obj])
      BY <2>2, <3>1 DEF Safe, Placed
    <3>3. CASE t.fds[g].obj = obj
      BY <1>4, <1>6, <3>1, <3>2, <3>3
    <3>4. CASE t.fds[g].obj # obj
      BY <1>6, <3>1, <3>2, <3>4
    <3> QED BY <3>3, <3>4
  <2> QED BY <2>1, <2>2 DEF Safe, Placed, StoreDoes
<1> QED BY <1>10, <1>11, <1>12, <1>13, <1>14, <1>15 DEF Safe, OnlyDrops, m2

\* A descriptor without a page gets one, if there is one to get.
Gets(t, r, f, offset) ==
    LET obj == t.fds[f].obj
        s == r.fds[f].page
    IN /\ r.lost = t.lost /\ r.ok = t.ok /\ r.disk = t.disk
       /\ r.fds[f] = [t.fds[f] EXCEPT !.page = s]
       /\ \/ s = None /\ WaitingFor(r.c, obj) = {}
          \/ s # None /\ s \in WaitingFor(r.c, obj) /\ r.c[s].offset = offset /\ r.c[s].data = <<>>

\* A page is taken from no one that waits, and its descriptor is the one to know it.
LEMMA AllocatedSafe ==
    ASSUME NEW t, NEW m, Safe(t, m), t.lost = {}, NEW f \in Fds, t.fds[f].open,
           t.fds[f].page = None, WaitingFor(t.c, t.fds[f].obj) = {},
           NEW offset \in 0 .. MaxLen, offset <= Len(t.disk[t.fds[f].obj]), NEW kept \in BOOLEAN
    PROVE  LET r == Allocated(t, f, offset, kept) IN
           /\ Safe(r, m)
           /\ OnlyDrops(t.c, r.c)
           /\ Gets(t, r, f, offset)
<1> DEFINE obj == t.fds[f].obj
           victims == IF kept /\ Cardinality(Copies(t.c)) = 1 THEN {} ELSE Oldest(t.c, t.older)
           c == Freed(t.c, victims)
           o == Forgot(t.older, victims)
           s == First(FreeSlots(c))
           r == Allocated(t, f, offset, kept)
<1>1. /\ t \in Calling /\ Ages(t.c, t.older) /\ obj \in Objs /\ t.disk[obj] \in Seq(Nat)
      /\ t.disk[obj] # None /\ offset \in Nat
  BY CacheAssumption DEF Safe, Typed, Calling
<1>2. victims \subseteq Copies(t.c) /\ victims \in SUBSET Slots
  BY DEF Oldest, Copies
<1>3. /\ c \in [Slots -> CachePage] /\ o \in [Slots -> SUBSET Slots]
      /\ Copies(c) = Copies(t.c) \ victims
      /\ \A x \in Slots \ victims : c[x] = t.c[x]
      /\ \A x \in victims : c[x] = Free
      /\ Ages(c, o)
  <2>1. t.c \in [Slots -> CachePage] /\ t.older \in [Slots -> SUBSET Slots]
    BY <1>1 DEF Calling
  <2>2. \A x \in victims : c[x] = Free
    BY <1>2 DEF Freed
  <2> QED BY <1>1, <1>2, <2>1, <2>2, FreedAges
<1>4. r = IF FreeSlots(c) = {} THEN [t EXCEPT !.fds[f].page = None]
          ELSE [t EXCEPT !.c = [c EXCEPT ![s] = Waiting(obj, offset)],
                         !.older = o, !.fds[f].page = s]
  BY <1>1 DEF Allocated, Calling
<1> HIDE DEF victims, c, o, r
<1>5. CASE FreeSlots(c) = {}
  <2>1. Knows(t, r, f, None)
    BY <1>1, <1>4, <1>5, KnowIs
  <2>2. Safe(r, m)
    BY <2>1, KnowSafe
  <2>3. r.fds[f].page = None /\ r.fds[f] = [t.fds[f] EXCEPT !.page = None]
    BY <1>1, <2>1 DEF Knows, Calling, Descriptor
  <2> QED BY <2>1, <2>2, <2>3 DEF Knows, OnlyDrops, Gets, r
<1>6. CASE FreeSlots(c) # {}
  <2>1. s \in Slots /\ c[s].kind = "free" /\ s # None
    <3>1. FreeSlots(c) \in SUBSET Slots
      BY DEF FreeSlots
    <3>2. s \in FreeSlots(c)
      BY <1>6, <3>1, FirstIsIn
    <3> QED BY <3>2, CacheAssumption DEF FreeSlots
  <2> DEFINE w == Waiting(obj, offset)
             c2 == [c EXCEPT ![s] = w]
             fd == [t.fds[f] EXCEPT !.page = s]
             fds2 == [t.fds EXCEPT ![f] = fd]
  <2>2. /\ w \in CachePage /\ w.kind = "write" /\ w.obj = obj /\ w.offset = offset
        /\ w.data = <<>>
    BY <1>1, EmptySeq DEF Waiting, Free, CachePage
  <2>3. r = [t EXCEPT !.c = c2, !.older = o, !.fds = fds2]
    BY <1>4, <1>6
  <2> HIDE DEF w, s
  <2>4. c2 \in [Slots -> CachePage] /\ \A x \in Slots : c2[x] = IF x = s THEN w ELSE c[x]
    BY <1>3, <2>1, <2>2
  <2>5. fd \in Descriptor /\ t.fds[f] \in Descriptor
    BY <1>1, <2>1 DEF Calling, Descriptor
  <2>6. fds2 \in [Fds -> Descriptor] /\ \A g \in Fds : fds2[g] = IF g = f THEN fd ELSE t.fds[g]
    BY <1>1, <2>5 DEF Calling
  <2> HIDE DEF c2, fds2
  <2>7. /\ r \in Calling
        /\ r.c = c2 /\ r.older = o /\ r.fds = fds2
        /\ r.disk = t.disk /\ r.lost = t.lost /\ r.ok = t.ok
    BY <1>1, <1>3, <2>3, <2>4, <2>6 DEF Calling
  <2>8. \A g \in Fds : /\ r.fds[g].open <=> t.fds[g].open
                       /\ r.fds[g].obj = t.fds[g].obj /\ r.fds[g].off = t.fds[g].off
                       /\ r.fds[g].page = IF g = f THEN s ELSE t.fds[g].page
    BY <2>5, <2>6, <2>7 DEF Descriptor
  <2>9. \A x \in Slots : r.c[x].kind = "write" => r.c[x] = IF x = s THEN w ELSE t.c[x]
    <3>1. Free.kind # "write"
      BY DEF Free
    <3> QED BY <1>3, <2>4, <2>7, <3>1
  <2>10. /\ Copies(r.c) = Copies(c)
         /\ \A x \in Copies(r.c) : x \in Copies(t.c) /\ r.c[x] = t.c[x]
    <3>1. \A x \in Copies(c) : x \in Copies(t.c) /\ x \in Slots /\ x # s /\ c[x] = t.c[x]
      BY <1>3, <2>1 DEF Copies
    <3>2. Copies(r.c) = Copies(c)
      BY <2>1, <2>2, <2>4, <2>7 DEF Copies
    <3> QED BY <2>4, <2>7, <3>1, <3>2
  <2>11. \A x \in Slots : t.c[x].kind = "write" => r.c[x] = t.c[x]
    BY <1>2, <1>3, <2>1, <2>4, <2>7 DEF Copies
  <2>12. WaitingFor(r.c, obj) = {s}
    <3>1. \A x \in Slots : ~(t.c[x].kind = "write" /\ t.c[x].obj = obj)
      BY DEF WaitingFor
    <3>2. r.c[s] = w
      BY <2>1, <2>4, <2>7
    <3> QED BY <2>1, <2>2, <2>9, <3>1, <3>2 DEF WaitingFor
  <2>13. \A p \in Objs : p # obj => WaitingFor(r.c, p) = WaitingFor(t.c, p)
    <3>1. ASSUME NEW p \in Objs, p # obj, NEW x \in Slots
          PROVE  x \in WaitingFor(r.c, p) <=> x \in WaitingFor(t.c, p)
      BY <2>2, <2>9, <2>11, <3>1 DEF WaitingFor
    <3>2. \A p : WaitingFor(r.c, p) \subseteq Slots /\ WaitingFor(t.c, p) \subseteq Slots
      BY DEF WaitingFor
    <3> QED BY <3>1, <3>2
  <2>14. Typed(r)
    <3>1. Ages(r.c, r.older)
      BY <1>3, <2>7, <2>10 DEF Ages
    <3>2. \A x \in Copies(r.c) : r.c[x].pix \in Pix
      BY <2>10 DEF Safe, Typed
    <3>3. \A x \in Slots : r.c[x].kind = "write" => r.c[x].obj \in Objs
      BY <1>1, <2>2, <2>9 DEF Safe, Typed
    <3>4. \A g \in Fds : r.fds[g].open => r.fds[g].obj \in Objs /\ r.disk[r.fds[g].obj] # None
      BY <2>7, <2>8 DEF Safe, Typed
    <3> QED BY <2>7, <3>1, <3>2, <3>3, <3>4 DEF Typed
  <2>15. Short(r)
    <3>1. ASSUME NEW x \in Slots, r.c[x].kind = "write"
          PROVE  r.c[x].offset + Len(r.c[x].data) <= MaxLen
      <4>1. CASE x = s
        BY <1>1, <2>2, <2>9, <3>1, <4>1, EmptySeq, CacheAssumption
      <4>2. CASE x # s
        BY <2>9, <3>1, <4>2 DEF Safe, Short
      <4> QED BY <4>1, <4>2
    <3> QED BY <2>7, <3>1 DEF Safe, Short
  <2>16. Tied(r)
    <3>1. ASSUME NEW x \in Slots, NEW y \in Slots, r.c[x].kind = "write", r.c[y].kind = "write",
                 r.c[x].obj = r.c[y].obj
          PROVE  x = y
      <4>1. CASE r.c[x].obj = obj
        <5>1. x \in WaitingFor(r.c, obj) /\ y \in WaitingFor(r.c, obj)
          BY <3>1, <4>1 DEF WaitingFor
        <5> QED BY <2>12, <5>1
      <4>2. CASE r.c[x].obj # obj
        <5>1. x # s /\ y # s
          BY <2>2, <2>9, <3>1, <4>2
        <5>2. r.c[x] = t.c[x] /\ r.c[y] = t.c[y]
          BY <2>9, <3>1, <5>1
        <5> QED BY <3>1, <5>2 DEF Safe, Tied
      <4> QED BY <4>1, <4>2
    <3>2. ASSUME NEW x \in Slots, r.c[x].kind = "write"
          PROVE  \E g \in Fds : r.fds[g].open /\ r.fds[g].obj = r.c[x].obj
      <4>1. CASE x = s
        BY <2>2, <2>8, <2>9, <3>2, <4>1
      <4>2. CASE x # s
        BY <2>8, <2>9, <3>2, <4>2 DEF Safe, Tied
      <4> QED BY <4>1, <4>2
    <3>3. ASSUME NEW g \in Fds, r.fds[g].open, r.fds[g].page # None
          PROVE  r.fds[g].page \in WaitingFor(r.c, r.fds[g].obj)
      <4>1. CASE g = f
        BY <2>8, <2>12, <4>1
      <4>2. CASE g # f
        <5>1. t.fds[g].page \in WaitingFor(t.c, t.fds[g].obj) /\ t.fds[g].obj \in Objs
          BY <2>8, <3>3, <4>2 DEF Safe, Tied, Typed
        <5>2. t.fds[g].obj # obj
          BY <5>1
        <5> QED BY <2>8, <2>13, <4>2, <5>1, <5>2
      <4> QED BY <4>1, <4>2
    <3> QED BY <3>1, <3>2, <3>3 DEF Tied
  <2>17. Shows(r, m)
    <3> SUFFICES ASSUME NEW p \in Objs, r.disk[p] # None PROVE View(r.c, r.disk, p) = m[p]
      BY DEF Shows
    <3>1. View(t.c, t.disk, p) = m[p]
      BY <2>7 DEF Safe, Shows
    <3>2. CASE p = obj
      <4>1. View(t.c, t.disk, obj) = t.disk[obj]
        BY DEF View
      <4>2. s \in WaitingFor(r.c, obj) /\ r.c[s] = w
        BY <2>1, <2>4, <2>7, <2>12
      <4>3. View(r.c, r.disk, obj) = Put(r.disk[obj], r.c[s].offset, r.c[s].data)
        <5>1. obj \in Objs /\ s \in WaitingFor(r.c, obj)
          BY <1>1, <4>2
        <5> HIDE DEF obj
        <5> QED BY <2>14, <2>16, <5>1, ViewWaiting
      <4>4. Put(t.disk[obj], offset, <<>>) = t.disk[obj]
        BY <1>1, PutNothing
      <4> QED BY <2>2, <2>7, <3>1, <3>2, <4>1, <4>2, <4>3, <4>4
    <3>3. CASE p # obj
      <4>1. WaitingFor(r.c, p) = WaitingFor(t.c, p) /\ r.disk[p] = t.disk[p]
        BY <2>7, <2>13, <3>3
      <4>2. \A x \in WaitingFor(t.c, p) : r.c[x] = t.c[x]
        BY <2>11 DEF WaitingFor
      <4> QED BY <3>1, <4>1, <4>2, ViewStill
    <3> QED BY <3>2, <3>3
  <2>18. Placed(r, m)
    <3>1. ASSUME NEW x \in Slots, r.c[x].kind = "write"
          PROVE  r.c[x].offset <= Len(r.disk[r.c[x].obj])
      <4>1. CASE x = s
        BY <2>2, <2>7, <2>9, <3>1, <4>1
      <4>2. CASE x # s
        BY <2>7, <2>9, <3>1, <4>2 DEF Safe, Placed
      <4> QED BY <4>1, <4>2
    <3>2. \A g \in Fds : r.fds[g].open => r.fds[g].off <= Len(m[r.fds[g].obj])
      BY <2>8 DEF Safe, Placed
    <3>3. \A g \in Fds : ~r.fds[g].open => r.fds[g].page = None
      BY <2>8 DEF Safe, Placed
    <3> QED BY <3>1, <3>2, <3>3 DEF Placed
  <2>19. Gets(t, r, f, offset)
    <3>1. r.fds[f].page = s /\ r.fds[f] = [t.fds[f] EXCEPT !.page = s]
      <4>1. r.fds[f] = fd
        BY <2>6, <2>7
      <4> QED BY <2>8, <4>1
    <3>2. r.c[s] = w
      BY <2>1, <2>4, <2>7
    <3> QED BY <2>1, <2>2, <2>7, <2>12, <3>1, <3>2 DEF Gets
  <2> QED BY <2>10, <2>14, <2>15, <2>16, <2>17, <2>18, <2>19 DEF Safe, OnlyDrops, r
<1> QED BY <1>5, <1>6

-----------------------------------------------------------------------------
\* The invariant of the specification, and the accesses to pages.

IInv == /\ flash \in [Pix -> SUBSET Bits]
        /\ meant \in [Objs -> Seq(Nat) \cup {None}]
        /\ leaving \in BOOLEAN
        /\ Safe(This, meant)
        /\ Coherent

\* Only the copies differ: what waits is as safe as before.
SameWaiting(t, r) ==
    /\ r \in Calling
    /\ r.disk = t.disk /\ r.fds = t.fds /\ r.lost = t.lost
    /\ Ages(r.c, r.older)
    /\ \A s \in Copies(r.c) : r.c[s].pix \in Pix
    /\ \A s \in Slots : t.c[s].kind = "write" \/ r.c[s].kind = "write" => r.c[s] = t.c[s]

\* Copies may come, go and age.
LEMMA CopiesSafe ==
    ASSUME NEW t, NEW m, Safe(t, m), NEW r, SameWaiting(t, r)
    PROVE  Safe(r, m)
<1>1. \A o : WaitingFor(r.c, o) = WaitingFor(t.c, o)
  BY DEF SameWaiting, WaitingFor
<1>2. \A s \in Slots : r.c[s].kind = "write" => t.c[s].kind = "write" /\ r.c[s] = t.c[s]
  BY DEF SameWaiting
<1>3. Typed(r)
  BY <1>2 DEF SameWaiting, Safe, Typed
<1>4. Short(r)
  BY <1>2 DEF SameWaiting, Safe, Short
<1>5. Tied(r)
  BY <1>1, <1>2 DEF SameWaiting, Safe, Tied
<1>6. Shows(r, m)
  <2> SUFFICES ASSUME NEW o \in Objs \ r.lost, r.disk[o] # None
               PROVE  View(r.c, r.disk, o) = m[o]
    BY DEF Shows
  <2>1. r.disk[o] = t.disk[o] /\ r.lost = t.lost
    BY DEF SameWaiting
  <2>2. \A s \in WaitingFor(t.c, o) : r.c[s] = t.c[s]
    BY DEF SameWaiting, WaitingFor
  <2>3. View(r.c, r.disk, o) = View(t.c, t.disk, o)
    BY <1>1, <2>1, <2>2, ViewStill
  <2> QED BY <2>1, <2>3 DEF Safe, Shows
<1>7. r.lost = {} => Placed(r, m)
  BY <1>2 DEF SameWaiting, Safe, Placed
<1> QED BY <1>3, <1>4, <1>5, <1>6, <1>7 DEF Safe

\* The invariant after an access to pages: its copies, their order and the flash.
LEMMA PagesKeep ==
    ASSUME IInv, UNCHANGED fileVars, flash' \in [Pix -> SUBSET Bits],
           cpages' \in [Slots -> CachePage], older' \in [Slots -> SUBSET Slots],
           Ages(cpages', older'), \A s \in Copies(cpages') : cpages'[s].pix \in Pix,
           \A s \in Slots : cpages[s].kind = "write" \/ cpages'[s].kind = "write" =>
              cpages'[s] = cpages[s],
           Coherent'
    PROVE  IInv'
<1> DEFINE r == [c |-> cpages', older |-> older', disk |-> disk, fds |-> fds, lost |-> lost,
                 ok |-> TRUE]
<1>1. This \in Calling
  BY DEF IInv, Safe, Typed
<1>2. r \in Calling
  BY <1>1 DEF This, Calling
<1>3. SameWaiting(This, r)
  BY <1>2 DEF SameWaiting, This
<1>4. Safe(r, meant)
  BY <1>3, CopiesSafe DEF IInv
<1>5. This' = r /\ meant' = meant /\ leaving' = leaving
  BY DEF This, fileVars
<1>6. Safe(This', meant')
  BY <1>4, <1>5
<1> QED BY <1>5, <1>6 DEF IInv

\* What IInv says of the copies.
LEMMA CopyFacts ==
    ASSUME IInv
    PROVE  /\ cpages \in [Slots -> CachePage] /\ older \in [Slots -> SUBSET Slots]
           /\ Ages(cpages, older)
           /\ \A s \in Copies(cpages) : s \in Slots /\ cpages[s].kind = "read" /\ cpages[s].pix \in Pix
           /\ \A s \in Slots : cpages[s].kind = "write" => s \notin Copies(cpages)
  BY DEF IInv, Safe, Typed, Calling, This, Copies

\* A read of a page keeps the invariant.
LEMMA PhysRdStep == ASSUME IInv, NEW p \in Pix, PhysRd(p) PROVE IInv'
<1> DEFINE hit == CopiesOf(cpages, p)
           victims == Oldest(cpages, older)
           room == Freed(cpages, victims)
           o == Forgot(older, victims)
           s == First(FreeSlots(room))
<1>1. hit \in SUBSET Slots /\ victims \in SUBSET Slots /\ victims \subseteq Copies(cpages)
  BY DEF CopiesOf, Copies, Oldest
<1>2. flash' = flash /\ UNCHANGED fileVars
  BY DEF PhysRd
<1>3. CASE hit # {} /\ older' = Touched(cpages, older, First(hit)) /\ cpages' = cpages
  <2>1. First(hit) \in hit
    BY <1>1, <1>3, FirstIsIn
  <2>2. First(hit) \in Slots /\ Copies(cpages) = Copies(cpages) \cup {First(hit)}
    BY <2>1 DEF CopiesOf, Copies
  <2>3. older' \in [Slots -> SUBSET Slots] /\ Ages(cpages, older')
    BY <1>3, <2>2, CopyFacts, TouchedAges
  <2>4. Coherent'
    BY <1>2, <1>3 DEF IInv, Coherent
  <2> QED BY <1>2, <1>3, <2>3, <2>4, CopyFacts, PagesKeep DEF IInv
<1>4. CASE /\ hit = {} /\ FreeSlots(room) # {}
           /\ cpages' = [room EXCEPT ![s] = Copy(p, flash[p])]
           /\ older' = Touched(room, o, s)
  <2>1. /\ room \in [Slots -> CachePage] /\ o \in [Slots -> SUBSET Slots]
        /\ Copies(room) = Copies(cpages) \ victims
        /\ \A x \in Slots \ victims : room[x] = cpages[x]
        /\ Ages(room, o)
    BY <1>1, CopyFacts, FreedAges
  <2>2. \A x \in victims : room[x].kind = "free"
    BY <1>1 DEF Freed, Free
  <2> HIDE DEF room, o
  <2>3. s \in Slots /\ room[s].kind = "free"
    <3>1. FreeSlots(room) \in SUBSET Slots
      BY DEF FreeSlots
    <3>2. s \in FreeSlots(room)
      BY <1>4, <3>1, FirstIsIn
    <3> QED BY <3>2 DEF FreeSlots
  <2> DEFINE new == Copy(p, flash[p])
  <2>4. new \in CachePage /\ new.kind = "read" /\ new.pix = p /\ new.copy = flash[p]
    BY EmptySeq DEF IInv, Copy, Free, CachePage
  <2> HIDE DEF new, s
  <2>5. cpages' \in [Slots -> CachePage] /\ \A x \in Slots : cpages'[x] = IF x = s THEN new ELSE room[x]
    BY <1>4, <2>1, <2>3, <2>4 DEF new
  <2>6. Copies(cpages') = Copies(room) \cup {s}
    BY <2>3, <2>4, <2>5 DEF Copies
  <2>7. older' \in [Slots -> SUBSET Slots] /\ Ages(cpages', older')
    BY <1>4, <2>1, <2>3, <2>6, TouchedAges
  <2>8. ASSUME NEW x \in Copies(cpages'), x # s
        PROVE  x \in Copies(cpages) /\ cpages'[x] = cpages[x]
    <3>1. x \in Copies(room) /\ x \in Slots
      BY <2>6, <2>8 DEF Copies
    <3>2. x \in Copies(cpages) /\ x \notin victims
      BY <2>1, <3>1
    <3> QED BY <2>1, <2>5, <2>8, <3>1, <3>2
  <2>9. \A x \in Copies(cpages') : cpages'[x].pix \in Pix
    BY <2>3, <2>4, <2>5, <2>8, CopyFacts
  <2>10. \A x \in Slots : cpages[x].kind = "write" \/ cpages'[x].kind = "write" =>
            cpages'[x] = cpages[x]
    <3>1. \A x \in Slots : cpages[x].kind = "write" => x \notin victims
      BY <1>1, CopyFacts
    <3> QED BY <2>1, <2>2, <2>3, <2>4, <2>5, <3>1
  <2>11. Coherent'
    <3>1. \A x \in Copies(cpages) : cpages[x].pix # p
      BY <1>4 DEF CopiesOf
    <3>2. ASSUME NEW x \in Slots, NEW y \in Slots, cpages'[x].kind = "read"
          PROVE  /\ cpages'[x].copy = flash'[cpages'[x].pix]
                 /\ (cpages'[y].kind = "read" /\ cpages'[y].pix = cpages'[x].pix) => x = y
      BY <1>2, <2>3, <2>4, <2>5, <2>8, <3>1, <3>2 DEF IInv, Coherent, Copies
    <3> QED BY <3>2 DEF Coherent
  <2> QED BY <1>2, <2>5, <2>7, <2>9, <2>10, <2>11, PagesKeep DEF IInv
<1> QED BY <1>3, <1>4 DEF PhysRd

\* A write of a page keeps it: the copy takes what the flash does.
LEMMA PhysWrStep ==
    ASSUME IInv, NEW p \in Pix, NEW v \in SUBSET Bits, PhysWr(p, v) PROVE IInv'
<1> DEFINE hit == CopiesOf(cpages, p)
           s == First(hit)
<1>1. hit \in SUBSET Slots /\ hit \subseteq Copies(cpages)
  BY DEF CopiesOf, Copies
<1>2. /\ flash' \in [Pix -> SUBSET Bits] /\ UNCHANGED fileVars
      /\ flash'[p] = v /\ \A q \in Pix \ {p} : flash'[q] = flash[q]
  BY DEF PhysWr, IInv
<1>3. \A x, y \in Slots : cpages[x].kind = "read" =>
         /\ cpages[x].copy = flash[cpages[x].pix]
         /\ (cpages[y].kind = "read" /\ cpages[y].pix = cpages[x].pix) => x = y
  BY DEF IInv, Coherent
<1>4. CASE hit = {}
  <2>1. cpages' = cpages /\ older' = older
    BY <1>4 DEF PhysWr
  <2>2. Coherent'
    <3>1. ASSUME NEW x \in Slots, cpages[x].kind = "read"
          PROVE  cpages[x].pix \in Pix \ {p}
      BY <1>4, <3>1, CopyFacts DEF CopiesOf, Copies
    <3> QED BY <1>2, <1>3, <2>1, <3>1 DEF Coherent
  <2> QED BY <1>2, <2>1, <2>2, CopyFacts, PagesKeep
<1>5. CASE hit # {}
  <2>1. s \in Slots /\ cpages[s].kind = "read" /\ cpages[s].pix = p /\ s \in Copies(cpages)
    <3>1. s \in hit
      BY <1>1, <1>5, FirstIsIn
    <3> QED BY <3>1 DEF CopiesOf, Copies
  <2>2. cpages' = [cpages EXCEPT ![s].copy = v] /\ older' = Touched(cpages, older, s)
    BY <1>5 DEF PhysWr
  <2> HIDE DEF s
  <2>3. /\ cpages' \in [Slots -> CachePage] /\ \A x \in Slots \ {s} : cpages'[x] = cpages[x]
        /\ cpages'[s].kind = "read" /\ cpages'[s].pix = p /\ cpages'[s].copy = v
    BY <2>1, <2>2, CopyFacts DEF CachePage
  <2>4. Copies(cpages') = Copies(cpages) \cup {s}
    BY <2>1, <2>3 DEF Copies
  <2>5. older' \in [Slots -> SUBSET Slots] /\ Ages(cpages', older')
    BY <2>1, <2>2, <2>4, CopyFacts, TouchedAges
  <2>6. ASSUME NEW x \in Slots, x # s, cpages'[x].kind = "read"
        PROVE  cpages'[x] = cpages[x] /\ cpages[x].pix \in Pix \ {p}
    <3>1. cpages'[x] = cpages[x] /\ x \in Copies(cpages)
      BY <2>3, <2>6 DEF Copies
    <3> QED BY <1>3, <2>1, <2>6, <3>1, CopyFacts
  <2>7. \A x \in Copies(cpages') : cpages'[x].pix \in Pix
    BY <2>3, <2>6 DEF Copies
  <2>8. Coherent'
    <3>1. ASSUME NEW x \in Slots, NEW y \in Slots, cpages'[x].kind = "read"
          PROVE  /\ cpages'[x].copy = flash'[cpages'[x].pix]
                 /\ (cpages'[y].kind = "read" /\ cpages'[y].pix = cpages'[x].pix) => x = y
      BY <1>2, <1>3, <2>3, <2>6, <3>1
    <3> QED BY <3>1 DEF Coherent
  <2>9. \A x \in Slots : cpages[x].kind = "write" \/ cpages'[x].kind = "write" =>
           cpages'[x] = cpages[x]
    BY <2>1, <2>3
  <2> QED BY <1>2, <2>3, <2>5, <2>7, <2>8, <2>9, PagesKeep
<1> QED BY <1>4, <1>5

\* Copies are dropped, and the flash changes only under dropped copies or where none
\* is.
LEMMA DropStep ==
    ASSUME IInv, UNCHANGED fileVars, NEW S \in SUBSET Copies(cpages),
           cpages' = Freed(cpages, S), older' = Forgot(older, S),
           flash' \in [Pix -> SUBSET Bits],
           \A s \in Copies(cpages) \ S : flash'[cpages[s].pix] = flash[cpages[s].pix]
    PROVE  IInv'
<1>1. S \in SUBSET Slots
  BY DEF Copies
<1>2. /\ cpages' \in [Slots -> CachePage] /\ older' \in [Slots -> SUBSET Slots]
      /\ Copies(cpages') = Copies(cpages) \ S
      /\ \A s \in Slots \ S : cpages'[s] = cpages[s]
      /\ Ages(cpages', older')
  BY <1>1, CopyFacts, FreedAges
<1>3. \A s \in S : cpages'[s].kind = "free" /\ cpages[s].kind = "read"
  BY <1>1 DEF Freed, Free, Copies
<1>4. \A s \in Slots : cpages'[s].kind = "read" => s \in Copies(cpages) \ S /\ cpages'[s] = cpages[s]
  BY <1>2, <1>3 DEF Copies
<1>5. \A s \in Copies(cpages') : cpages'[s].pix \in Pix
  BY <1>4, CopyFacts DEF Copies
<1>6. \A s \in Slots : cpages[s].kind = "write" \/ cpages'[s].kind = "write" =>
         cpages'[s] = cpages[s]
  BY <1>2, <1>3
<1>7. Coherent'
  <2>1. ASSUME NEW x \in Slots, NEW y \in Slots, cpages'[x].kind = "read"
        PROVE  /\ cpages'[x].copy = flash'[cpages'[x].pix]
               /\ (cpages'[y].kind = "read" /\ cpages'[y].pix = cpages'[x].pix) => x = y
    <3>1. cpages[x].kind = "read" /\ cpages[x].copy = flash[cpages[x].pix]
      BY <1>4, <2>1 DEF IInv, Coherent, Copies
    <3>2. cpages'[x].copy = flash'[cpages'[x].pix]
      BY <1>4, <2>1, <3>1
    <3>3. ASSUME cpages'[y].kind = "read", cpages'[y].pix = cpages'[x].pix PROVE x = y
      BY <1>4, <2>1, <3>1, <3>3 DEF IInv, Coherent
    <3> QED BY <3>2, <3>3
  <2> QED BY <2>1 DEF Coherent
<1> QED BY <1>2, <1>5, <1>6, <1>7, PagesKeep

\* The write that deletes a page drops its copy.
LEMMA PhysDeleteStep ==
    ASSUME IInv, NEW p \in Pix, NEW v \in SUBSET Bits, PhysDelete(p, v) PROVE IInv'
<1> DEFINE hit == CopiesOf(cpages, p)
           S == IF hit = {} THEN {} ELSE {First(hit)}
<1>1. hit \in SUBSET Slots /\ hit \subseteq Copies(cpages)
  BY DEF CopiesOf, Copies
<1>2. hit # {} => First(hit) \in hit
  BY <1>1, FirstIsIn
<1>3. S \in SUBSET Copies(cpages)
  BY <1>1, <1>2
<1>4. /\ flash' \in [Pix -> SUBSET Bits] /\ UNCHANGED fileVars
      /\ \A q \in Pix \ {p} : flash'[q] = flash[q]
      /\ cpages' = Freed(cpages, S) /\ older' = Forgot(older, S)
  BY DEF PhysDelete, IInv
<1>5. ASSUME NEW s \in Copies(cpages) \ S PROVE flash'[cpages[s].pix] = flash[cpages[s].pix]
  <2>1. s \in Slots /\ cpages[s].kind = "read" /\ cpages[s].pix \in Pix
    BY CopyFacts
  <2>2. ASSUME cpages[s].pix = p PROVE FALSE
    <3>1. s \in hit
      BY <2>2 DEF CopiesOf
    <3>2. First(hit) \in Slots /\ cpages[First(hit)].kind = "read" /\ cpages[First(hit)].pix = p
      BY <1>2, <3>1 DEF CopiesOf, Copies
    <3>3. First(hit) = s
      BY <2>1, <2>2, <3>2 DEF IInv, Coherent
    <3> QED BY <1>5, <3>1, <3>3
  <2> QED BY <1>4, <2>1, <2>2
<1> HIDE DEF S
<1> QED BY <1>3, <1>4, <1>5, DropStep

\* An erased block has no copies left.
LEMMA EraseBlockStep ==
    ASSUME IInv, NEW pages \in BlockPages, NEW header \in SUBSET Bits,
           EraseBlock(pages, header)
    PROVE  IInv'
<1> DEFINE S == Dropped(cpages, pages)
<1>1. S \in SUBSET Copies(cpages)
  BY DEF Dropped
<1>2. /\ flash' \in [Pix -> SUBSET Bits] /\ UNCHANGED fileVars
      /\ \A q \in Pix \ pages : flash'[q] = flash[q]
      /\ cpages' = Freed(cpages, S) /\ older' = Forgot(older, S)
  BY DEF EraseBlock, IInv
<1>3. \A s \in Copies(cpages) \ S : flash'[cpages[s].pix] = flash[cpages[s].pix]
  BY <1>2, CopyFacts DEF Dropped
<1> HIDE DEF S
<1> QED BY <1>1, <1>2, <1>3, DropStep

-----------------------------------------------------------------------------
\* The calls.

\* The invariant after a call, whose record is safe.
LEMMA CallKeeps ==
    ASSUME IInv, NEW t, Is(t), Safe(t, meant'), OnlyDrops(cpages, t.c),
           meant' \in [Objs -> Seq(Nat) \cup {None}], leaving' \in BOOLEAN
    PROVE  IInv'
<1> DEFINE r == [c |-> cpages', older |-> older', disk |-> disk', fds |-> fds', lost |-> lost',
                 ok |-> TRUE]
<1>1. /\ cpages' = t.c /\ older' = t.older /\ disk' = t.disk /\ fds' = t.fds /\ lost' = t.lost
      /\ flash' = flash
  BY DEF Is
<1>2. t \in Calling
  BY DEF Safe, Typed
<1>3. r \in Calling
  BY <1>1, <1>2 DEF Calling
<1>4. SameWaiting(t, r)
  BY <1>1, <1>3 DEF SameWaiting, Safe, Typed
<1>5. Safe(r, meant')
  BY <1>4, CopiesSafe
<1>6. This' = r
  BY DEF This
<1>7. \A s \in Slots : cpages'[s].kind = "read" => cpages'[s] = cpages[s]
  BY <1>1 DEF OnlyDrops, Copies
<1>8. Coherent'
  <2>1. ASSUME NEW x \in Slots, NEW y \in Slots, cpages'[x].kind = "read"
        PROVE  /\ cpages'[x].copy = flash'[cpages'[x].pix]
               /\ (cpages'[y].kind = "read" /\ cpages'[y].pix = cpages'[x].pix) => x = y
    BY <1>1, <1>7, <2>1 DEF IInv, Coherent
  <2> QED BY <2>1 DEF Coherent
<1> QED BY <1>1, <1>5, <1>6, <1>8 DEF IInv

\* What IInv says of the record a call begins with.
LEMMA Begins ==
    ASSUME IInv PROVE /\ Safe(This, meant) /\ This \in Calling /\ This.lost = lost
                      /\ This.ok = TRUE /\ This.fds = fds /\ This.c = cpages
                      /\ This.disk = disk /\ OnlyDrops(cpages, This.c)
                      /\ meant \in [Objs -> Seq(Nat) \cup {None}] /\ leaving \in BOOLEAN
                      /\ None \notin Seq(Nat) /\ MaxLen \in Nat
  BY CacheAssumption DEF IInv, Safe, Typed, This, OnlyDrops

\* After a flush the file is what was meant, as long as nothing is lost.
LEMMA FlushOfThis ==
    ASSUME IInv, lost = {}, NEW f \in Fds, fds[f].open, NEW room \in BOOLEAN
    PROVE  Flushed(This, Flush(This, f, room), f, meant)
  BY Begins, FlushSafe

\* SPIFFS_fflush keeps the invariant.
LEMMA FFlushStep ==
    ASSUME IInv, lost = {}, NEW f \in Fds, FFlush(f), UNCHANGED leaving PROVE IInv'
<1>1. PICK room \in BOOLEAN : Is(Flush(This, f, room))
  BY DEF FFlush
<1> DEFINE t == Flush(This, f, room)
<1>2. Flushed(This, t, f, meant) /\ meant' = meant
  BY FlushOfThis DEF FFlush
<1>3. Safe(t, meant') /\ OnlyDrops(cpages, t.c)
  BY <1>2, Begins DEF Flushed
<1> QED BY <1>1, <1>2, <1>3, Begins, CallKeeps

\* A flushed descriptor is moved to an offset within the file.
LEMMA FlushAndMove ==
    ASSUME IInv, NEW f \in Fds, NEW t, Flushed(This, t, f, meant), NEW x \in 0 .. MaxLen,
           t.lost = {} => x <= Len(t.disk[fds[f].obj]),
           Is([t EXCEPT !.fds[f].off = x]), UNCHANGED <<meant, leaving>>
    PROVE  IInv'
<1> DEFINE r == [t EXCEPT !.fds[f].off = x]
<1>1. Safe(t, meant) /\ t \in Calling
  BY DEF Flushed, Safe, Typed
<1>2. MovesTo(t, r, f, x)
  BY <1>1, MoveIs
<1>3. t.fds[f].obj = fds[f].obj
  <2>1. t.fds[f] = [fds[f] EXCEPT !.page = None] /\ fds[f] \in Descriptor
    BY Begins DEF Flushed, Calling
  <2> QED BY <2>1 DEF Descriptor
<1>4. t.lost = {} => x <= Len(meant[t.fds[f].obj])
  BY <1>3, Begins DEF Flushed
<1> HIDE DEF r
<1>5. Safe(r, meant)
  BY <1>1, <1>2, <1>4, MoveSafe
<1>6. OnlyDrops(cpages, r.c)
  BY <1>2, Begins DEF Flushed, MovesTo
<1> QED BY <1>5, <1>6, Begins, CallKeeps DEF r

\* The length of a flushed file.
LEMMA FlushedLength ==
    ASSUME IInv, NEW f \in Fds, fds[f].open, NEW t, Flushed(This, t, f, meant)
    PROVE  Len(t.disk[fds[f].obj]) \in 0 .. MaxLen
<1>1. t.fds[f] = [fds[f] EXCEPT !.page = None] /\ fds[f] \in Descriptor /\ t \in Calling
  BY Begins DEF Flushed, Calling, Safe, Typed
<1>2. t.fds[f].obj = fds[f].obj /\ t.fds[f].open
  BY <1>1 DEF Descriptor
<1>3. fds[f].obj \in Objs /\ t.disk[fds[f].obj] # None
  BY <1>2 DEF Flushed, Safe, Typed
<1>4. t.disk[fds[f].obj] \in Seq(Nat) /\ Len(t.disk[fds[f].obj]) <= MaxLen
  BY <1>1, <1>3 DEF Flushed, Safe, Short, Calling
<1> QED BY <1>4, LenProperties, Begins

\* SPIFFS_lseek keeps it: the offset is cut to the size after the flush.
LEMMA SeekStep ==
    ASSUME IInv, lost = {}, NEW f \in Fds, NEW to \in Nat, Seek(f, to), UNCHANGED leaving
    PROVE  IInv'
<1>1. PICK room \in BOOLEAN :
        LET t == Flush(This, f, room)
            size == Len(t.disk[fds[f].obj])
        IN Is([t EXCEPT !.fds[f].off = IF to > size THEN size ELSE to])
  BY DEF Seek
<1> DEFINE t == Flush(This, f, room)
           size == Len(t.disk[fds[f].obj])
           x == IF to > size THEN size ELSE to
<1>2. fds[f].open /\ meant' = meant
  BY DEF Seek
<1>3. Flushed(This, t, f, meant)
  BY <1>2, FlushOfThis
<1>4. Is([t EXCEPT !.fds[f].off = x])
  BY <1>1
<1> HIDE DEF t
<1>5. size \in 0 .. MaxLen
  BY <1>2, <1>3, FlushedLength
<1>6. x \in 0 .. MaxLen /\ x <= size
  BY <1>5, Begins
<1> HIDE DEF x
<1> QED BY <1>2, <1>3, <1>4, <1>6, FlushAndMove

\* SPIFFS_read keeps it.
LEMMA ReadStep ==
    ASSUME IInv, lost = {}, NEW f \in Fds, Read(f), UNCHANGED leaving PROVE IInv'
<1>1. PICK room \in BOOLEAN :
        LET t == Flush(This, f, room)
        IN Is([t EXCEPT !.fds[f].off = Larger(@, Len(t.disk[fds[f].obj]))])
  BY DEF Read
<1> DEFINE t == Flush(This, f, room)
           x == Larger(t.fds[f].off, Len(t.disk[fds[f].obj]))
<1>2. fds[f].open /\ meant' = meant
  BY DEF Read
<1>3. Flushed(This, t, f, meant)
  BY <1>2, FlushOfThis
<1> HIDE DEF t
<1>4. Is([t EXCEPT !.fds[f].off = x])
  BY <1>1 DEF t
<1>5. Len(t.disk[fds[f].obj]) \in 0 .. MaxLen
  BY <1>2, <1>3, FlushedLength
<1>6. t.fds[f] \in Descriptor /\ t.fds[f].off \in 0 .. MaxLen
  BY <1>3 DEF Flushed, Safe, Typed, Calling, Descriptor
<1>7. t.lost = {} => t.fds[f].off <= Len(t.disk[fds[f].obj])
  <2>1. t.fds[f] = [fds[f] EXCEPT !.page = None] /\ fds[f] \in Descriptor
    BY <1>3, Begins DEF Flushed, Calling
  <2>2. t.fds[f].obj = fds[f].obj /\ t.fds[f].open
    BY <1>2, <2>1 DEF Descriptor
  <2> QED BY <1>3, <2>2, Begins DEF Flushed, Safe, Placed
<1>8. x \in 0 .. MaxLen /\ (t.lost = {} => x <= Len(t.disk[fds[f].obj]))
  BY <1>5, <1>6, <1>7, Begins DEF Larger
<1> HIDE DEF x
<1> QED BY <1>2, <1>3, <1>4, <1>8, FlushAndMove

\* A flushed descriptor is closed.
LEMMA FlushAndShut ==
    ASSUME IInv, NEW f \in Fds, NEW t, Flushed(This, t, f, meant),
           Is([t EXCEPT !.fds[f] = Shut(@)]), meant' = meant, leaving' \in BOOLEAN
    PROVE  IInv'
<1> DEFINE r == [t EXCEPT !.fds[f] = Shut(@)]
<1>1. Safe(t, meant) /\ t \in Calling
  BY DEF Flushed, Safe, Typed
<1>2. Shuts(t, r, f)
  BY <1>1, ShutIs
<1>3. t.fds[f].obj = fds[f].obj /\ t.fds[f].page = None
  <2>1. t.fds[f] = [fds[f] EXCEPT !.page = None] /\ fds[f] \in Descriptor
    BY Begins DEF Flushed, Calling
  <2> QED BY <2>1 DEF Descriptor
<1>4. WaitingFor(t.c, t.fds[f].obj) = {}
  BY <1>3, Begins DEF Flushed
<1> HIDE DEF r
<1>5. Safe(r, meant)
  BY <1>1, <1>2, <1>3, <1>4, ShutSafe
<1>6. OnlyDrops(cpages, r.c)
  BY <1>2, Begins DEF Flushed, Shuts
<1> QED BY <1>5, <1>6, Begins, CallKeeps DEF r

\* SPIFFS_close keeps it, closed or not.
LEMMA CloseStep ==
    ASSUME IInv, lost = {}, NEW f \in Fds, Close(f), UNCHANGED leaving PROVE IInv'
<1>1. PICK room \in BOOLEAN :
        LET t == Flush(This, f, room)
        IN Is(IF t.ok THEN [t EXCEPT !.fds[f] = Shut(@)] ELSE t)
  BY DEF Close
<1> DEFINE t == Flush(This, f, room)
<1>2. fds[f].open /\ meant' = meant
  BY DEF Close
<1>3. Flushed(This, t, f, meant)
  BY <1>2, FlushOfThis
<1>4. CASE t.ok
  <2>1. Is([t EXCEPT !.fds[f] = Shut(@)])
    BY <1>1, <1>4
  <2> HIDE DEF t
  <2> QED BY <1>2, <1>3, <2>1, Begins, FlushAndShut
<1>5. CASE ~t.ok
  <2>1. Is(t)
    BY <1>1, <1>5
  <2> HIDE DEF t
  <2>2. Safe(t, meant') /\ OnlyDrops(cpages, t.c)
    BY <1>2, <1>3, Begins DEF Flushed
  <2> QED BY <1>2, <2>1, <2>2, Begins, CallKeeps
<1> QED BY <1>4, <1>5

\* SPIFFS_unmount closes a descriptor whatever became of its bytes.
LEMMA UnmountFdStep == ASSUME IInv, lost = {}, NEW f \in Fds, UnmountFd(f) PROVE IInv'
<1>1. PICK room \in BOOLEAN : Is([Flush(This, f, room) EXCEPT !.fds[f] = Shut(@)])
  BY DEF UnmountFd
<1> DEFINE t == Flush(This, f, room)
<1>2. fds[f].open /\ meant' = meant /\ leaving' \in BOOLEAN
  BY DEF UnmountFd
<1>3. Flushed(This, t, f, meant)
  BY <1>2, FlushOfThis
<1> QED BY <1>1, <1>2, <1>3, FlushAndShut

\* An object that is not there has no bytes that wait, and nobody has it open.
LEMMA NobodyHas ==
    ASSUME IInv, lost = {}, NEW o \in Objs, disk[o] = None
    PROVE  /\ WaitingFor(cpages, o) = {}
           /\ \A f \in Fds : fds[f].open => fds[f].obj # o
<1>1. \A f \in Fds : fds[f].open => fds[f].obj # o
  BY Begins DEF Safe, Typed
<1>2. ASSUME NEW s \in Slots, cpages[s].kind = "write", cpages[s].obj = o PROVE FALSE
  BY <1>1, <1>2, Begins DEF Safe, Tied
<1> QED BY <1>1, <1>2 DEF WaitingFor

\* Until something is lost, the bytes meant of a file that is there are a sequence.
LEMMA MeantIsBytes ==
    ASSUME IInv, lost = {}, NEW o \in Objs, disk[o] # None
    PROVE  meant[o] \in Seq(Nat) /\ disk[o] \in Seq(Nat)
<1> DEFINE w == cpages[First(WaitingFor(cpages, o))]
<1>1. View(cpages, disk, o) = meant[o] /\ disk[o] \in Seq(Nat)
  BY Begins DEF Safe, Shows, Calling
<1>2. CASE WaitingFor(cpages, o) = {}
  BY <1>1, <1>2 DEF View
<1>3. CASE WaitingFor(cpages, o) # {}
  <2>1. First(WaitingFor(cpages, o)) \in WaitingFor(cpages, o)
    BY <1>3, FirstIsIn DEF WaitingFor
  <2>2. w.offset \in Nat /\ w.data \in Seq(Nat)
    BY <2>1, CopyFacts DEF WaitingFor, CachePage
  <2>3. Put(disk[o], w.offset, w.data) \in Seq(Nat)
    BY <1>1, <2>2, PutLonger
  <2> QED BY <1>1, <1>3, <2>3 DEF View
<1> QED BY <1>2, <1>3

\* SPIFFS_open keeps it: the page of the last life of the descriptor is gone by then.
LEMMA OpenStep ==
    ASSUME IInv, lost = {}, NEW f \in Fds, NEW obj \in Objs, NEW append \in BOOLEAN,
           Open(f, obj, append), UNCHANGED leaving
    PROVE  IInv'
<1> DEFINE fd == [fds[f] EXCEPT !.open = TRUE, !.obj = obj, !.append = append, !.off = 0]
           d == [disk EXCEPT ![obj] = <<>>]
           t == [c |-> cpages, older |-> older, disk |-> disk', fds |-> fds', lost |-> lost,
                 ok |-> TRUE]
<1>1. /\ fds[f] \in Descriptor /\ ~fds[f].open /\ cpages' = cpages /\ older' = older
      /\ flash' = flash /\ lost' = lost /\ fds' = [fds EXCEPT ![f] = fd]
      /\ fds \in [Fds -> Descriptor] /\ disk \in [Objs -> Seq(Nat) \cup {None}]
  <2>1. fds \in [Fds -> Descriptor] /\ disk \in [Objs -> Seq(Nat) \cup {None}]
    BY Begins DEF Calling
  <2>2. /\ ~fds[f].open /\ cpages' = cpages /\ older' = older /\ flash' = flash /\ lost' = lost
    BY DEF Open, cacheVars
  <2>3. fds' = [fds EXCEPT ![f] = fd]
    BY DEF Open
  <2> QED BY <2>1, <2>2, <2>3
<1>2. fds[f].page = None
  BY <1>1, Begins DEF Safe, Placed
<1>3. /\ fd \in Descriptor /\ fd.open /\ fd.obj = obj /\ fd.off = 0 /\ fd.page = None
  <2>1. fds[f] \in Descriptor /\ 0 \in 0 .. MaxLen
    BY <1>1, Begins
  <2>2. fd \in Descriptor
    BY <2>1 DEF Descriptor
  <2>3. fd.open
    BY <2>1 DEF Descriptor
  <2>4. fd.obj = obj
    BY <2>1 DEF Descriptor
  <2>5. fd.off = 0
    BY <2>1 DEF Descriptor
  <2>6. fd.page = None
    BY <1>2, <2>1 DEF Descriptor
  <2> QED BY <2>2, <2>3, <2>4, <2>5, <2>6
<1> HIDE DEF fd
<1>4. /\ fds' \in [Fds -> Descriptor] /\ fds'[f] = fd
      /\ \A g \in Fds \ {f} : fds'[g] = fds[g]
  BY <1>1, <1>3
<1>5. /\ disk' \in [Objs -> Seq(Nat) \cup {None}] /\ disk'[obj] # None
      /\ meant' \in [Objs -> Seq(Nat) \cup {None}]
      /\ \A o \in Objs \ {obj} : disk'[o] = disk[o] /\ meant'[o] = meant[o]
      /\ \/ disk'[obj] = disk[obj] /\ meant'[obj] = meant[obj] /\ disk[obj] # None
         \/ disk'[obj] = <<>> /\ meant'[obj] = <<>> /\ disk[obj] = None
  <2>1. CASE disk[obj] # None
    <3>1. disk' = disk /\ meant' = meant
      BY <2>1 DEF Open
    <3> QED BY <1>1, <2>1, <3>1, Begins
  <2>2. CASE disk[obj] = None
    <3>1. disk' = d /\ meant' = [meant EXCEPT ![obj] = <<>>]
      BY <2>2 DEF Open
    <3>2. <<>> \in Seq(Nat) /\ <<>> # None
      BY Begins, EmptySeq
    <3> QED BY <1>1, <2>2, <3>1, <3>2, Begins
  <2> QED BY <2>1, <2>2
<1>6. \A o \in Objs : disk[o] # None => disk'[o] = disk[o] /\ meant'[o] = meant[o]
  BY <1>5
<1>7. t \in Calling
  BY <1>1, <1>4, <1>5, Begins DEF Calling, This
<1>8. Typed(t)
  <2>1. \A s \in Slots : cpages[s].kind = "write" => cpages[s].obj \in Objs
    BY Begins DEF Safe, Typed
  <2>2. ASSUME NEW g \in Fds, fds'[g].open
        PROVE  fds'[g].obj \in Objs /\ disk'[fds'[g].obj] # None
    <3>1. CASE g = f
      BY <1>3, <1>4, <1>5, <3>1
    <3>2. CASE g # f
      <4>1. fds'[g] = fds[g] /\ fds[g].obj \in Objs /\ disk[fds[g].obj] # None
        BY <1>4, <2>2, <3>2, Begins DEF Safe, Typed
      <4> QED BY <1>6, <4>1
    <3> QED BY <3>1, <3>2
  <2> QED BY <1>7, <2>1, <2>2, CopyFacts DEF Typed
<1>9. Short(t)
  BY <1>5, Begins, EmptySeq, LenProperties DEF Safe, Short, This
<1>10. \A g \in Fds : fds[g].open => g # f
  BY <1>1
<1>11. Tied(t)
  <2>1. \A s \in Slots : cpages[s].kind = "write" =>
           \E g \in Fds : fds'[g].open /\ fds'[g].obj = cpages[s].obj
    BY <1>4, <1>10, Begins DEF Safe, Tied
  <2>2. \A g \in Fds : fds'[g].open /\ fds'[g].page # None =>
           fds'[g].page \in WaitingFor(cpages, fds'[g].obj)
    BY <1>3, <1>4, Begins DEF Safe, Tied
  <2> QED BY <2>1, <2>2, Begins DEF Safe, Tied
<1>12. Shows(t, meant')
  <2> SUFFICES ASSUME NEW o \in Objs, disk'[o] # None
               PROVE  View(cpages, disk', o) = meant'[o]
    BY DEF Shows
  <2>1. CASE disk[o] # None
    <3>1. View(cpages, disk, o) = meant[o]
      BY <2>1, Begins DEF Safe, Shows
    <3>2. View(cpages, disk', o) = View(cpages, disk, o)
      BY <1>6, <2>1 DEF View
    <3> QED BY <1>6, <2>1, <3>1, <3>2
  <2>2. CASE disk[o] = None
    <3>1. WaitingFor(cpages, o) = {}
      BY <2>2, NobodyHas
    <3>2. o = obj
      BY <1>5, <2>2
    <3> QED BY <1>5, <2>2, <3>1, <3>2 DEF View
  <2> QED BY <2>1, <2>2
<1>13. Placed(t, meant')
  <2>1. \A g \in Fds : ~fds'[g].open => fds'[g].page = None
    BY <1>3, <1>4, Begins DEF Safe, Placed
  <2>2. ASSUME NEW s \in Slots, cpages[s].kind = "write"
        PROVE  cpages[s].offset <= Len(disk'[cpages[s].obj])
    <3>1. cpages[s].obj \in Objs /\ disk[cpages[s].obj] # None
      BY <2>2, NobodyHas, Begins DEF Safe, Typed, WaitingFor
    <3> QED BY <1>6, <2>2, <3>1, Begins DEF Safe, Placed
  <2>3. ASSUME NEW g \in Fds, fds'[g].open
        PROVE  fds'[g].off <= Len(meant'[fds'[g].obj])
    <3>1. CASE g = f
      <4>1. meant'[obj] \in Seq(Nat)
        BY <1>5, MeantIsBytes, EmptySeq
      <4> QED BY <1>3, <1>4, <3>1, <4>1, LenProperties
    <3>2. CASE g # f
      <4>1. fds'[g] = fds[g] /\ fds[g].obj \in Objs /\ disk[fds[g].obj] # None
        BY <1>4, <2>3, <3>2, Begins DEF Safe, Typed
      <4>2. fds[g].off <= Len(meant[fds[g].obj])
        BY <2>3, <4>1, Begins DEF Safe, Placed
      <4> QED BY <1>6, <4>1, <4>2
    <3> QED BY <3>1, <3>2
  <2> QED BY <2>1, <2>2, <2>3 DEF Placed
<1>14. Safe(t, meant')
  BY <1>8, <1>9, <1>11, <1>12, <1>13 DEF Safe
<1>15. Is(t)
  BY <1>1 DEF Is
<1>16. OnlyDrops(cpages, t.c)
  BY DEF OnlyDrops
<1> HIDE DEF t
<1> QED BY <1>5, <1>14, <1>15, <1>16, Begins, CallKeeps

\* An object goes, when only its own waiting bytes may be gone before.
LEMMA GoneStep ==
    ASSUME IInv, NEW t, NEW obj \in Objs,
           Typed(t), Short(t), Tied(t), Placed(t, meant), t.lost = {},
           \A o \in Objs \ {obj} : t.disk[o] # None => View(t.c, t.disk, o) = meant[o],
           OnlyDrops(cpages, t.c), Is(Gone(t, obj)),
           meant' = [meant EXCEPT ![obj] = None], UNCHANGED leaving
    PROVE  IInv'
<1> DEFINE r == Gone(t, obj)
<1>1. t \in Calling
  BY DEF Typed
<1>2. GoneDoes(t, r, obj)
  BY <1>1, GoneIs
<1> HIDE DEF r
<1>3. Safe(r, meant')
  <2>1. meant \in [Objs -> Seq(Nat) \cup {None}]
    BY Begins
  <2>2. Safe(r, [meant EXCEPT ![obj] = None])
    BY <1>2, <2>1, GoneSafe
  <2> QED BY <2>2
<1>4. OnlyDrops(cpages, r.c)
  BY <1>2 DEF GoneDoes
<1> QED BY <1>3, <1>4, Begins, CallKeeps DEF r

\* SPIFFS_remove keeps it.
LEMMA RemoveStep ==
    ASSUME IInv, lost = {}, NEW obj \in Objs, Remove(obj), UNCHANGED leaving PROVE IInv'
<1>1. Is(Gone(This, obj)) /\ meant' = [meant EXCEPT ![obj] = None]
  BY DEF Remove
<1>2. /\ Typed(This) /\ Short(This) /\ Tied(This) /\ Placed(This, meant) /\ This.lost = {}
      /\ \A o \in Objs \ {obj} : This.disk[o] # None => View(This.c, This.disk, o) = meant[o]
  BY Begins DEF Safe, Shows
<1> QED BY <1>1, <1>2, Begins, GoneStep

\* SPIFFS_fremove keeps it: its own page goes first.
LEMMA FRemoveStep ==
    ASSUME IInv, lost = {}, NEW f \in Fds, FRemove(f), UNCHANGED leaving PROVE IInv'
<1> DEFINE s == fds[f].page
           obj == fds[f].obj
           r == Release(This, s)
<1>1. fds[f].open /\ obj \in Objs /\ disk[obj] # None /\ meant' = [meant EXCEPT ![obj] = None]
  BY Begins DEF FRemove, Safe, Typed
<1>2. /\ Typed(This) /\ Short(This) /\ Tied(This) /\ Placed(This, meant) /\ This.lost = {}
      /\ \A o \in Objs : This.disk[o] # None => View(This.c, This.disk, o) = meant[o]
  BY Begins DEF Safe, Shows
<1>3. CASE s = None
  <2>1. Is(Gone(This, obj))
    BY <1>3 DEF FRemove
  <2> QED BY <1>1, <1>2, <2>1, Begins, GoneStep
<1>4. CASE s # None
  <2>1. Is(Gone(r, obj))
    BY <1>4 DEF FRemove
  <2>2. s \in WaitingFor(cpages, obj) /\ s \in Slots
    <3>1. This.fds[f].open /\ This.fds[f].page = s /\ This.fds[f].obj = obj /\ This.c = cpages
      BY <1>1, Begins
    <3> HIDE DEF s, obj
    <3> QED BY <1>2, <1>4, <3>1 DEF Tied, WaitingFor
  <2>3. /\ r \in Calling /\ r.c = [This.c EXCEPT ![s] = Free]
        /\ r.older = This.older /\ r.disk = This.disk /\ r.lost = This.lost
        /\ \A g \in Fds : r.fds[g] = IF This.fds[g].open /\ This.fds[g].page = s
                                     THEN [This.fds[g] EXCEPT !.page = None] ELSE This.fds[g]
    <3>1. This \in Calling
      BY <1>2 DEF Typed
    <3> QED BY <2>2, <3>1, ReleaseIs
  <2> HIDE DEF r
  <2>4. FreesPage(This, r, f, s)
    BY <1>1, <2>3, Begins DEF FreesPage
  <2>5. s \in WaitingFor(This.c, This.fds[f].obj) /\ This.fds[f].open /\ This.fds[f].obj = obj
    BY <1>1, <2>2, Begins
  <2>6. /\ Typed(r) /\ Tied(r) /\ Placed(r, meant)
        /\ \A x \in Slots : r.c[x].kind = "write" => r.c[x] = This.c[x]
        /\ \A o \in Objs : o # This.fds[f].obj => View(r.c, r.disk, o) = View(This.c, This.disk, o)
        /\ OnlyDrops(This.c, r.c)
    <3>1. Safe(This, meant) /\ This.lost = {}
      BY Begins
    <3>2. Undisturbed(This, r, f, meant)
      BY <2>4, <2>5, <3>1, FreedPage
    <3> QED BY <3>2 DEF Undisturbed
  <2>7. Short(r)
    BY <1>2, <2>3, <2>6 DEF Short
  <2>8. \A o \in Objs \ {obj} : r.disk[o] # None => View(r.c, r.disk, o) = meant[o]
    BY <1>2, <2>3, <2>5, <2>6
  <2> HIDE DEF obj
  <2> QED BY <1>1, <1>2, <2>1, <2>3, <2>6, <2>7, <2>8, Begins, GoneStep
<1> QED BY <1>3, <1>4

\* Mounting keeps it: with all descriptors closed, nothing is left to wait.
LEMMA MountStep == ASSUME IInv, lost = {}, Mount PROVE IInv'
<1> DEFINE t == [c |-> cpages', older |-> older', disk |-> disk, fds |-> fds', lost |-> lost,
                 ok |-> TRUE]
<1>1. /\ fds' = NoFds /\ cpages' = [s \in Slots |-> Free] /\ older' = [s \in Slots |-> {}]
      /\ flash' = flash /\ disk' = disk /\ meant' = meant /\ lost' = lost /\ leaving' = FALSE
      /\ \A f \in Fds : ~fds[f].open
  BY DEF Mount
<1>2. Free \in CachePage /\ Free.kind = "free"
  BY EmptySeq DEF Free, CachePage
<1>3. /\ cpages' \in [Slots -> CachePage] /\ \A s \in Slots : cpages'[s].kind = "free"
      /\ older' \in [Slots -> SUBSET Slots] /\ \A s \in Slots : older'[s] = {}
  BY <1>1, <1>2
<1>4. fds' \in [Fds -> Descriptor] /\ \A f \in Fds : ~fds'[f].open /\ fds'[f].page = None
  <2>1. Shut([page |-> None]) \in Descriptor
    BY Begins DEF Shut, Descriptor
  <2>2. ~Shut([page |-> None]).open /\ Shut([page |-> None]).page = None
    BY DEF Shut
  <2> QED BY <1>1, <2>1, <2>2 DEF NoFds
<1>5. t \in Calling
  BY <1>3, <1>4, Begins DEF Calling
<1>6. Copies(cpages') = {} /\ \A o : WaitingFor(cpages', o) = {}
  BY <1>3 DEF Copies, WaitingFor
<1>7. Ages(cpages', older')
  BY <1>3, <1>6 DEF Ages
<1>8. Typed(t)
  BY <1>3, <1>4, <1>5, <1>6, <1>7 DEF Typed
<1>9. Short(t)
  BY <1>3, Begins DEF Safe, Short
<1>10. Tied(t)
  BY <1>3, <1>4 DEF Tied
<1>11. Shows(t, meant)
  <2>1. \A o \in Objs : WaitingFor(cpages, o) = {}
    BY <1>1, Begins DEF Safe, Tied, WaitingFor
  <2>2. ASSUME NEW o \in Objs, disk[o] # None PROVE View(cpages', disk, o) = meant[o]
    <3>1. View(cpages, disk, o) = meant[o]
      BY <2>2, Begins DEF Safe, Shows
    <3> QED BY <1>6, <2>1, <3>1 DEF View
  <2> QED BY <2>2 DEF Shows
<1>12. Placed(t, meant)
  BY <1>3, <1>4 DEF Placed
<1>13. Safe(t, meant')
  BY <1>1, <1>8, <1>9, <1>10, <1>11, <1>12 DEF Safe
<1>14. Is(t)
  BY <1>1 DEF Is
<1>15. OnlyDrops(cpages, t.c)
  BY <1>6 DEF OnlyDrops
<1> HIDE DEF t
<1> QED BY <1>1, <1>13, <1>14, <1>15, Begins, CallKeeps

-----------------------------------------------------------------------------
\* SPIFFS_write.

\* A record in which a write can begin: nothing waits for the object any more.
Cleared(t, f, obj) ==
    /\ Safe(t, meant) /\ t.ok = TRUE /\ t.lost = {}
    /\ t.fds[f].open /\ t.fds[f].obj = obj /\ t.fds[f].page = None
    /\ WaitingFor(t.c, obj) = {} /\ t.disk[obj] = meant[obj] /\ t.disk[obj] # None
    /\ OnlyDrops(cpages, t.c)

\* The bytes are in the file or in a page that waits, or nothing has changed.
WroteAll(w, f, obj, offset, data) ==
    /\ OnlyDrops(cpages, w.c) /\ w.ok \in BOOLEAN
    /\ w.ok => Safe(w, Written(meant, obj, offset, data)) /\ w.fds[f].obj = obj
    /\ ~w.ok => Safe(w, meant)

\* Bytes that are written to the flash.
LEMMA WriteThrough ==
    ASSUME IInv, NEW t, NEW f \in Fds, NEW obj \in Objs, Cleared(t, f, obj),
           NEW offset \in Nat, offset <= Len(meant[obj]), NEW data \in Seq(Nat),
           offset + Len(data) <= MaxLen, NEW room \in BOOLEAN
    PROVE  WroteAll(HydroWrite(t, obj, offset, data, room), f, obj, offset, data)
<1> DEFINE w == HydroWrite(t, obj, offset, data, room)
<1>1. /\ Safe(t, meant) /\ t \in Calling /\ t.lost = {} /\ WaitingFor(t.c, obj) = {}
      /\ t.disk[obj] # None /\ offset <= Len(t.disk[obj])
      /\ meant \in [Objs -> Seq(Nat) \cup {None}]
  BY Begins DEF Cleared, Safe, Typed
<1>2. WriteDoes(t, w, obj, offset, data)
  BY <1>1, HydroWriteIs
<1> HIDE DEF w
<1>3. /\ w.disk = t.disk => Safe(w, meant)
      /\ w.disk = [t.disk EXCEPT ![obj] = Put(t.disk[obj], offset, data)] =>
            Safe(w, Written(meant, obj, offset, data))
  BY <1>1, <1>2, ThroughSafe
<1>4. w.c = t.c /\ w.fds = t.fds /\ w.ok \in BOOLEAN
  BY <1>2 DEF WriteDoes, Calling
<1>5. t.ok = TRUE /\ t.fds[f].obj = obj /\ OnlyDrops(cpages, w.c)
  BY <1>4 DEF Cleared
<1>6. CASE w.ok = FALSE /\ w.disk = t.disk
  BY <1>3, <1>5, <1>6 DEF WroteAll, w
<1>7. CASE /\ w.ok = t.ok
           /\ w.disk = [t.disk EXCEPT ![obj] = Put(t.disk[obj], offset, data)]
  <2>1. w.ok = TRUE /\ Safe(w, Written(meant, obj, offset, data)) /\ w.fds[f].obj = obj
    BY <1>3, <1>4, <1>5, <1>7
  <2> QED BY <1>4, <1>5, <2>1 DEF WroteAll, w
<1> QED BY <1>2, <1>6, <1>7 DEF WriteDoes

\* Bytes that go to a page of the object which has room for them.
LEMMA WriteToPage ==
    ASSUME IInv, NEW t, Safe(t, meant), t.lost = {}, t.ok = TRUE, OnlyDrops(cpages, t.c),
           NEW f \in Fds, t.fds[f].open, NEW obj \in Objs, t.fds[f].obj = obj,
           NEW s \in WaitingFor(t.c, obj), t.fds[f].page = s,
           NEW offset \in Nat, t.c[s].offset <= offset,
           offset <= t.c[s].offset + Len(t.c[s].data),
           NEW data \in Seq(Nat), offset + Len(data) <= MaxLen
    PROVE  WroteAll([t EXCEPT !.c[t.fds[f].page].data =
                        Put(@, offset - t.c[t.fds[f].page].offset, data)], f, obj, offset, data)
<1> DEFINE bytes == Put(t.c[s].data, offset - t.c[s].offset, data)
           w == [t EXCEPT !.c[s].data = bytes]
<1>1. s \in Slots /\ t \in Calling /\ t.disk[obj] # None
  BY DEF WaitingFor, Safe, Typed
<1>2. t.c[s].offset \in Nat /\ t.c[s].data \in Seq(Nat)
  BY <1>1 DEF Calling, CachePage
<1>3. bytes \in Seq(Nat)
  <2>1. offset - t.c[s].offset \in Nat
    BY <1>2
  <2> QED BY <1>2, <2>1, PutLonger
<1> HIDE DEF bytes
<1>4. StoreDoes(t, w, s, bytes)
  BY <1>1, <1>3, StoreIs
<1>5. [t EXCEPT !.c[t.fds[f].page].data =
          Put(@, offset - t.c[t.fds[f].page].offset, data)] = w
  BY DEF bytes
<1> HIDE DEF w
<1>6. Safe(w, Written(meant, obj, offset, data)) /\ OnlyDrops(t.c, w.c)
  <2>1. StoreDoes(t, w, s, Put(t.c[s].data, offset - t.c[s].offset, data))
    BY <1>4 DEF bytes
  <2>2. meant \in [Objs -> Seq(Nat) \cup {None}]
    BY Begins
  <2> QED BY <1>1, <2>1, <2>2, StoreSafe
<1>7. w.ok = TRUE /\ w.fds[f].obj = obj /\ OnlyDrops(cpages, w.c)
  BY <1>4, <1>6 DEF StoreDoes, OnlyDrops
<1> QED BY <1>5, <1>6, <1>7 DEF WroteAll

\* Less than a page gets a page if there is one.
LEMMA WriteSmall ==
    ASSUME IInv, NEW t, NEW f \in Fds, NEW obj \in Objs, Cleared(t, f, obj),
           NEW offset \in Nat, offset <= Len(meant[obj]), NEW data \in Seq(Nat),
           offset + Len(data) <= MaxLen, NEW room \in BOOLEAN, NEW kept \in BOOLEAN
    PROVE  LET paged == Allocated(t, f, offset, kept) IN
           /\ paged.fds[f].page # None =>
                 WroteAll([paged EXCEPT !.c[paged.fds[f].page].data =
                             Put(@, offset - paged.c[paged.fds[f].page].offset, data)],
                          f, obj, offset, data)
           /\ paged.fds[f].page = None =>
                 WroteAll(HydroWrite(paged, obj, offset, data, room), f, obj, offset, data)
<1> DEFINE p == Allocated(t, f, offset, kept)
<1>1. /\ Safe(t, meant) /\ t.lost = {} /\ t.fds[f].open /\ t.fds[f].page = None
      /\ t.fds[f].obj = obj /\ WaitingFor(t.c, t.fds[f].obj) = {} /\ t.ok = TRUE
      /\ t.disk[obj] = meant[obj] /\ t.disk[obj] # None /\ OnlyDrops(cpages, t.c)
  BY DEF Cleared
<1>2. Len(data) \in Nat /\ offset \in 0 .. MaxLen /\ offset <= Len(t.disk[t.fds[f].obj])
  BY <1>1, LenProperties, Begins
<1>3. Safe(p, meant) /\ OnlyDrops(t.c, p.c) /\ Gets(t, p, f, offset)
  BY <1>1, <1>2, AllocatedSafe
<1> HIDE DEF p
<1>4. t.fds[f] \in Descriptor
  BY <1>1 DEF Safe, Typed, Calling
<1>5. /\ p.lost = {} /\ p.ok = TRUE /\ p.disk = t.disk /\ p.fds[f].open /\ p.fds[f].obj = obj
      /\ OnlyDrops(cpages, p.c)
  <2>1. p.lost = {} /\ p.ok = TRUE /\ p.disk = t.disk
    BY <1>1, <1>3 DEF Gets
  <2>2. p.fds[f] = [t.fds[f] EXCEPT !.page = p.fds[f].page]
    BY <1>3 DEF Gets
  <2>3. p.fds[f].open /\ p.fds[f].obj = obj
    BY <1>1, <1>4, <2>2 DEF Descriptor
  <2>4. OnlyDrops(cpages, p.c)
    BY <1>1, <1>3 DEF OnlyDrops
  <2> QED BY <2>1, <2>3, <2>4
<1>6. ASSUME p.fds[f].page # None
      PROVE  WroteAll([p EXCEPT !.c[p.fds[f].page].data =
                         Put(@, offset - p.c[p.fds[f].page].offset, data)], f, obj, offset, data)
  <2> DEFINE s == p.fds[f].page
  <2>1. s \in WaitingFor(p.c, obj) /\ p.c[s].offset = offset /\ p.c[s].data = <<>>
    BY <1>1, <1>3, <1>6 DEF Gets
  <2>2. p.c[s].offset <= offset /\ offset <= p.c[s].offset + Len(p.c[s].data)
    BY <2>1, EmptySeq
  <2>3. p.fds[f].page = s
    OBVIOUS
  <2> HIDE DEF s
  <2> QED BY <1>3, <1>5, <2>1, <2>2, <2>3, WriteToPage
<1>7. ASSUME p.fds[f].page = None
      PROVE  WroteAll(HydroWrite(p, obj, offset, data, room), f, obj, offset, data)
  <2>1. WaitingFor(p.c, obj) = {}
    BY <1>1, <1>3, <1>7 DEF Gets
  <2>2. Cleared(p, f, obj)
    BY <1>1, <1>3, <1>5, <1>7, <2>1 DEF Cleared
  <2> QED BY <2>2, WriteThrough
<1> QED BY <1>6, <1>7 DEF p

\* Where a descriptor writes is within the file or at its end, and an appending one
\* writes at the end.
LEMMA AppendAtEnd ==
    ASSUME IInv, lost = {}, NEW f \in Fds, fds[f].open
    PROVE  LET obj == fds[f].obj
               offset == IF fds[f].append THEN AppendAt(f) ELSE fds[f].off
           IN /\ obj \in Objs /\ disk[obj] # None /\ meant[obj] \in Seq(Nat)
              /\ offset \in Nat /\ offset <= Len(meant[obj])
              /\ fds[f].append => offset = Len(meant[obj]) /\ Size(f) \in Nat /\ Size(f) <= offset
<1> DEFINE obj == fds[f].obj
           s == PageOf(This, f)
<1>1. fds[f] \in Descriptor /\ obj \in Objs /\ disk[obj] # None
  BY Begins DEF Safe, Typed, Calling
<1>2. meant[obj] \in Seq(Nat) /\ disk[obj] \in Seq(Nat) /\ View(cpages, disk, obj) = meant[obj]
  BY <1>1, MeantIsBytes, Begins DEF Safe, Shows
<1>3. Len(meant[obj]) \in Nat /\ Len(disk[obj]) \in Nat
  BY <1>2, LenProperties
<1>4. fds[f].off \in Nat /\ fds[f].off <= Len(meant[obj])
  <2>1. fds[f].off \in Nat
    BY <1>1, Begins DEF Descriptor
  <2> QED BY <2>1, Begins DEF Safe, Placed
<1>5. /\ AppendAt(f) = Len(meant[obj]) /\ Len(disk[obj]) <= Len(meant[obj])
  <2>1. \/ s = None /\ WaitingFor(cpages, obj) = {}
        \/ s # None /\ s \in WaitingFor(cpages, obj)
    <3>1. Safe(This, meant) /\ This.fds[f].open
      BY Begins
    <3>2. \/ /\ PageOf(This, f) = None /\ This.fds[f].page = None
             /\ WaitingFor(This.c, This.fds[f].obj) = {}
          \/ PageOf(This, f) \in WaitingFor(This.c, This.fds[f].obj) /\ PageOf(This, f) # None
      BY <3>1, PageOfIs
    <3> QED BY <3>2, Begins
  <2>2. CASE s = None /\ WaitingFor(cpages, obj) = {}
    <3>1. AppendAt(f) = Len(disk[obj])
      BY <2>2 DEF AppendAt, Size
    <3>2. disk[obj] = meant[obj]
      BY <1>2, <2>2 DEF View
    <3> QED BY <1>3, <3>1, <3>2
  <2>3. CASE s # None /\ s \in WaitingFor(cpages, obj)
    <3>1. AppendAt(f) = Larger(Len(disk[obj]), cpages[s].offset + Len(cpages[s].data))
      BY <2>3 DEF AppendAt, Size, PageEnd
    <3>2. s \in Slots /\ cpages[s].offset \in Nat /\ cpages[s].data \in Seq(Nat)
      BY <2>3, CopyFacts DEF WaitingFor, CachePage
    <3> HIDE DEF s, obj
    <3>3. meant[obj] = Put(disk[obj], cpages[s].offset, cpages[s].data)
      <4>1. Typed(This) /\ Tied(This) /\ s \in WaitingFor(This.c, obj)
        BY <2>3, Begins DEF Safe
      <4>2. View(This.c, disk, obj) = Put(disk[obj], This.c[s].offset, This.c[s].data)
        BY <1>1, <4>1, ViewWaiting
      <4> QED BY <1>2, <4>2, Begins
    <3>4. IsPut(meant[obj], disk[obj], cpages[s].offset, cpages[s].data)
      BY <1>2, <3>2, <3>3, PutFacts
    <3>5. Len(meant[obj]) = Larger(Len(disk[obj]), cpages[s].offset + Len(cpages[s].data))
      BY <3>4 DEF IsPut
    <3>6. Len(cpages[s].data) \in Nat
      BY <3>2, LenProperties
    <3>7. Len(meant[obj]) >= Len(disk[obj])
      BY <1>3, <3>2, <3>5, <3>6 DEF Larger
    <3> QED BY <3>1, <3>5, <3>7, <1>3
  <2> QED BY <2>1, <2>2, <2>3
<1> QED BY <1>1, <1>2, <1>3, <1>4, <1>5 DEF Size

\* The descriptor goes to the end of what it wrote.
LEMMA WriteEnds ==
    ASSUME IInv, NEW f \in Fds, NEW obj \in Objs, meant[obj] \in Seq(Nat),
           NEW offset \in Nat, NEW data \in Seq(Nat),
           NEW w, WroteAll(w, f, obj, offset, data),
           NEW after \in 0 .. MaxLen, after <= offset + Len(data),
           Is(IF w.ok THEN [w EXCEPT !.fds[f].off = after] ELSE w),
           meant' = IF w.ok THEN Written(meant, obj, offset, data) ELSE meant,
           UNCHANGED leaving
    PROVE  IInv'
<1> DEFINE r == [w EXCEPT !.fds[f].off = after]
           put == Put(meant[obj], offset, data)
<1>1. OnlyDrops(cpages, w.c)
  BY DEF WroteAll
<1>2. CASE w.ok
  <2>1. Safe(w, meant') /\ w.fds[f].obj = obj /\ Is(r) /\ meant' = Written(meant, obj, offset, data)
    BY <1>2 DEF WroteAll
  <2>2. MovesTo(w, r, f, after)
    <3>1. w \in Calling
      BY <2>1 DEF Safe, Typed
    <3> QED BY <3>1, MoveIs
  <2> HIDE DEF r
  <2>3. put \in Seq(Nat) /\ Len(put) >= offset + Len(data) /\ Len(put) \in Nat
    BY PutLonger
  <2>4. meant'[obj] = put /\ meant' \in [Objs -> Seq(Nat) \cup {None}]
    BY <2>1, <2>3, Begins DEF Written
  <2>5. after <= Len(meant'[w.fds[f].obj])
    <3>1. Len(data) \in Nat /\ after \in Nat
      BY LenProperties, Begins
    <3> HIDE DEF put
    <3> QED BY <2>1, <2>3, <2>4, <3>1
  <2>6. Safe(r, meant')
    BY <2>1, <2>2, <2>5, MoveSafe
  <2>7. OnlyDrops(cpages, r.c)
    BY <1>1, <2>2 DEF MovesTo
  <2> QED BY <2>1, <2>4, <2>6, <2>7, Begins, CallKeeps
<1>3. CASE ~w.ok
  <2>1. Safe(w, meant') /\ Is(w) /\ meant' = meant
    BY <1>3 DEF WroteAll
  <2> QED BY <1>1, <2>1, Begins, CallKeeps
<1> QED BY <1>2, <1>3

\* SPIFFS_write keeps it, on each of its ways to the page or to the flash.
LEMMA WriteStep ==
    ASSUME IInv, lost = {}, NEW f \in Fds, NEW data \in Data, Write(f, data), UNCHANGED leaving
    PROVE  IInv'
<1> DEFINE fd == fds[f]
           obj == fds[f].obj
           offset == IF fd.append THEN AppendAt(f) ELSE fd.off
           after == (IF fd.append THEN Size(f) ELSE fd.off) + Len(data)
           s == PageOf(This, f)
           named == [This EXCEPT !.fds[f].page = s]
           small == Len(data) < PageLen
           inside == small /\ s # None /\ Fits(s, offset, Len(data))
           stored(t) == [t EXCEPT !.c[t.fds[f].page].data =
                             Put(@, offset - t.c[t.fds[f].page].offset, data)]
<1>1. PICK room \in BOOLEAN, kept \in BOOLEAN :
        LET cleared == IF s = None \/ inside THEN named ELSE Dump(named, f, s, room)
            paged == IF inside \/ ~small THEN cleared ELSE Allocated(cleared, f, offset, kept)
            wrote == IF small /\ paged.fds[f].page # None THEN stored(paged)
                     ELSE HydroWrite(paged, fd.obj, offset, data, room)
            done == IF cleared.ok THEN wrote ELSE cleared
        IN /\ Is(IF done.ok THEN [done EXCEPT !.fds[f].off = after] ELSE done)
           /\ meant' = IF done.ok
                       THEN [meant EXCEPT ![fd.obj] =
                                Put(@, IF fd.append THEN Len(@) ELSE fd.off, data)]
                       ELSE meant
  BY DEF Write
<1> DEFINE cleared == IF s = None \/ inside THEN named ELSE Dump(named, f, s, room)
           paged == IF inside \/ ~small THEN cleared ELSE Allocated(cleared, f, offset, kept)
           wrote == IF small /\ paged.fds[f].page # None THEN stored(paged)
                    ELSE HydroWrite(paged, obj, offset, data, room)
           done == IF cleared.ok THEN wrote ELSE cleared
<1>2. fd.open /\ offset + Len(data) <= MaxLen
  BY DEF Write
<1>3. data \in Seq(Nat) /\ Len(data) \in Nat
  BY CacheAssumption, LenProperties
<1>4. /\ obj \in Objs /\ disk[obj] # None /\ meant[obj] \in Seq(Nat)
      /\ offset \in Nat /\ offset <= Len(meant[obj])
      /\ fd.append => offset = Len(meant[obj]) /\ Size(f) \in Nat /\ Size(f) <= offset
  BY <1>2, AppendAtEnd
<1>5. Is(IF done.ok THEN [done EXCEPT !.fds[f].off = after] ELSE done)
  BY <1>1
<1>6. meant' = IF done.ok THEN Written(meant, obj, offset, data) ELSE meant
  <2>1. meant' = IF done.ok THEN [meant EXCEPT ![obj] =
                    Put(@, IF fd.append THEN Len(@) ELSE fd.off, data)] ELSE meant
    BY <1>1
  <2> HIDE DEF done
  <2>2. (IF fd.append THEN Len(meant[obj]) ELSE fd.off) = offset
    BY <1>4
  <2> HIDE DEF offset
  <2> QED BY <2>1, <2>2 DEF Written
<1>7. after \in 0 .. MaxLen /\ after <= offset + Len(data)
  BY <1>2, <1>3, <1>4, Begins
<1>8. WroteAll(done, f, obj, offset, data)
  <2>1. Knows(This, named, f, s) /\ Safe(named, meant)
    <3>1. \/ PageOf(This, f) = None /\ WaitingFor(This.c, This.fds[f].obj) = {}
          \/ PageOf(This, f) \in WaitingFor(This.c, This.fds[f].obj)
      BY <1>2, Begins, PageOfIs
    <3>2. s \in Slots \cup {None} /\ (s = None \/ s \in WaitingFor(This.c, This.fds[f].obj))
      BY <3>1 DEF WaitingFor
    <3> HIDE DEF s
    <3>3. Knows(This, named, f, s)
      BY <3>2, Begins, KnowIs
    <3> HIDE DEF named
    <3> QED BY <1>2, <3>2, <3>3, Begins, KnowSafe
  <2>2. \/ s = None /\ WaitingFor(cpages, obj) = {}
        \/ s # None /\ s \in WaitingFor(cpages, obj)
    <3>1. \/ PageOf(This, f) = None /\ WaitingFor(This.c, This.fds[f].obj) = {}
          \/ PageOf(This, f) \in WaitingFor(This.c, This.fds[f].obj) /\ PageOf(This, f) # None
      BY <1>2, Begins, PageOfIs
    <3> QED BY <3>1, Begins
  <2>3. s = None => WaitingFor(cpages, obj) = {}
    BY <2>2
  <2> HIDE DEF s, named, offset
  <2>4. /\ named.fds[f].open /\ named.fds[f].obj = obj /\ named.fds[f].page = s
        /\ named.c = cpages /\ named.disk = disk /\ named.lost = {} /\ named.ok = TRUE
    <3>1. fds[f] \in Descriptor /\ named.fds[f] = [fds[f] EXCEPT !.page = s]
      BY <2>1, Begins DEF Knows, Calling
    <3>2. named.fds[f].open /\ named.fds[f].obj = obj /\ named.fds[f].page = s
      BY <1>2, <3>1 DEF Descriptor
    <3>3. named.c = cpages /\ named.disk = disk /\ named.lost = {} /\ named.ok = TRUE
      BY <2>1, Begins DEF Knows
    <3> QED BY <3>2, <3>3
  <2>5. OnlyDrops(cpages, named.c)
    BY <2>4 DEF OnlyDrops
  <2> HIDE DEF obj
  <2>6. CASE inside
    <3>1. cleared = named /\ paged = named /\ wrote = stored(named) /\ done = stored(named)
      BY <2>4, <2>6
    <3>2. /\ named.c[s].offset <= offset
          /\ offset <= named.c[s].offset + Len(named.c[s].data)
      BY <2>4, <2>6 DEF Fits, PageEnd
    <3>3. s \in WaitingFor(named.c, obj)
      BY <2>2, <2>4, <2>6
    <3>4. WroteAll(stored(named), f, obj, offset, data)
      BY <1>2, <1>3, <1>4, <2>1, <2>4, <2>5, <3>2, <3>3, WriteToPage
    <3> QED BY <3>1, <3>4
  <2>7. ASSUME ~inside, Cleared(cleared, f, obj)
        PROVE  WroteAll(done, f, obj, offset, data)
    <3>1. cleared.ok = TRUE
      BY <2>7 DEF Cleared
    <3> HIDE DEF cleared
    <3>2. CASE small
      <4> DEFINE p == Allocated(cleared, f, offset, kept)
      <4>1. /\ p.fds[f].page # None => WroteAll(stored(p), f, obj, offset, data)
            /\ p.fds[f].page = None =>
                  WroteAll(HydroWrite(p, obj, offset, data, room), f, obj, offset, data)
        BY <1>2, <1>3, <1>4, <2>7, WriteSmall
      <4>2. paged = p
        BY <2>7, <3>2
      <4> HIDE DEF p, paged
      <4>3. WroteAll(wrote, f, obj, offset, data)
        BY <3>2, <4>1, <4>2
      <4> QED BY <3>1, <4>3
    <3>3. CASE ~small
      <4>1. done = HydroWrite(cleared, obj, offset, data, room)
        BY <3>1, <3>3
      <4> HIDE DEF done
      <4>2. WroteAll(HydroWrite(cleared, obj, offset, data, room), f, obj, offset, data)
        BY <1>2, <1>3, <1>4, <2>7, WriteThrough
      <4> QED BY <4>1, <4>2
    <3> QED BY <3>2, <3>3
  <2>8. CASE s = None
    <3>1. cleared = named /\ ~inside
      BY <2>8
    <3>2. disk[obj] = meant[obj]
      BY <1>4, <2>3, <2>8, Begins DEF Safe, Shows, View
    <3>3. Cleared(named, f, obj)
      BY <1>4, <2>1, <2>3, <2>4, <2>5, <2>8, <3>2 DEF Cleared
    <3> QED BY <2>7, <3>1, <3>3
  <2>9. CASE s # None /\ ~inside
    <3>1. cleared = Dump(named, f, s, room)
      BY <2>9
    <3>2. s \in WaitingFor(named.c, named.fds[f].obj)
      BY <2>2, <2>4, <2>9
    <3>3. DumpDoes(named, cleared, f, s)
      BY <2>1, <2>4, <3>1, <3>2, DumpIs
    <3> HIDE DEF cleared
    <3>4. Flushed(named, cleared, f, meant)
      BY <2>1, <2>4, <3>2, <3>3, DumpSafe
    <3>5. CASE cleared.ok
      <4>1. cleared.ok = TRUE /\ cleared.lost = {}
        BY <3>3, <3>5 DEF DumpDoes
      <4>2. cleared.fds[f].open /\ cleared.fds[f].obj = obj /\ cleared.fds[f].page = None
        <5>1. named.fds[f] \in Descriptor
          BY <2>1 DEF Safe, Typed, Calling
        <5> QED BY <2>4, <3>4, <5>1 DEF Flushed, Descriptor
      <4>3. WaitingFor(cleared.c, obj) = {} /\ cleared.disk[obj] = meant[obj]
        BY <2>4, <3>4, <4>1 DEF Flushed
      <4>4. OnlyDrops(cpages, cleared.c) /\ Safe(cleared, meant)
        BY <2>4, <3>4 DEF Flushed
      <4>5. Cleared(cleared, f, obj)
        BY <1>4, <4>1, <4>2, <4>3, <4>4, Begins DEF Cleared
      <4> QED BY <2>7, <2>9, <4>5
    <3>6. CASE ~cleared.ok
      <4>1. done = cleared
        BY <3>6
      <4>2. cleared.ok = FALSE
        BY <3>3, <3>6 DEF DumpDoes
      <4>3. OnlyDrops(cpages, cleared.c) /\ Safe(cleared, meant)
        BY <2>4, <3>4 DEF Flushed
      <4>4. WroteAll(cleared, f, obj, offset, data)
        BY <4>2, <4>3 DEF WroteAll
      <4> QED BY <4>1, <4>4
    <3> QED BY <3>5, <3>6
  <2> QED BY <2>6, <2>8, <2>9
<1> HIDE DEF done, offset, after, obj
<1> QED BY <1>3, <1>4, <1>5, <1>6, <1>7, <1>8, WriteEnds

-----------------------------------------------------------------------------
\* The theorems.

\* The invariant holds on a fresh file system.
LEMMA InitIInv == Init => IInv
<1> SUFFICES ASSUME Init PROVE IInv
  OBVIOUS
<1>1. Free \in CachePage /\ Free.kind = "free"
  BY EmptySeq DEF Free, CachePage
<1>2. /\ cpages \in [Slots -> CachePage] /\ \A s \in Slots : cpages[s].kind = "free"
      /\ older \in [Slots -> SUBSET Slots] /\ \A s \in Slots : older[s] = {}
  BY <1>1 DEF Init
<1>3. fds \in [Fds -> Descriptor] /\ \A f \in Fds : ~fds[f].open /\ fds[f].page = None
  <2>1. Shut([page |-> None]) \in Descriptor
    BY CacheAssumption DEF Shut, Descriptor
  <2>2. ~Shut([page |-> None]).open /\ Shut([page |-> None]).page = None
    BY DEF Shut
  <2> QED BY <2>1, <2>2 DEF Init, NoFds
<1>4. disk = [o \in Objs |-> None] /\ meant = disk /\ lost = {} /\ leaving = FALSE
  BY DEF Init
<1>5. Copies(cpages) = {} /\ Ages(cpages, older)
  BY <1>2 DEF Copies, Ages
<1>6. This \in Calling
  BY <1>2, <1>3, <1>4 DEF This, Calling
<1>7. Safe(This, meant)
  BY <1>2, <1>3, <1>4, <1>5, <1>6 DEF Safe, Typed, Short, Tied, Shows, Placed, This
<1>8. Coherent
  BY <1>2 DEF Coherent
<1>9. flash \in [Pix -> SUBSET Bits] /\ meant \in [Objs -> Seq(Nat) \cup {None}]
  BY <1>4 DEF Init
<1> QED BY <1>4, <1>7, <1>8, <1>9 DEF IInv

\* Every step keeps the invariant.
LEMMA StepIInv == IInv /\ [Next]_vars => IInv'
<1> SUFFICES ASSUME IInv, [Next]_vars PROVE IInv'
  OBVIOUS
<1>1. CASE UNCHANGED vars
  BY <1>1 DEF vars, IInv, Safe, Typed, Short, Tied, Shows, Placed, This, Coherent
<1>2. ASSUME lost = {}, Pages PROVE IInv'
  BY <1>2, PhysRdStep, PhysWrStep, PhysDeleteStep, EraseBlockStep DEF Pages
<1>3. ASSUME lost = {}, Calls, UNCHANGED leaving PROVE IInv'
  <2>1. ASSUME NEW f \in Fds, NEW data \in Data, Write(f, data) PROVE IInv'
    BY <1>3, <2>1, WriteStep
  <2>2. ASSUME NEW f \in Fds, FFlush(f) PROVE IInv'
    BY <1>3, <2>2, FFlushStep
  <2>3. ASSUME NEW f \in Fds, Seek(f, 1) PROVE IInv'
    BY <1>3, <2>3, SeekStep
  <2>4. ASSUME NEW f \in Fds, Read(f) PROVE IInv'
    BY <1>3, <2>4, ReadStep
  <2>5. ASSUME NEW f \in Fds, Close(f) PROVE IInv'
    BY <1>3, <2>5, CloseStep
  <2>6. ASSUME NEW f \in Fds, FRemove(f) PROVE IInv'
    BY <1>3, <2>6, FRemoveStep
  <2>7. ASSUME NEW f \in Fds, NEW obj \in Objs, NEW append \in BOOLEAN, Open(f, obj, append)
        PROVE  IInv'
    BY <1>3, <2>7, OpenStep
  <2>8. ASSUME NEW obj \in Objs, Remove(obj) PROVE IInv'
    BY <1>3, <2>8, RemoveStep
  <2> QED BY <1>3, <2>1, <2>2, <2>3, <2>4, <2>5, <2>6, <2>7, <2>8 DEF Calls
<1>4. ASSUME lost = {}, Unmounting PROVE IInv'
  BY <1>4, UnmountFdStep, MountStep DEF Unmounting
<1> QED BY <1>1, <1>2, <1>3, <1>4 DEF Next

\* The invariant always holds.
LEMMA AlwaysIInv == Spec => []IInv
  BY InitIInv, StepIInv, PTL DEF Spec

\* Every reachable state has its type: among it, of any two copies one is the older,
\* so that the copy to be replaced is always determined, and no file outgrows its bound.
THEOREM TypeCorrect == Spec => []TypeOK
<1>1. IInv => TypeOK
  BY Begins, CopyFacts DEF IInv, Safe, Typed, Calling, TypeOK, Copies
<1> QED BY <1>1, AlwaysIInv, PTL

\* Reads, writes, deletions and erasures keep the copies equal to the flash, whatever
\* was evicted in between, and a page is never in the cache twice.
THEOREM CopiesAreCoherent == Spec => []Coherent
<1>1. IInv => Coherent
  BY DEF IInv
<1> QED BY <1>1, AlwaysIInv, PTL

\* Bytes that wait are found and flushed by a descriptor of their own object, and there
\* is one page of them for an object.
THEOREM NobodyIsStranded == Spec => []NoneStranded
<1>1. IInv => NoneStranded
  <2> SUFFICES ASSUME IInv PROVE NoneStranded
    OBVIOUS
  <2>1. Tied(This)
    BY Begins DEF Safe
  <2>2. ASSUME NEW o \in Objs PROVE Cardinality(WaitingFor(cpages, o)) <= 1
    <3>1. \A r, s \in WaitingFor(cpages, o) : r = s
      BY <2>1, Begins DEF Tied, WaitingFor
    <3>2. CASE WaitingFor(cpages, o) = {}
      BY <3>2, FS_EmptySet
    <3>3. CASE WaitingFor(cpages, o) # {}
      <4>1. PICK s : s \in WaitingFor(cpages, o)
        BY <3>3
      <4>2. WaitingFor(cpages, o) = {s}
        BY <3>1, <4>1
      <4> QED BY <4>2, FS_Singleton
    <3> QED BY <3>2, <3>3
  <2> QED BY <2>1, <2>2, Begins DEF NoneStranded, OnePerObject, Tied
<1> QED BY <1>1, AlwaysIInv, PTL

\* Whatever descriptors wrote, in whatever order their pages were flushed or taken, a
\* file holds the bytes that were accepted, until a failed flush or a removal loses
\* bytes that waited.
THEOREM AcceptedIsKept == Spec => []KeepsWrites
<1>1. IInv => KeepsWrites
  BY Begins DEF Safe, Shows, KeepsWrites
<1> QED BY <1>1, AlwaysIInv, PTL

=============================================================================
