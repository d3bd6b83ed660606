----------------------------- MODULE SpiffsCache -----------------------------
(***************************************************************************)
(* The page cache of SPIFFS (src/ESP32/components/spiffs/spiffs_cache.c)   *)
(* and the calls that write through it (spiffs_hydrogen.c).                *)
(*                                                                         *)
(* A cache page holds either a copy of a flash page, which reads fill and  *)
(* writes update, or bytes written to an object that are not on the flash  *)
(* yet.  The former make room for others, oldest first; the latter stay    *)
(* until a descriptor of the object flushes them.                          *)
(*                                                                         *)
(* Below the calls, a file is the bytes of its object: SpiffsStore shows   *)
(* how the flash holds them.  A write there may fail, the flash being full.*)
(***************************************************************************)
EXTENDS Integers, Sequences, FiniteSets

CONSTANTS
    Slots,       \* cache pages, 1 .. cpage_count
    Pix,         \* page indices
    Lookup,      \* those of lookup pages
    BlockPages,  \* the pages of each block
    Bits,        \* what a page can hold: the bits that are still ones
    None,        \* no page, no object
    Objs,        \* object ids
    Fds,         \* descriptors
    PageLen,     \* bytes per cache page
    Data,        \* byte sequences a write may carry
    MaxLen       \* bound on the length of a file

ASSUME CacheAssumption ==
    /\ Slots \subseteq Nat \ {0} /\ None \notin Pix \cup Objs \cup Slots
    /\ Lookup \subseteq Pix /\ BlockPages \subseteq SUBSET Pix
    /\ PageLen \in Nat /\ MaxLen \in Nat
    /\ Data \subseteq Seq(Nat) /\ None \notin Seq(Nat)

VARIABLES
    flash,    \* pages, as the bits that are ones
    cpages,   \* the cache pages
    older,    \* for each copy, the copies whose last access (last_access) is older
    disk,     \* the bytes of each object on the flash, None for no such object
    fds,      \* descriptors: open, obj, append, off (fdoffset), page (cache_page)
    meant,    \* the bytes the accepted writes make of each object
    lost,     \* objects with accepted bytes that waited and were not written
    leaving   \* SPIFFS_unmount is going through the descriptors

cacheVars == <<flash, cpages, older>>
fileVars == <<disk, fds, meant, lost, leaving>>
vars == <<flash, cpages, older, disk, fds, meant, lost, leaving>>

Free == [kind |-> "free", pix |-> None, copy |-> {}, obj |-> None, offset |-> 0, data |-> <<>>]
Copy(p, v) == [Free EXCEPT !.kind = "read", !.pix = p, !.copy = v]
Waiting(obj, offset) == [Free EXCEPT !.kind = "write", !.obj = obj, !.offset = offset]

FreeSlots(c) == {s \in Slots : c[s].kind = "free"}
Copies(c) == {s \in Slots : c[s].kind = "read"}
CopiesOf(c, p) == {s \in Copies(c) : c[s].pix = p}
WaitingFor(c, obj) == {s \in Slots : c[s].kind = "write" /\ c[s].obj = obj}
First(S) == CHOOSE s \in S : \A t \in S : s <= t

\* The pages and the ages after pages are freed.
Freed(c, S) == [s \in Slots |-> IF s \in S THEN Free ELSE c[s]]
Forgot(o, S) == [s \in Slots |-> IF s \in S THEN {} ELSE o[s] \ S]

\* A mutant: a place that is used again keeps its age.
SameAge(c, o, s) == o

\* The ages after an access to a copy of c.
Touched(c, o, s) == [Forgot(o, {s}) EXCEPT ![s] = Copies(c) \ {s}]

-----------------------------------------------------------------------------
\* The read cache.

\* spiffs_cache_page_remove_oldest: only when no page is free, and never a write
\* page.
Oldest(c, o) == IF FreeSlots(c) = {} THEN {s \in Copies(c) : o[s] = {}} ELSE {}

\* spiffs_phys_rd of a page, for anything but a scan of page headers: a copy is
\* only looked at; else the page is copied, into the place of the oldest copy if
\* need be, unless all places hold bytes that wait.
PhysRd(p) ==
    LET hit == CopiesOf(cpages, p)
        room == Freed(cpages, Oldest(cpages, older))
        s == First(FreeSlots(room))
    IN /\ UNCHANGED <<flash, fileVars>>
       /\ \/ /\ hit # {}
             /\ older' = Touched(cpages, older, First(hit))
             /\ UNCHANGED cpages
          \/ /\ hit = {} /\ FreeSlots(room) # {}
             /\ cpages' = [room EXCEPT ![s] = Copy(p, flash[p])]
             /\ older' = Touched(room, Forgot(older, Oldest(cpages, older)), s)

\* spiffs_phys_wr: flash programs the bits that are cleared, a copy takes what is
\* written.  Callers only ever clear bits (see SpiffsStore!CellsOnce).
PhysWr(p, v) ==
    LET hit == CopiesOf(cpages, p) IN
    /\ v \subseteq flash[p]
    /\ flash' = [flash EXCEPT ![p] = @ \cap v]
    /\ cpages' = IF hit = {} THEN cpages ELSE [cpages EXCEPT ![First(hit)].copy = v]
    /\ older' = IF hit = {} THEN older ELSE Touched(cpages, older, First(hit))
    /\ UNCHANGED fileVars

\* The write that deletes a page, unless it is a lookup page, drops its copy.
PhysDelete(p, v) ==
    LET hit == CopiesOf(cpages, p)
        copy == IF hit = {} THEN {} ELSE {First(hit)}
    IN /\ p \notin Lookup /\ v \subseteq flash[p]
       /\ flash' = [flash EXCEPT ![p] = @ \cap v]
       /\ cpages' = Freed(cpages, copy)
       /\ older' = Forgot(older, copy)
       /\ UNCHANGED fileVars

\* A mutant: the copies of the erased pages stay.
NoneDropped(c, pages) == {}

\* spiffs_gc_erase_block: erase, write the count and the magic past the cache, then
\* drop the copies of the block.
Dropped(c, pages) == {s \in Copies(c) : c[s].pix \in pages}

EraseBlock(pages, header) ==
    /\ pages \in BlockPages
    /\ flash' = [p \in Pix |-> IF p \notin pages THEN flash[p]
                              ELSE IF p \in Lookup THEN header ELSE Bits]
    /\ cpages' = Freed(cpages, Dropped(cpages, pages))
    /\ older' = Forgot(older, Dropped(cpages, pages))
    /\ UNCHANGED fileVars

-----------------------------------------------------------------------------
\* Files.  A call on files maps a record t of the variables to another:
\* t.c (cpages), t.older, t.disk, t.fds, t.lost and t.ok, its result.

This == [c |-> cpages, older |-> older, disk |-> disk, fds |-> fds, lost |-> lost, ok |-> TRUE]
Is(t) == /\ cpages' = t.c /\ older' = t.older /\ disk' = t.disk
         /\ fds' = t.fds /\ lost' = t.lost
         /\ UNCHANGED flash

Larger(m, n) == IF m > n THEN m ELSE n

\* What is written over, with a hole (which only lost bytes can leave) as zeros.
Put(bytes, offset, data) ==
    [i \in 1 .. Larger(Len(bytes), offset + Len(data)) |->
        IF i - offset \in 1 .. Len(data) THEN data[i - offset]
        ELSE IF i <= Len(bytes) THEN bytes[i] ELSE 0]

\* spiffs_hydro_write: all or, when there is no room, nothing (SpiffsStore has the
\* parts).  An offset behind the end is the end, unless the object is empty, where
\* there is no page to write to.
HydroWrite(t, obj, offset, data, room) ==
    LET bytes == t.disk[obj]
        at == IF offset > Len(bytes) THEN Len(bytes) ELSE offset
    IN IF room /\ ~(bytes = <<>> /\ offset > 0)
       THEN [t EXCEPT !.disk[obj] = Put(bytes, at, data)]
       ELSE [t EXCEPT !.ok = FALSE]

\* A mutant: the other descriptors remember the page.
FreeOnly(t, s) == [t EXCEPT !.c[s] = Free]

\* spiffs_cache_fd_release: free the page, and forget it in every open descriptor.
Release(t, s) ==
    [t EXCEPT !.c[s] = Free,
              !.fds = [g \in Fds |-> IF @[g].open /\ @[g].page = s
                                     THEN [@[g] EXCEPT !.page = None] ELSE @[g]]]

\* The page of the descriptor, or else the one that waits for its object.
PageOf(t, f) ==
    LET waiting == WaitingFor(t.c, t.fds[f].obj) IN
    IF t.fds[f].page # None THEN t.fds[f].page
    ELSE IF waiting # {} THEN First(waiting) ELSE None

\* Write the waiting bytes, at their offset, to the object of the descriptor; the
\* page goes, whether or not this worked, and its bytes are lost if not.
Dump(t, f, s, room) ==
    LET wrote == HydroWrite(t, t.fds[f].obj, t.c[s].offset, t.c[s].data, room)
    IN Release([wrote EXCEPT !.lost = IF wrote.ok THEN @ ELSE @ \cup {t.fds[f].obj}], s)

Flush(t, f, room) ==
    LET s == PageOf(t, f) IN IF s = None THEN t ELSE Dump(t, f, s, room)

\* spiffs_cache_page_allocate_by_fd: a free page, or the place of the oldest copy,
\* which is not taken (kept) if it is the only one and was used by the last access.
Allocated(t, f, offset, kept) ==
    LET victims == IF kept /\ Cardinality(Copies(t.c)) = 1 THEN {} ELSE Oldest(t.c, t.older)
        c == Freed(t.c, victims)
        s == First(FreeSlots(c))
    IN IF FreeSlots(c) = {} THEN [t EXCEPT !.fds[f].page = None]
       ELSE [t EXCEPT !.c = [c EXCEPT ![s] = Waiting(t.fds[f].obj, offset)],
                      !.older = Forgot(@, victims),
                      !.fds[f].page = s]

-----------------------------------------------------------------------------
\* Calls.

Size(f) == Len(disk[fds[f].obj])
PageEnd(s) == cpages[s].offset + Len(cpages[s].data)

\* A mutant: the bytes that wait do not count.
DiskEnd(f) == Size(f)

\* Where an appending descriptor writes.
AppendAt(f) == LET s == PageOf(This, f)
               IN IF s = None THEN Size(f) ELSE Larger(Size(f), PageEnd(s))

\* Do the bytes fit into the page: no hole before them, no end behind its end?
Fits(s, offset, len) == /\ cpages[s].offset <= offset /\ offset <= PageEnd(s)
                        /\ offset + len <= cpages[s].offset + PageLen

\* SPIFFS_write.  Less than a page goes to the page of the object, after what does
\* not fit with it was written, or to the flash if there is no page to get; more
\* goes to the flash, after what waits.
Write(f, data) ==
    LET fd == fds[f]
        offset == IF fd.append THEN AppendAt(f) ELSE fd.off
        after == (IF fd.append THEN Size(f) ELSE fd.off) + Len(data)
        s == PageOf(This, f)
        named == [This EXCEPT !.fds[f].page = s]
        small == Len(data) < PageLen
        inside == small /\ s # None /\ Fits(s, offset, Len(data))
        stored(t) == [t EXCEPT !.c[t.fds[f].page].data =
                                  Put(@, offset - t.c[t.fds[f].page].offset, data)]
    IN /\ fd.open /\ offset + Len(data) <= MaxLen
       /\ \E room, kept \in BOOLEAN :
            LET cleared == IF s = None \/ inside THEN named ELSE Dump(named, f, s, room)
                paged == IF inside \/ ~small THEN cleared ELSE Allocated(cleared, f, offset, kept)
                wrote == IF small /\ paged.fds[f].page # None THEN stored(paged)
                         ELSE HydroWrite(paged, fd.obj, offset, data, room)
                done == IF cleared.ok THEN wrote ELSE cleared
            IN /\ Is(IF done.ok THEN [done EXCEPT !.fds[f].off = after] ELSE done)
               /\ meant' = IF done.ok
                           THEN [meant EXCEPT ![fd.obj] =
                                    Put(@, IF fd.append THEN Len(@) ELSE fd.off, data)]
                           ELSE meant

\* SPIFFS_fflush; SPIFFS_fstat, SPIFFS_eof and SPIFFS_tell do as much.
FFlush(f) == /\ fds[f].open
             /\ \E room \in BOOLEAN : Is(Flush(This, f, room))
             /\ UNCHANGED meant

\* SPIFFS_lseek to an offset: it looks at no failure of the flush.
Seek(f, to) ==
    /\ fds[f].open
    /\ \E room \in BOOLEAN :
          LET t == Flush(This, f, room)
              size == Len(t.disk[fds[f].obj])
          IN Is([t EXCEPT !.fds[f].off = IF to > size THEN size ELSE to])
    /\ UNCHANGED meant

\* SPIFFS_read of the rest of the file.  An empty file ends at once, its waiting
\* bytes stay where they are.
Read(f) ==
    /\ fds[f].open /\ Size(f) > 0
    /\ \E room \in BOOLEAN :
          LET t == Flush(This, f, room)
          IN Is([t EXCEPT !.fds[f].off = Larger(@, Len(t.disk[fds[f].obj]))])
    /\ UNCHANGED meant

\* A closed descriptor: all it held but its page is written by the next open before
\* it is read.
Shut(fd) == [open |-> FALSE, obj |-> None, append |-> FALSE, off |-> 0, page |-> fd.page]

\* SPIFFS_open, of an object that is there or a new one: the descriptor keeps the
\* page of its last life.
Open(f, obj, append) ==
    /\ ~fds[f].open
    /\ fds' = [fds EXCEPT ![f] = [@ EXCEPT !.open = TRUE, !.obj = obj, !.append = append, !.off = 0]]
    /\ IF disk[obj] # None THEN UNCHANGED <<disk, meant>>
       ELSE /\ disk' = [disk EXCEPT ![obj] = <<>>]
            /\ meant' = [meant EXCEPT ![obj] = <<>>]
    /\ UNCHANGED <<cacheVars, lost>>

\* SPIFFS_close: a descriptor whose flush fails stays open.
Close(f) == /\ fds[f].open
            /\ \E room \in BOOLEAN :
                  LET t == Flush(This, f, room)
                  IN Is(IF t.ok THEN [t EXCEPT !.fds[f] = Shut(@)] ELSE t)
            /\ UNCHANGED meant

\* The object goes: its descriptors are closed by the event, a page that waits
\* for it stays.
Gone(t, obj) == [t EXCEPT !.disk[obj] = None,
                   !.lost = IF WaitingFor(t.c, obj) = {} THEN @ ELSE @ \cup {obj},
                   !.fds = [g \in Fds |-> IF @[g].open /\ @[g].obj = obj
                                          THEN Shut(@[g]) ELSE @[g]]]

\* SPIFFS_remove by name, and SPIFFS_fremove, which releases the page of its own
\* descriptor.
Remove(obj) == /\ disk[obj] # None
               /\ Is(Gone(This, obj))
               /\ meant' = [meant EXCEPT ![obj] = None]
FRemove(f) ==
    LET s == fds[f].page
    IN /\ fds[f].open
       /\ Is(Gone(IF s = None THEN This ELSE Release(This, s), fds[f].obj))
       /\ meant' = [meant EXCEPT ![fds[f].obj] = None]

\* SPIFFS_unmount flushes and closes the open descriptors in turn, whether or not
\* the flush works.  No other call comes between: it holds the lock of the file
\* system.
UnmountFd(f) ==
    /\ fds[f].open /\ leaving' = TRUE
    /\ \E room \in BOOLEAN : Is([Flush(This, f, room) EXCEPT !.fds[f] = Shut(@)])
    /\ UNCHANGED meant

\* Mounting again clears the cache and the descriptors.
NoFds == [f \in Fds |-> Shut([page |-> None])]
Mount ==
    /\ \A f \in Fds : ~fds[f].open
    /\ leaving' = FALSE
    /\ fds' = NoFds /\ cpages' = [s \in Slots |-> Free] /\ older' = [s \in Slots |-> {}]
    /\ UNCHANGED <<flash, disk, meant, lost>>

Init == /\ flash = [p \in Pix |-> Bits]
        /\ cpages = [s \in Slots |-> Free] /\ older = [s \in Slots |-> {}]
        /\ disk = [o \in Objs |-> None] /\ meant = disk
        /\ fds = NoFds /\ lost = {} /\ leaving = FALSE

Pages == \/ \E p \in Pix : \/ PhysRd(p)
                           \/ \E v \in SUBSET Bits : PhysWr(p, v) \/ PhysDelete(p, v)
         \/ \E pages \in BlockPages, header \in SUBSET Bits : EraseBlock(pages, header)

\* A file removed under waiting bytes leaves their page to the next object of that
\* id, and to the next use of a descriptor that had it; a failed flush leaves
\* descriptors at offsets the file does not have.  The model ends with the first
\* loss.
Calls ==
    \/ \E f \in Fds :
          \/ \E data \in Data : Write(f, data)
          \/ FFlush(f) \/ Seek(f, 1) \/ Read(f) \/ Close(f) \/ FRemove(f)
          \/ \E obj \in Objs, append \in BOOLEAN : Open(f, obj, append)
    \/ \E obj \in Objs : Remove(obj)

Unmounting == (\E f \in Fds : UnmountFd(f)) \/ Mount

Next == lost = {} /\ \/ Pages
                     \/ ~leaving /\ Calls /\ UNCHANGED leaving
                     \/ Unmounting

Spec == Init /\ [][Next]_vars

-----------------------------------------------------------------------------
\* Properties.

CachePage == [kind : {"free", "read", "write"}, pix : Pix \cup {None}, copy : SUBSET Bits,
              obj : Objs \cup {None}, offset : Nat, data : Seq(Nat)]
Descriptor == [open : BOOLEAN, obj : Objs \cup {None}, append : BOOLEAN, off : 0 .. MaxLen,
               page : Slots \cup {None}]

\* Of any two copies one is older: the next to go is determined, and it is a copy.
Ages(c, o) ==
    /\ \A s \in Slots : o[s] \subseteq Copies(c) \ {s}
    /\ \A s \in Slots \ Copies(c) : o[s] = {}
    /\ \A s, t \in Copies(c) : s # t => (s \in o[t] <=> t \notin o[s])
    /\ \A s, t \in Copies(c) : s \in o[t] => o[s] \subseteq o[t]

TypeOK ==
    /\ flash \in [Pix -> SUBSET Bits]
    /\ cpages \in [Slots -> CachePage]
    /\ \A s \in Slots : cpages[s].kind = "read" => cpages[s].pix \in Pix
    /\ older \in [Slots -> SUBSET Slots]
    /\ disk \in [Objs -> Seq(Nat) \cup {None}] /\ meant \in [Objs -> Seq(Nat) \cup {None}]
    /\ fds \in [Fds -> Descriptor]
    /\ Ages(cpages, older)
    /\ lost \in SUBSET Objs /\ leaving \in BOOLEAN

\* What a read finds in the cache is what the flash holds, and a page is in the
\* cache once.
Coherent == \A s, t \in Slots : cpages[s].kind = "read" =>
    /\ cpages[s].copy = flash[cpages[s].pix]
    /\ (cpages[t].kind = "read" /\ cpages[t].pix = cpages[s].pix) => s = t

\* Through whichever descriptors it was written, a file holds what was accepted:
\* on the flash, but for the bytes that wait.
View(c, d, obj) ==
    LET waiting == WaitingFor(c, obj)
        w == c[First(waiting)]
    IN IF waiting = {} THEN d[obj] ELSE Put(d[obj], w.offset, w.data)
KeepsWrites == \A o \in Objs \ lost : disk[o] # None => View(cpages, disk, o) = meant[o]

\* spiffs_cache.c:230: "it is ensured that there is no already existing cache page
\* with same object id".
OnePerObject == \A o \in Objs : Cardinality(WaitingFor(cpages, o)) <= 1

\* Every page that waits has an open descriptor left to flush it, unless its object
\* is lost, and no descriptor would flush the page of another object.
NoneStranded ==
    /\ OnePerObject
    /\ \A s \in Slots : cpages[s].kind = "write" =>
          \/ cpages[s].obj \in lost
          \/ \E f \in Fds : fds[f].open /\ fds[f].obj = cpages[s].obj
    /\ \A f \in Fds : (fds[f].open /\ fds[f].page # None) =>
          fds[f].page \in WaitingFor(cpages, fds[f].obj)
=============================================================================
