----------------------------- MODULE SpiffsFlash -----------------------------
(***************************************************************************)
(* The flash under SPIFFS and the writes the file system makes to it       *)
(* (src/ESP32/components/spiffs/spiffs_nucleus.c, spiffs_nucleus.h).       *)
(*                                                                         *)
(* A block has Entries pages and, at its start, a lookup with one entry    *)
(* per page, a count of its erasures and a magic.  An erased cell holds    *)
(* ones (Blank); programming a cell can only clear bits: a cell programmed *)
(* twice holds what both values have in common, and its page is mixed, as  *)
(* is every page such a page is copied to.                                 *)
(*                                                                         *)
(* An API call runs under one mutex, so an operator maps the state of the  *)
(* call, a record s, to the next one:                                      *)
(*   s.flash   the flash        s.trail  the flash after every write made  *)
(*   s.fs      struct spiffs    s.fds    the descriptors                   *)
(*   s.work    fs->work         s.res    the result so far                 *)
(*   s.pix     the page index returned by the callee                       *)
(* Registers of the loops over a file: written, ixSpan, ixPix, cut, brk,   *)
(* and read, the bytes read.                                               *)
(***************************************************************************)
EXTENDS Integers, Sequences, FiniteSets

CONSTANTS
    Blocks,          \* number of logical blocks
    Entries,         \* lookup entries (object pages) per block
    SectorEntries,   \* pages of a block in the erase sector of its lookup
    PageLen,         \* data bytes per page
    HdrRefs, IxRefs, \* data page references in an index header, in an index page
    Blank, Mixed     \* an erased cell; two names, or two entries, in one cell

ASSUME GeometryAssumption ==
    /\ Blocks \in Nat /\ Blocks >= 3
    /\ {Entries, SectorEntries, PageLen, HdrRefs, IxRefs} \subseteq Nat \ {0}
    /\ SectorEntries <= Entries

ASSUME CellAssumption == Blank \notin Int /\ Mixed \notin Int /\ Blank # Mixed

Pages == 1 .. Blocks * Entries
PixOf(bix, entry) == bix * Entries + entry + 1
BlockOf(pix) == (pix - 1) \div Entries
EntryOf(pix) == (pix - 1) % Entries
PagesOf(bix) == {PixOf(bix, e) : e \in 0 .. Entries - 1}

\* Lookup entries: Blank is free; the index pages of object n are filed under
\* Index(n), n with SPIFFS_OBJ_ID_IX_FLAG set.
Deleted == 0
Index(id) == -id
IsData(id) == id \in 1 .. Blocks * Entries
IsIndex(id) == id \in -Blocks * Entries .. -1
ObjectOf(id) == IF id < 0 THEN -id ELSE id

Bits == {"used", "final", "index", "delet", "ixdele"}
BodyLen == CHOOSE n \in {PageLen, HdrRefs, IxRefs} :
               \A m \in {PageLen, HdrRefs, IxRefs} : m <= n
Erased == [id |-> Blank, span |-> Blank, flags |-> Bits, name |-> Blank,
           size |-> Blank, body |-> [i \in 1 .. BodyLen |-> Blank], mixed |-> FALSE]

\* The bits two numbers have in common; a negative one has the index flag.
BitAnd(a, b) ==
    LET common[m, n \in Nat] == IF m = 0 \/ n = 0 THEN 0
                               ELSE 2 * common[m \div 2, n \div 2] + (m % 2) * (n % 2)
    IN IF a < 0 /\ b < 0 THEN -common[-a, -b] ELSE common[ObjectOf(a), ObjectOf(b)]
And(old, new) == CASE old = Blank -> new
                   [] new \in {Blank, old} -> old
                   [] {old, new} \subseteq Int -> BitAnd(old, new)
                   [] OTHER -> Mixed
Clash(old, new) == Blank \notin {old, new} /\ old # new
AndPage(old, new) ==
    [id |-> And(old.id, new.id), span |-> And(old.span, new.span),
     flags |-> old.flags \cap new.flags,
     name |-> And(old.name, new.name), size |-> And(old.size, new.size),
     body |-> [i \in 1 .. BodyLen |-> And(old.body[i], new.body[i])],
     mixed |-> \/ old.mixed \/ new.mixed
               \/ Clash(old.id, new.id) \/ Clash(old.span, new.span)
               \/ Clash(old.name, new.name) \/ Clash(old.size, new.size)
               \/ \E i \in 1 .. BodyLen : Clash(old.body[i], new.body[i])]

\* The page header the code builds before it programs it.
Header(id, span, cleared) ==
    [Erased EXCEPT !.id = id, !.span = span, !.flags = Bits \ cleared]

-----------------------------------------------------------------------------
\* Calls: SPIFFS_CHECK_RES returns the first failure to the caller, so that every
\* operator that does something leaves a failed call as it is.

Ok(s) == s.res = "OK"
Fail(s, code) == [s EXCEPT !.res = code]

\* One write through the HAL: the flash it leaves is one power loss can leave.
Wrote(s, flash) == [s EXCEPT !.flash = flash, !.trail = Append(@, flash)]

SetLu(s, pix, id) ==
    Wrote(s, [s.flash EXCEPT !.lu[pix] = CASE id = Deleted -> Deleted
                                           [] @ = Blank -> id
                                           [] OTHER -> Mixed])

Program(s, pix, page) == Wrote(s, [s.flash EXCEPT !.page[pix] = AndPage(@, page)])

-----------------------------------------------------------------------------
\* The lookup scan from a cursor, wrapping around all blocks: the first page that
\* satisfies P, or 0.  A cursor behind the last entry of a block starts at the next
\* block.  One before the first entry (see CursorAt) reads the cell before lu_work,
\* the last one of fs->work, for the identifier of the lookup page; that page is
\* taken never to pass for one of an object.  The scan counts entries block by
\* block, so that it still sees every page.
ScanFrom(cursor, P(_)) ==
    LET n == Blocks * Entries
        start == CASE cursor.entry >= Entries -> ((cursor.bix + 1) % Blocks) * Entries
                   [] cursor.entry < 0 -> cursor.bix * Entries
                   [] OTHER -> cursor.bix * Entries + cursor.entry
        at(k) == 1 + ((start + k) % n)
        hits == {k \in 0 .. n - 1 : P(at(k))}
    IN IF hits = {} THEN 0
       ELSE at(CHOOSE k \in hits : \A j \in hits : k <= j)

\* The cursor at a page.  Page 0 of the code (no page) is the lookup page of
\* block 0, which stands before its first entry.
CursorAt(pix) == IF pix = 0 THEN [bix |-> 0, entry |-> -1]
                 ELSE [bix |-> BlockOf(pix), entry |-> EntryOf(pix)]

\* The flash with pages erased, and with the first sector of a block: the lookup,
\* the count and the magic are in it.
Wiped(flash, pages) ==
    [flash EXCEPT !.page = [p \in Pages |-> IF p \in pages THEN Erased ELSE flash.page[p]]]
Opened(flash, bix) ==
    [Wiped(flash, {PixOf(bix, e) : e \in 0 .. SectorEntries - 1}) EXCEPT
        !.lu = [p \in Pages |-> IF BlockOf(p) = bix THEN Blank ELSE flash.lu[p]],
        !.count[bix] = Blank, !.magic[bix] = FALSE]

\* Erase the sectors of a block, then register its erase count, then its magic.
First(s, bix) == Wrote(s, Opened(s.flash, bix))
Others(s, bix) == IF SectorEntries = Entries THEN s ELSE Wrote(s, Wiped(s.flash, PagesOf(bix)))
Counted(s, bix) == Wrote(s, [s.flash EXCEPT !.count[bix] = s.fs.maxErase])
Marked(s, bix) == Wrote(s, [s.flash EXCEPT !.magic[bix] = TRUE])
EraseBlock(s, bix) ==
    [Marked(Counted(Others(First(s, bix), bix), bix), bix) EXCEPT
        !.fs.freeBlocks = @ + 1, !.fs.maxErase = @ + 1]

Free(flash, pages) == {p \in pages : flash.lu[p] = Blank}
Dead(flash, pages) == {p \in pages : flash.lu[p] = Deleted}
Live(flash, pages) == pages \ (Free(flash, pages) \cup Dead(flash, pages))
FreeBlocksOf(flash) == {b \in 0 .. Blocks - 1 : flash.lu[PixOf(b, 0)] = Blank}

\* The mount scan: one block without its magic is one whose erasure was
\* interrupted, and is erased again; with two there is no file system.  Then the
\* counters are taken from the lookup entries.
Unfinished(flash) == {b \in 0 .. Blocks - 1 : ~flash.magic[b]}
\* Mutants: one such block is enough; it gets its count but no magic.
StrictNoFileSystem(flash) == Unfinished(flash) # {}
CountOnly(s) == Wrote(s, [s.flash EXCEPT !.count = [b \in 0 .. Blocks - 1 |->
                    IF @[b] = Blank THEN s.fs.maxErase ELSE @[b]]])

NoFileSystem(flash) == Cardinality(Unfinished(flash)) > 1
Repair(s) == IF Unfinished(s.flash) = {} THEN s
             ELSE EraseBlock(s, CHOOSE b \in Unfinished(s.flash) : TRUE)
LuScan(s) ==
    LET counts == {s.flash.count[b] : b \in 0 .. Blocks - 1} \ {Blank}
        final == IF counts = {} THEN 1
                 ELSE 1 + CHOOSE c \in counts : \A d \in counts : d <= c
        counted(t) == [t EXCEPT !.fs.freeBlocks = Cardinality(FreeBlocksOf(t.flash)),
                                !.fs.allocated = Cardinality(Live(t.flash, Pages)),
                                !.fs.deleted = Cardinality(Dead(t.flash, Pages))]
    IN IF NoFileSystem(s.flash) THEN Fail(s, "NOT_A_FS")
       ELSE counted(Repair([s EXCEPT !.fs.maxErase = final]))

\* Erase the first block with nothing in use and at most maxFree free entries.
GcQuick(s, maxFree) ==
    LET fits(b) == /\ Live(s.flash, PagesOf(b)) = {}
                   /\ Cardinality(Free(s.flash, PagesOf(b))) <= maxFree
        cands == {b \in 0 .. Blocks - 1 : fits(b)}
        erased(b) == EraseBlock([s EXCEPT !.fs.deleted =
                         @ - Cardinality(Dead(s.flash, PagesOf(b)))], b)
    IN IF cands = {} THEN Fail(s, "NO_DELETED_BLOCKS")
       ELSE erased(CHOOSE b \in cands : \A c \in cands : b <= c)

\* Find a free lookup entry from the free cursor; without two free blocks a fully
\* deleted one is erased first.  While a block is being cleaned neither applies.
\* Only the lookup is asked: a move programs its page before the lookup entry, and
\* when the power went between the two, the page found here is not erased.  What is
\* programmed to it now adds to what it held.
FindFree(s) ==
    LET low == ~s.fs.cleaning /\ s.fs.freeBlocks < 2
        found(t, pix) ==
            CASE low /\ t.fs.freeBlocks < 2 -> Fail(t, "FULL")
              [] pix = 0 -> Fail(t, "NOT_FOUND")
              [] OTHER -> [t EXCEPT
                    !.pix = pix,
                    !.flash.page[pix].mixed = t.flash.page[pix] # Erased,
                    !.fs.freeCursor = [bix |-> BlockOf(pix), entry |-> EntryOf(pix) + 1],
                    !.fs.freeBlocks = IF EntryOf(pix) = 0 THEN @ - 1 ELSE @]
        search(t) == found(t, ScanFrom(t.fs.freeCursor, LAMBDA p : t.flash.lu[p] = Blank))
    IN IF ~Ok(s) THEN s
       ELSE IF low THEN search([GcQuick(s, 0) EXCEPT !.res = "OK"]) ELSE search(s)

-----------------------------------------------------------------------------
\* Pages.

\* Occupy a free page: the lookup entry, the header, the data, the final flag.
Occupied(s, id, header, data, finalize) ==
    LET lu == [SetLu(s, s.pix, id) EXCEPT !.fs.allocated = @ + 1]
        hdr == Program(lu, s.pix, [header EXCEPT !.flags = @ \ {"used"}])
        body == IF data = <<>> THEN hdr
                ELSE Program(hdr, s.pix, [Erased EXCEPT !.body = data])
    IN IF ~Ok(s) THEN s
       ELSE IF finalize /\ "final" \in header.flags
       THEN Program(body, s.pix, [Erased EXCEPT !.flags = header.flags \ {"used", "final"}])
       ELSE body

AllocateData(s, id, header, data, finalize) ==
    Occupied(FindFree(s), id, header, data, finalize)

\* A mutant: the page stays counted as allocated.
UncountedDelete(s, pix) ==
    CASE ~Ok(s) -> s
      [] pix \notin Pages -> Fail(s, "INTERNAL")
      [] OTHER -> Program([SetLu(s, pix, Deleted) EXCEPT !.fs.deleted = @ + 1], pix,
                          [Erased EXCEPT !.flags = @ \ {"delet", "used"}])

\* The HAL refuses a write outside the flash, as to the page of a Blank reference.
DeletePage(s, pix) ==
    LET lu == [SetLu(s, pix, Deleted) EXCEPT !.fs.deleted = @ + 1,
                                             !.fs.allocated = @ - 1]
    IN CASE ~Ok(s) -> s
         [] pix \notin Pages -> Fail(s, "INTERNAL")
         [] OTHER -> Program(lu, pix, [Erased EXCEPT !.flags = @ \ {"delet", "used"}])

\* A mutant: the copy ends after its first piece.
CopyHeader(s, dst, src) ==
    LET page == s.flash.page[src]
    IN Program(s, dst, [Header(page.id, page.span, {}) EXCEPT !.flags = page.flags])

\* spiffs_phys_cpy copies in pieces: the header of the page, then the rest.
CopyPage(s, dst, src) ==
    LET page == s.flash.page[src]
        hdr == Program(s, dst, [Header(page.id, page.span, {}) EXCEPT !.flags = page.flags])
    IN Program(hdr, dst, page)

\* Move a page to a free one: the copy is programmed before its lookup entry is,
\* and the source is deleted last.  With work set the page in fs->work is
\* written, unfinalized first; otherwise the source is copied as it is.
Moved(s, work, id, src) ==
    LET raw == [s.work EXCEPT !.flags = (@ \cup {"final"}) \ {"used"}]
        done == raw.flags \ {"final"}
        page == IF work THEN Program([s EXCEPT !.work = raw], s.pix, raw)
                ELSE CopyPage(s, s.pix, src)
        lu == [SetLu(page, s.pix, id) EXCEPT !.fs.allocated = @ + 1]
    IN IF ~Ok(s) THEN s
       ELSE IF work /\ "final" \notin s.work.flags
       THEN DeletePage(Program([lu EXCEPT !.work.flags = done], s.pix,
                               [Erased EXCEPT !.flags = done]), src)
       ELSE DeletePage(lu, src)

MovePage(s, work, id, src) == Moved(FindFree(s), work, id, src)
=============================================================================
