------------------------------ MODULE SpiffsGc ------------------------------
(***************************************************************************)
(* Index headers, the descriptors that follow them, and the garbage        *)
(* collector (spiffs_nucleus.c, spiffs_gc.c).                              *)
(*                                                                         *)
(* A descriptor s.fds[f] has open (file_nbr is not 0), used (score is not  *)
(* 0), obj, size (Blank is undefined: an empty file), hdr (objix_hdr_pix), *)
(* cspan and cpix (cursor_objix_spix and _pix), off (fdoffset), flags and  *)
(* name (name_hash).                                                       *)
(***************************************************************************)
EXTENDS SpiffsFlash

CONSTANTS
    WDelet, WUsed, WAge,   \* weights of SPIFFS_GC_HEUR_W_*, scaled to the geometry
    MaxRuns                \* SPIFFS_GC_MAX_RUNS

ASSUME RunsAssumption == MaxRuns \in Nat

\* Fold a step of a loop over 1 .. n.
Loop(n, s, Step(_, _)) ==
    LET run[k \in 0 .. n] == IF k = 0 THEN s ELSE Step(run[k - 1], k)
    IN run[n]

IxSpan(span) == IF span \in 0 .. HdrRefs - 1 THEN 0
                ELSE 1 + ((span - HdrRefs) \div IxRefs)
RefOf(span) == IF span < HdrRefs THEN span + 1 ELSE ((span - HdrRefs) % IxRefs) + 1

\* A mutant: the descriptors keep the place and size of the header.
CursorEvent(s, deleted, id, span, newPix, newSize) ==
    IF ~Ok(s) THEN s
    ELSE [s EXCEPT !.fds = [f \in DOMAIN s.fds |->
            IF s.fds[f].used /\ s.fds[f].obj = id /\ s.fds[f].cspan = span
            THEN [s.fds[f] EXCEPT !.cpix = IF deleted THEN 0 ELSE newPix] ELSE s.fds[f]]]

\* spiffs_cb_object_event: every descriptor of the object that was ever opened by
\* name takes the new place of its header, or of the index page at its cursor;
\* deleting the header closes it.
ObjectEvent(s, deleted, id, span, newPix, newSize) ==
    LET told(fd) ==
            LET h == CASE span # 0 -> fd
                       [] deleted  -> [fd EXCEPT !.open = FALSE, !.obj = Deleted]
                       [] OTHER    -> [fd EXCEPT !.hdr = newPix,
                                          !.size = IF newSize = 0 THEN @ ELSE newSize]
            IN IF fd.cspan = span
               THEN [h EXCEPT !.cpix = IF deleted THEN 0 ELSE newPix] ELSE h
    IN IF ~Ok(s) THEN s
       ELSE [s EXCEPT !.fds = [f \in DOMAIN s.fds |->
                IF s.fds[f].used /\ s.fds[f].obj = id THEN told(s.fds[f]) ELSE s.fds[f]]]

\* The descriptors follow an index page to the page just taken.
Followed(s, id, span) == ObjectEvent(s, FALSE, id, span, s.pix, 0)

\* SPIFFS_VALIDATE_OBJIX on the page in fs->work.
Validate(s, span) ==
    CASE ~Ok(s)                       -> s
      [] "used" \in s.work.flags     -> Fail(s, "IS_FREE")
      [] "delet" \notin s.work.flags -> Fail(s, "DELETED")
      [] "final" \in s.work.flags    -> Fail(s, "NOT_FINALIZED")
      [] "index" \in s.work.flags    -> Fail(s, "NOT_INDEX")
      [] s.work.span # span          -> Fail(s, "INDEX_SPAN_MISMATCH")
      [] OTHER                       -> s

Load(s, pix, span) == IF Ok(s) THEN Validate([s EXCEPT !.work = s.flash.page[pix]], span) ELSE s

\* spiffs_page_index_check without SPIFFS_PAGE_CHECK: only the range.
IndexCheck(s, pix) == IF pix \in Pages THEN s ELSE Fail(s, "INDEX_INVALID")

\* The page of this object and span, searched from the scan cursor.
IsPage(flash, pix, id, span) ==
    /\ flash.lu[pix] = id
    /\ flash.page[pix].id = id /\ flash.page[pix].span = span
    /\ flash.page[pix].flags \cap {"final", "delet", "used"} = {"delet"}
    /\ ~(IsIndex(id) /\ span = 0 /\ "ixdele" \notin flash.page[pix].flags)

FindIdAndSpan(s, id, span) ==
    LET matches(p) == IsPage(s.flash, p, id, span)
        pix == ScanFrom(s.fs.cursor, matches)
    IN IF pix = 0 THEN Fail(s, "NOT_FOUND")
       ELSE [s EXCEPT !.pix = pix, !.fs.cursor = CursorAt(pix)]

\* Write the header, from fs->work or freshly read, to a new page with a new name
\* (unless Blank) and size (unless 0), and tell the descriptors.
Edited(s, name, size) ==
    IF Ok(s) THEN [s EXCEPT !.work.name = IF name = Blank THEN @ ELSE name,
                            !.work.size = IF size = 0 THEN @ ELSE size] ELSE s
Announced(s, f, id) ==
    LET told == ObjectEvent(s, FALSE, id, s.work.span, s.pix, s.work.size)
    IN IF f = 0 \/ ~Ok(s) THEN told ELSE [told EXCEPT !.fds[f].hdr = s.pix]

UpdateHeader(s, f, id, hdr, work, name, size) ==
    LET loaded == IF work THEN Validate(s, 0) ELSE Load(s, hdr, 0)
    IN Announced(MovePage(Edited(loaded, name, size), TRUE, Index(id), hdr), f, id)

-----------------------------------------------------------------------------
\* The collector.

\* Pages the collector counts as free: two blocks are held back.
FreePages(fs) == Entries * (Blocks - 2) - fs.allocated - fs.deleted

\* The block to clean: entries are counted up to the first free one.
Candidate(s, crammed) ==
    LET scanned(b) == {p \in PagesOf(b) : \A q \in PagesOf(b) : q <= p => s.flash.lu[q] # Blank}
        age(b) == s.fs.maxErase - s.flash.count[b]
        score == [b \in 0 .. Blocks - 1 |->
                    Cardinality(Dead(s.flash, scanned(b))) * WDelet
                    - Cardinality(Live(s.flash, scanned(b))) * WUsed
                    + (IF crammed THEN 0 ELSE age(b) * WAge)]
    IN CHOOSE b \in 0 .. Blocks - 1 :
          \A c \in 0 .. Blocks - 1 : score[c] < score[b] \/ (score[c] = score[b] /\ b <= c)

\* The index page in fs->work refers to the page just taken.
Referring(s, ref) == IF Ok(s) THEN [s EXCEPT !.work.body[ref] = s.pix] ELSE s

\* Move a data page out of the block, if it belongs to the index page.
CleanPage(s, pix, id, span) ==
    LET page == s.flash.page[pix]
        mine == s.flash.lu[pix] = id /\ page.span \in Nat /\ IxSpan(page.span) = span
    IN CASE ~Ok(s) \/ ~mine -> s
         [] "delet" \in page.flags -> Referring(MovePage(s, FALSE, id, pix), RefOf(page.span))
         [] OTHER -> [DeletePage(s, pix) EXCEPT !.work.body[RefOf(page.span)] = Blank]

\* Write the index page that refers to their new places.
StoreCleaned(s, id, span, ixPix) ==
    IF span = 0 THEN UpdateHeader(s, 0, id, ixPix, TRUE, Blank, 0)
    ELSE Followed(MovePage(s, TRUE, Index(id), ixPix), id, span)

\* A data page of the block: with it all those of its index page move; a page
\* without an index page is deleted.
CleanObject(s, bix, pix) ==
    LET id == s.flash.lu[pix]
        span == IF s.flash.page[pix].span \in Nat
                THEN IxSpan(s.flash.page[pix].span) ELSE Blank
        found == FindIdAndSpan(s, Index(id), span)
    IN IF ~Ok(found) THEN DeletePage(s, pix)
       ELSE StoreCleaned(Loop(Entries, Load(found, found.pix, span),
                              LAMBDA t, k : CleanPage(t, PixOf(bix, k - 1), id, span)),
                         id, span, found.pix)

\* Move the index pages that are left in the block.
CleanIndex(s, pix) ==
    LET id == ObjectOf(s.flash.lu[pix])
        page == s.flash.page[pix]
    IN IF "delet" \in page.flags
       THEN Followed(MovePage(s, FALSE, Index(id), pix), id, page.span)
       ELSE ObjectEvent(DeletePage(s, pix), TRUE, id, page.span, pix, 0)

\* Empty a block.  Its own free pages cannot be used: the free cursor leaves it.
CleanData(s, bix, pix) == IF Ok(s) /\ IsData(s.flash.lu[pix]) THEN CleanObject(s, bix, pix) ELSE s
CleanRest(s, pix) == IF Ok(s) /\ IsIndex(s.flash.lu[pix]) THEN CleanIndex(s, pix) ELSE s
Clean(s, bix) ==
    LET start == IF s.fs.freeCursor.bix = bix
                 THEN [s EXCEPT !.fs.freeCursor = [bix |-> (bix + 1) % Blocks, entry |-> 0]]
                 ELSE s
    IN Loop(Entries,
            Loop(Entries, start, LAMBDA t, k : CleanData(t, bix, PixOf(bix, k - 1))),
            LAMBDA t, k : CleanRest(t, PixOf(bix, k - 1)))

\* A mutant: the collector stays marked as running.
CleanedOn(s, bix) == Clean([s EXCEPT !.fs.cleaning = TRUE], bix)

Cleaned(s, bix) == [Clean([s EXCEPT !.fs.cleaning = TRUE], bix) EXCEPT !.fs.cleaning = FALSE]

\* One run: clean the candidate, take its pages out of the counters, erase it.
Reclaimed(s, bix) ==
    IF ~Ok(s) THEN s
    ELSE EraseBlock([s EXCEPT
            !.fs.allocated = @ - Cardinality(Live(s.flash, PagesOf(bix))),
            !.fs.deleted = @ - Cardinality(Dead(s.flash, PagesOf(bix)))], bix)
CollectOne(s) == LET bix == Candidate(s, FreePages(s.fs) <= 0)
                 IN Reclaimed(Cleaned(s, bix), bix)

\* spiffs_gc_check: make room for len bytes.  The runs go on while they free pages
\* and there is still too little room.
GoesOn(s, len, before) ==
    [s |-> s, go |-> /\ ~(before <= 0 /\ FreePages(s.fs) = before)
                     /\ s.fs.freeBlocks <= 2 \/ len > FreePages(s.fs) * PageLen]
Run(r, len) == IF ~Ok(r.s) \/ ~r.go THEN r
               ELSE GoesOn(CollectOne(r.s), len, FreePages(r.s.fs))
Roomy(s, len) == IF Ok(s) /\ len > FreePages(s.fs) * PageLen THEN Fail(s, "FULL") ELSE s

GcCheck(s, len) ==
    LET needed == (len + PageLen - 1) \div PageLen
        free == FreePages(s.fs)
    IN CASE ~Ok(s) -> s
         [] s.fs.freeBlocks > 3 /\ len < free * PageLen -> s
         [] needed > free + s.fs.deleted -> Fail(s, "FULL")
         [] OTHER -> Roomy(Loop(MaxRuns, [s |-> s, go |-> TRUE], LAMBDA r, k : Run(r, len)).s, len)
=============================================================================
