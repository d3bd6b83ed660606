---------------------------- MODULE SpiffsObjects ----------------------------
(***************************************************************************)
(* Files as objects: create, open, append, modify, truncate and read       *)
(* (spiffs_nucleus.c).  A loop over the data pages of a file keeps its     *)
(* locals in the call: written bytes (or the size left, cut), the index    *)
(* page in fs->work (ixSpan, -1 for none; ixPix) and the failure that ended*)
(* it (brk): unlike an early return, a break still stores the index.       *)
(***************************************************************************)
EXTENDS SpiffsGc

CONSTANT MaxLen     \* longest file the instance holds

ASSUME LengthAssumption == MaxLen \in Nat

SizeOf(size) == IF size = Blank THEN 0 ELSE size
MaxPages == (MaxLen \div PageLen) + 2

\* A data page body with bytes from offset offs on, all other cells untouched.
Body(offs, bytes) ==
    [i \in 1 .. BodyLen |->
        IF i - offs \in 1 .. Len(bytes) THEN bytes[i - offs] ELSE Blank]

Running(s, total) == Ok(s) /\ s.brk = "OK" /\ s.written < total
Break(s) == IF Ok(s) THEN s ELSE [s EXCEPT !.brk = s.res, !.res = "OK"]
Began(s, f) == [s EXCEPT !.written = 0, !.ixSpan = -1, !.brk = "OK",
                         !.ixPix = s.fds[f].hdr]
Ended(s) == IF Ok(s) THEN Fail(s, s.brk) ELSE s
At(s, f, size) == IF Ok(s) THEN [s EXCEPT !.fds[f].size = size] ELSE s
Cursor(s, f) == IF Ok(s) THEN [s EXCEPT !.fds[f].cpix = s.ixPix, !.fds[f].cspan = s.ixSpan] ELSE s

\* What of the rest of data fits into the data page at an offset.
Fitting(s, offset, total) ==
    LET room == PageLen - ((offset + s.written) % PageLen)
    IN IF total - s.written < room THEN total - s.written ELSE room
Piece(s, offset, data) ==
    SubSeq(data, s.written + 1, s.written + Fitting(s, offset, Len(data)))

\* spiffs_page_data_check without SPIFFS_PAGE_CHECK.
DataCheck(s, pix) == CASE ~Ok(s) -> s
                       [] pix = Blank -> Fail(s, "INDEX_REF_FREE")
                       [] pix \in Pages -> s
                       [] OTHER -> Fail(s, "INDEX_REF_INVALID")

\* Load an index page that exists: the header, the page at the descriptor's
\* cursor, or the one a search finds.
LoadFound(s, span) ==
    CASE ~Ok(s) -> s
      [] s.pix \notin Pages -> Fail(s, "NOT_INDEX")
      [] OTHER -> [Load(s, s.pix, span) EXCEPT !.ixPix = s.pix, !.ixSpan = span]
LoadIndex(s, f, span) ==
    LET fd == s.fds[f]
    IN CASE ~Ok(s)             -> s
         [] span = 0           -> LoadFound([s EXCEPT !.pix = s.ixPix], span)
         [] fd.cspan = span    -> LoadFound([s EXCEPT !.pix = fd.cpix], span)
         [] OTHER              -> LoadFound(FindIdAndSpan(s, Index(fd.obj), span), span)

\* Create an index header with an empty index and undefined size.
MakeHeader(s, id, name) ==
    LET hdr == [Header(Index(id), 0, {"final", "index", "used"}) EXCEPT !.name = name]
        lu == [SetLu(s, s.pix, Index(id)) EXCEPT !.fs.allocated = @ + 1]
    IN IF Ok(s) THEN ObjectEvent(Program(lu, s.pix, hdr), FALSE, id, 0, s.pix, Blank) ELSE s
CreateObject(s, id, name) == MakeHeader(FindFree(GcCheck(s, PageLen)), id, name)

OpenByPage(s, f, pix, flags) ==
    LET hdr == s.flash.page[pix]
        fd == [s.fds[f] EXCEPT !.hdr = pix, !.size = hdr.size, !.cpix = pix, !.cspan = 0,
                               !.obj = ObjectOf(s.flash.lu[pix]), !.flags = flags]
        opened == [s EXCEPT !.fds[f] = fd]
    IN CASE ~Ok(s) -> s
         [] IsIndex(s.flash.lu[pix]) ->
               [Validate([opened EXCEPT !.work = hdr], 0) EXCEPT !.work = s.work]
         [] OTHER -> Fail(opened, "NOT_INDEX")

-----------------------------------------------------------------------------
\* Append.

\* A mutant: every header is completed in place.
AnyHeader(s, offset) == s.ixSpan = 0

EmptyHeader(s, offset) == s.ixSpan = 0 /\ offset = 0

\* Store the index page in fs->work; size is the size reached.  The header of an
\* empty object is completed in place, any other header moves; an index page is
\* completed in place and then the header moves.  The size of an empty object was
\* never programmed, unless a first append failed before its first byte: it
\* programmed 0, and the flash keeps that whatever a later append reaches.
Completed(s) == LET checked == IndexCheck(s, s.ixPix)
                IN IF Ok(checked) THEN Program(s, s.ixPix, s.work) ELSE checked
StoreAppended(s, f, offset, size, last) ==
    LET fd == s.fds[f]
        sized == [s EXCEPT !.work.size = size]
    IN CASE ~Ok(s) -> s
         [] s.ixSpan # 0 ->
              UpdateHeader(ObjectEvent(Completed(s), FALSE, fd.obj, s.ixSpan, s.ixPix, 0),
                           f, fd.obj, fd.hdr, FALSE, Blank, size)
         [] EmptyHeader(s, offset) ->
              IF last THEN ObjectEvent(Completed(sized), FALSE, fd.obj, 0, s.ixPix, size)
              ELSE Completed(sized)
         [] OTHER -> UpdateHeader(sized, f, fd.obj, fd.hdr, TRUE, Blank, size)

\* A new index page of the object, or the existing one on the first pass (an
\* undefined size or one of 0, less one, makes a span beyond any other).
MakeIndex(s, id, head) ==
    IF Ok(s) THEN [Followed(s, id, head.span) EXCEPT !.ixPix = s.pix, !.ixSpan = head.span,
                       !.work = [head EXCEPT !.flags = @ \ {"used"}]]
    ELSE s
AppendIndex(s, f, offset, span) ==
    LET fd == s.fds[f]
        new == s.written > 0 \/ (fd.size \notin {Blank, 0}
                                 /\ span > IxSpan((fd.size - 1) \div PageLen))
        head == Header(Index(fd.obj), span, {"final", "index"})
        ready == IF new THEN MakeIndex(AllocateData(s, Index(fd.obj), head, <<>>, TRUE), fd.obj, head)
                 ELSE LoadIndex(s, f, span)
    IN CASE ~Ok(s)   -> s
         [] span = 0 -> LoadIndex(s, f, span)
         [] OTHER    -> At(Cursor(ready, f), f, offset + s.written)

\* One data page: a fresh one at a page boundary, else the free rest of the page
\* the index refers to, in place.
Filled(s, f, span, offs, bytes) ==
    LET id == s.fds[f].obj
        old == s.work.body[RefOf(span)]
        checked == DataCheck(s, old)
    IN CASE ~Ok(s)       -> s
         [] offs = 0     -> Break(AllocateData(s, id, Header(id, span, {"final"}),
                                               Body(0, bytes), TRUE))
         [] ~Ok(checked) -> checked
         [] OTHER        -> Program([s EXCEPT !.pix = old], old,
                                    [Erased EXCEPT !.body = Body(offs, bytes)])
Appended(s, offset, span, n) ==
    IF ~Ok(s) \/ s.brk # "OK" THEN s
    ELSE [s EXCEPT !.work.body[RefOf(span)] = s.pix, !.written = @ + n,
                   !.work.size = IF IxSpan(span) = 0 THEN offset + s.written ELSE @]
AppendPage(s, f, offset, data) ==
    LET at == offset + s.written
        span == at \div PageLen
        bytes == Piece(s, offset, data)
        left == IF s.written = 0 THEN s
                ELSE At(StoreAppended(s, f, offset, at, FALSE), f, at)
    IN Appended(Filled(IF s.ixSpan = IxSpan(span) THEN s
                       ELSE AppendIndex(left, f, offset, IxSpan(span)),
                       f, span, at % PageLen, bytes),
                offset, span, Len(bytes))

AppendEnd(s, f, offset) ==
    LET size == offset + s.written
    IN Ended(StoreAppended(Cursor(At(s, f, size), f), f, offset, size, TRUE))
AppendObject(s, f, offs, data) ==
    LET offset == IF s.fds[f].size # Blank /\ offs > s.fds[f].size THEN s.fds[f].size ELSE offs
    IN AppendEnd(Loop(MaxPages, Began(GcCheck(s, Len(data) + PageLen), f), LAMBDA t, k :
                    IF Running(t, Len(data)) THEN AppendPage(t, f, offset, data) ELSE t),
                 f, offset)

-----------------------------------------------------------------------------
\* Modify.

\* The index page in fs->work goes to a new page.
AtMoved(s) == IF Ok(s) THEN [s EXCEPT !.ixPix = s.pix] ELSE s
StoreMoved(s, f, size) ==
    LET fd == s.fds[f] IN
    IF s.ixSpan = 0 THEN UpdateHeader(s, f, fd.obj, fd.hdr, TRUE, Blank, size)
    ELSE Cursor(AtMoved(Followed(MovePage(IndexCheck(s, s.ixPix), TRUE, Index(fd.obj), s.ixPix),
                                 fd.obj, s.ixSpan)), f)

\* The new version of a data page: whole if it is overwritten whole, else a copy
\* of the old one around the new bytes, finalized when it is complete.
PartOf(page, offs, end) ==
    [Erased EXCEPT !.body = Body(offs, SubSeq(page.body, offs + 1, end)), !.mixed = page.mixed]
CopiedAround(s, old, offs, bytes) ==
    LET end == offs + Len(bytes)
        put(t, page) == Program(t, s.pix, page)
        front == IF offs > 0 THEN put(s, PartOf(old, 0, offs)) ELSE s
        back == IF end < PageLen THEN put(front, PartOf(old, end, PageLen)) ELSE front
    IN IF Ok(s) THEN put(put(back, [Erased EXCEPT !.body = Body(offs, bytes)]),
                         [Erased EXCEPT !.flags = Bits \ {"used", "final"}])
       ELSE s
ReplacedPage(s, f, old, span, offs, bytes) ==
    LET id == s.fds[f].obj
        head == Header(id, span, {})
        checked == DataCheck(s, old)
    IN CASE Len(bytes) = PageLen -> Break(AllocateData(s, id, head, Body(0, bytes), TRUE))
         [] ~Ok(checked) -> checked
         [] OTHER -> Break(CopiedAround(AllocateData(s, id, head, <<>>, FALSE),
                                        s.flash.page[old], offs, bytes))

\* Only when the old version is deleted does the index refer to the new one.
Exchanged(s, span, n) ==
    IF s.brk # "OK" THEN s
    ELSE [Referring(s, RefOf(span)) EXCEPT !.written = @ + n]
Modified(s, old, span, n) ==
    IF ~Ok(s) \/ s.brk # "OK" THEN s ELSE Exchanged(Break(DeletePage(s, old)), span, n)
Replaced(s, f, span, offs, bytes) ==
    LET old == s.work.body[RefOf(span)]
    IN IF Ok(s) THEN Modified(ReplacedPage(s, f, old, span, offs, bytes), old, span, Len(bytes)) ELSE s
ModifyPage(s, f, offset, data) ==
    LET at == offset + s.written
        span == at \div PageLen
        left == IF s.written = 0 THEN s ELSE StoreMoved(s, f, 0)
    IN Replaced(IF s.ixSpan = IxSpan(span) THEN s
                ELSE Cursor(LoadIndex(left, f, IxSpan(span)), f),
                f, span, at % PageLen, Piece(s, offset, data))

\* On failure the cursor takes a page index nothing was written to.
Placed(s, f) == IF Ok(s) \/ s.ixSpan = 0 THEN s ELSE [s EXCEPT !.fds[f].cpix = Mixed]
ModifyEnd(s, f) == IF Ok(s) THEN Ended(Placed(StoreMoved(Cursor(s, f), f, 0), f)) ELSE s
ModifyObject(s, f, offset, data) ==
    ModifyEnd(Loop(MaxPages, Began(GcCheck(s, Len(data) + PageLen), f), LAMBDA t, k :
                 IF Running(t, Len(data)) THEN ModifyPage(t, f, offset, data) ELSE t), f)

-----------------------------------------------------------------------------
\* Truncate to size, or remove the file altogether.  The result of storing the
\* index replaces the failure of a page that could not be cut.

\* A mutant: the index page stays behind.
DropNothing(s, f, full) == At(s, f, s.cut)

\* Going down to another index page: the previous one is deleted and the header
\* takes the size reached, unless the whole file goes.
DropIndex(s, f, full) ==
    LET fd == s.fds[f]
        gone == ObjectEvent(DeletePage(IndexCheck(s, s.ixPix), s.ixPix),
                            TRUE, fd.obj, s.ixSpan, s.ixPix, 0)
    IN At(IF s.ixSpan > 0 /\ ~full THEN UpdateHeader(gone, f, fd.obj, fd.hdr, FALSE, Blank, s.cut)
          ELSE gone, f, s.cut)

\* Load the index page by a search, never from the cursor.
LoadedForCut(s, f, span) ==
    IF Ok(s) THEN Cursor([Load(s, s.pix, span) EXCEPT !.ixPix = s.pix, !.ixSpan = span], f) ELSE s
LoadForCut(s, f, span) ==
    CASE ~Ok(s)   -> s
      [] span = 0 -> LoadedForCut([s EXCEPT !.pix = s.fds[f].hdr], f, span)
      [] OTHER    -> LoadedForCut(FindIdAndSpan(s, Index(s.fds[f].obj), span), f, span)

\* Cut the last data page: deleted when it goes as a whole, else replaced by a
\* copy of what stays, and the loop ends.
CutWhole(s, f, old) ==
    LET checked == DataCheck(s, old)
        left == IF s.cut % PageLen = 0 THEN s.cut - PageLen ELSE s.cut - (s.cut % PageLen)
        deleted == IF Ok(checked) THEN DeletePage(s, old) ELSE s
    IN IF checked.res \notin {"OK", "INDEX_REF_FREE"} THEN Break(checked)
       ELSE At([deleted EXCEPT !.cut = left], f, left)

KeptPart(s, old, kept) ==
    IF Ok(s) THEN DeletePage(Program(s, s.pix, kept), old) ELSE s
Trimmed(s, f, span, size) ==
    IF ~Ok(s) THEN Break(s)
    ELSE At([Program(s, s.pix, [Erased EXCEPT !.flags = Bits \ {"used", "final"}]) EXCEPT
                !.work.body[RefOf(span)] = s.pix, !.cut = size, !.brk = "DONE"], f, size)
CutPart(s, f, old, span, size) ==
    LET id == s.fds[f].obj
        kept == PartOf(s.flash.page[old], 0, size % PageLen)
    IN Trimmed(KeptPart(AllocateData(DataCheck(s, old), id, Header(id, span, {}), <<>>, FALSE),
                        old, kept), f, span, size)

CutAt(s, f, span, size, whole) ==
    LET old == s.work.body[RefOf(span)]
        freed == [s EXCEPT !.work.body[RefOf(span)] = Blank]
    IN CASE ~Ok(s) -> s
         [] whole  -> CutWhole(freed, f, old)
         [] OTHER  -> CutPart(freed, f, old, span, size)
CutPage(s, f, size, full) ==
    LET span == (s.cut - 1) \div PageLen
        left == IF s.ixSpan = -1 THEN s ELSE DropIndex(s, f, full)
    IN CutAt(IF s.ixSpan = IxSpan(span) THEN s ELSE LoadForCut(left, f, IxSpan(span)),
             f, span, size, size = 0 \/ full \/ s.cut - size >= PageLen)

\* Store what is left: nothing of a removed file; an emptied header starts again
\* with no references and undefined size; else the index page and the new size.
StoreCut(s, f, full) ==
    LET fd == s.fds[f]
        blank == [s EXCEPT !.work.body = Erased.body, !.work.size = Blank]
    IN CASE ~Ok(s) -> s
         [] s.ixSpan > 0 -> UpdateHeader(StoreMoved(s, f, 0), f, fd.obj, fd.hdr, FALSE, Blank, s.cut)
         [] s.cut = 0 /\ full -> ObjectEvent(DeletePage(IndexCheck(s, s.ixPix), s.ixPix),
                                             TRUE, fd.obj, 0, s.ixPix, 0)
         [] s.cut = 0 /\ ~full -> UpdateHeader(blank, f, fd.obj, s.ixPix, TRUE, Blank, 0)
         [] OTHER -> UpdateHeader(s, f, fd.obj, s.ixPix, TRUE, Blank, s.cut)

CutFrom(s, f, full) ==
    LET marked == IF full /\ Ok(s)
                  THEN Program(s, s.fds[f].hdr, [Erased EXCEPT
                           !.flags = Bits \ {"used", "index", "final", "ixdele"}])
                  ELSE s
    IN [Began(marked, f) EXCEPT !.cut = SizeOf(s.fds[f].size)]
CutEnd(s, f, full) == At(StoreCut(s, f, full), f, s.cut)
TruncateObject(s, f, size, full) ==
    IF ~Ok(s) \/ (s.fds[f].size \in {Blank, 0} /\ ~full) THEN s
    ELSE CutEnd(Loop(MaxPages, CutFrom(IF full THEN s ELSE GcCheck(s, 2 * PageLen), f, full),
                     LAMBDA t, k : IF Ok(t) /\ t.brk = "OK" /\ t.cut > size
                                   THEN CutPage(t, f, size, full) ELSE t), f, full)

-----------------------------------------------------------------------------
\* Read len bytes from an offset into s.read; the cursor follows.

Fetched(s, span, offs, n) ==
    LET ref == s.work.body[RefOf(span)]
        checked == DataCheck(s, ref)
    IN CASE ~Ok(s)       -> s
         [] ~Ok(checked) -> checked
         [] OTHER        -> [s EXCEPT !.written = @ + n,
                               !.read = @ \o SubSeq(s.flash.page[ref].body, offs + 1, offs + n)]
ReadPage(s, f, offset, len) ==
    LET span == (offset + s.written) \div PageLen
    IN Fetched(IF s.ixSpan = IxSpan(span) THEN s ELSE Cursor(LoadIndex(s, f, IxSpan(span)), f),
               span, (offset + s.written) % PageLen, Fitting(s, offset, len))

ReadObject(s, f, offset, len) ==
    Loop(MaxPages, [Began(s, f) EXCEPT !.read = <<>>],
         LAMBDA t, k : IF Running(t, len) THEN ReadPage(t, f, offset, len) ELSE t)

-----------------------------------------------------------------------------
\* The header that bears this name, searched from the scan cursor.
IsNamed(flash, pix, name) ==
    LET page == flash.page[pix] IN
    /\ IsIndex(flash.lu[pix])
    /\ page.span = 0 /\ page.name = name
    /\ page.flags \cap {"delet", "final", "ixdele"} = {"delet", "ixdele"}

FindByName(s, name) ==
    LET named(p) == IsNamed(s.flash, p, name)
        pix == ScanFrom(s.fs.cursor, named)
    IN IF pix = 0 THEN Fail(s, "NOT_FOUND")
       ELSE [s EXCEPT !.pix = pix, !.fs.cursor = CursorAt(pix)]

\* The lowest object id no lookup entry bears.
FreeObjectId(flash) ==
    LET taken == {ObjectOf(flash.lu[p]) : p \in Live(flash, Pages)}
    IN CHOOSE n \in 1 .. Blocks * Entries + 1 :
          n \notin taken /\ \A m \in 1 .. n - 1 : m \in taken
=============================================================================
