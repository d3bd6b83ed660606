----------------------------- MODULE SpiffsStore -----------------------------
(***************************************************************************)
(* The SPIFFS API on the flash (spiffs_hydrogen.c) as a state machine: a   *)
(* call runs under the file system's mutex and is one step, unless the     *)
(* power is lost after one of its writes.  Writes go straight to the file  *)
(* (SPIFFS_O_DIRECT); SpiffsCache adds the write cache.                    *)
(***************************************************************************)
EXTENDS SpiffsObjects

CONSTANTS
    Names, Descriptors,   \* file names; descriptors (1 .. fd_count)
    Data,                 \* byte sequences a write may carry
    OpenFlags,            \* flag sets files are opened with
    Sharing,              \* may a file be open in two descriptors at a time?
    MaxErases,            \* bound on the erasures of a run (see Do, Lost, UpdateMeta)
    MaxPowerLosses,       \* bound on power losses
    Missing, Unclear      \* see FileStore

VARIABLES
    flash,    \* what the flash holds
    fs,       \* struct spiffs: mounted, counters, cursors
    fds,      \* descriptors
    losses,   \* power losses so far
    scarred,  \* has a call failed after a write of it, or lost the power?
    last      \* the last call and what came of it (see FileStore)

vars == <<flash, fs, fds, losses, scarred, last>>

ClosedFd == [open |-> FALSE, used |-> FALSE, obj |-> 0, size |-> 0, hdr |-> 0,
             cspan |-> 0, cpix |-> 0, off |-> 0, flags |-> {}, name |-> Blank]
NoFds == [f \in Descriptors |-> ClosedFd]
Fresh == [mounted |-> FALSE, cleaning |-> FALSE, freeBlocks |-> 0, allocated |-> 0,
          deleted |-> 0, maxErase |-> 0, freeCursor |-> [bix |-> 0, entry |-> 0],
          cursor |-> [bix |-> 0, entry |-> 0]]

\* A call begins with the state of the file system.
Call == [flash |-> flash, fs |-> fs, fds |-> fds, work |-> Erased, trail |-> <<>>,
         res |-> "OK", pix |-> 0, written |-> 0, ixSpan |-> -1, ixPix |-> 0,
         cut |-> 0, brk |-> "OK",
         read |-> <<>>]

\* Nothing reads these fields of a closed descriptor before it is opened again.
Settled(fd) == IF fd.open THEN fd
               ELSE [fd EXCEPT !.size = 0, !.cspan = 0, !.cpix = 0, !.off = 0, !.flags = {}]

\* What a call asks for: something of a file, or nothing of any.
Nothing == [op |-> "nothing"]
Of(op, name) == [op |-> op, name |-> name]

\* A call that fails before its first write is refused.
Answer(s) == CASE Ok(s) -> "done"
               [] s.trail = <<>> -> "refused"
               [] OTHER -> "broken"
Tell(call, answer) == /\ last' = [call |-> call, answer |-> answer]
                      /\ scarred' = (scarred \/ answer = "broken")

Returned(call, s) == /\ flash' = s.flash
                     /\ fs' = s.fs
                     /\ fds' = [f \in Descriptors |-> Settled(s.fds[f])]
                     /\ Tell(call, Answer(s))
                     /\ UNCHANGED losses

\* The power goes after one of the writes of the call (each loss spends one of the
\* erasures before which the next one comes).
Lost(call, s) == /\ losses < MaxPowerLosses /\ fs.maxErase + losses <= MaxErases
                 /\ \E i \in 1 .. Len(s.trail) : flash' = s.trail[i]
                 /\ fs' = Fresh /\ fds' = NoFds /\ losses' = losses + 1
                 /\ Tell(call, "broken")

Do(call, s) == fs.maxErase <= MaxErases /\ (Returned(call, s) \/ Lost(call, s))

Ready == fs.mounted

-----------------------------------------------------------------------------
\* Descriptors.

\* Internal descriptors are opened without flags; a caller holds the others.
Held(f) == fds[f].open /\ fds[f].flags # {}

\* A closed descriptor that had the name is taken again, and the search starts at
\* the header it remembers; otherwise one that was never used is, or any (which,
\* depends on scores); 0 when all are open.
Takeable(name) ==
    LET closed == {f \in Descriptors : ~fds[f].open}
        hits == {f \in closed : name # Blank /\ fds[f].name = name}
        unused == {f \in closed : ~fds[f].used}
        first(S) == {f \in S : \A g \in S : f <= g}
    IN CASE closed = {} -> {0}
         [] hits # {}   -> first(hits)
         [] unused # {} -> first(unused)
         [] OTHER       -> closed

TakeFd(s, f, name) ==
    LET fd == s.fds[f]
        again == name # Blank /\ fd.used /\ fd.name = name
        named == IF name = Blank THEN fd ELSE [fd EXCEPT !.used = TRUE, !.name = name]
    IN [s EXCEPT !.fds[f] = [named EXCEPT !.open = TRUE],
                 !.fs.cursor = IF again THEN CursorAt(fd.hdr) ELSE @]

ReturnFd(s, f) == [s EXCEPT !.fds[f].open = FALSE]
OrReturn(s, f) == IF Ok(s) THEN s ELSE ReturnFd(s, f)

-----------------------------------------------------------------------------
\* Calls.

Creat(name) ==
    LET taken == \E p \in Pages : IsNamed(flash, p, name)
    IN /\ Ready
       /\ Do(Of("open", name), IF taken THEN Fail(Call, "CONFLICTING_NAME")
                               ELSE CreateObject(Call, FreeObjectId(flash), name))

\* SPIFFS_open: find the name or create it; truncate an existing file if asked.
OpenFound(s, f, flags) == OpenByPage(s, f, s.pix, flags)
Emptied(s, f, flags) == IF "trunc" \in flags THEN TruncateObject(s, f, 0, FALSE) ELSE s
Open(f, name, flags) ==
    LET found == FindByName(TakeFd(Call, f, name), name)
        make == ~Ok(found) /\ "creat" \in flags
        taken == {"creat", "excl"} \subseteq flags
        result == IF make
                  THEN OpenFound(CreateObject([found EXCEPT !.res = "OK"], FreeObjectId(flash), name),
                                 f, flags)
                  ELSE Emptied(OpenFound(IF taken THEN Fail(found, "FILE_EXISTS") ELSE found, f, flags),
                               f, flags)
    IN /\ Ready /\ f \in Takeable(name) \ {0}
       /\ Sharing \/ \A g \in Descriptors : Held(g) => fds[g].name # name
       /\ Do(Of(IF "trunc" \in flags THEN "empty" ELSE "open", name),
             OrReturn([result EXCEPT !.fds[f].off = 0], f))

Close(f) == /\ Ready /\ Held(f)
            /\ Returned(Nothing, ReturnFd(Call, f))

\* The name of the file a descriptor has open.
NameAt(f) == flash.page[fds[f].hdr].name

\* spiffs_hydro_write: overwrite up to the size, append the rest.
Overwritten(s, f, offset, data) == IF data = <<>> THEN s ELSE ModifyObject(s, f, offset, data)
Extended(s, f, offset, data) ==
    IF ~Ok(s) \/ data = <<>> THEN s ELSE AppendObject(s, f, offset, data)
HydroWrite(s, f, offset, data) ==
    LET size == s.fds[f].size
        over == IF size = Blank \/ offset >= size THEN 0
                ELSE IF size - offset < Len(data) THEN size - offset ELSE Len(data)
    IN Extended(Overwritten(s, f, offset, SubSeq(data, 1, over)),
                f, offset + over, SubSeq(data, over + 1, Len(data)))

\* SPIFFS_write of a descriptor that bypasses the write cache.
Advanced(s, f, n) == IF Ok(s) THEN [s EXCEPT !.fds[f].off = @ + n] ELSE s
Write(f, data) ==
    LET fd == fds[f]
        offset == IF "append" \in fd.flags THEN SizeOf(fd.size) ELSE fd.off
        started == [Call EXCEPT !.fds[f].off = offset]
    IN /\ Ready /\ Held(f)
       /\ offset + Len(data) <= MaxLen
       /\ Do([op |-> "write", name |-> NameAt(f), at |-> offset, data |-> data],
             IF "wr" \notin fd.flags THEN Fail(Call, "NOT_WRITABLE")
             ELSE Advanced(HydroWrite(started, f, offset, data), f, Len(data)))

\* SPIFFS_read of the rest of the file (MaxLen is more than any holds).
Read(f) ==
    LET fd == fds[f]
        avail == SizeOf(fd.size) - fd.off
    IN /\ Ready /\ Held(f)
       /\ "rd" \in fd.flags /\ avail > 0
       /\ Returned(Nothing, Advanced(ReadObject(Call, f, fd.off, avail), f, avail))

\* SPIFFS_lseek to an offset from the start of the file.
Seek(f, to) ==
    LET fd == fds[f]
        span == IxSpan(to \div PageLen)
        found == FindIdAndSpan(Call, Index(fd.obj), span)
        moved == CASE fd.cspan = span -> Call
                   [] Ok(found) -> [found EXCEPT !.fds[f].cspan = span, !.fds[f].cpix = found.pix]
                   [] OTHER -> found
    IN /\ Ready /\ Held(f)
       /\ Returned(Nothing, IF to > SizeOf(fd.size) THEN [Call EXCEPT !.fds[f].off = SizeOf(fd.size)]
                            ELSE IF Ok(moved) THEN [moved EXCEPT !.fds[f].off = to] ELSE moved)

\* SPIFFS_remove: the descriptor it takes is returned only by the event that
\* deletes the header.
Remove(f, name) ==
    LET found == FindByName(TakeFd(Call, f, Blank), name)
    IN /\ Ready /\ f \in Takeable(Blank) \ {0}
       /\ Do(Of("remove", name), OrReturn(TruncateObject(OpenFound(found, f, {}), f, 0, TRUE), f))

FRemove(f) == /\ Ready /\ Held(f)
              /\ Do(Of("remove", NameAt(f)),
                    IF "wr" \in fds[f].flags THEN TruncateObject(Call, f, 0, TRUE)
                    ELSE Fail(Call, "NOT_WRITABLE"))

\* Write the header of the file a search found through an internal descriptor.
Rehead(s, f, pix, name) ==
    LET opened == OpenByPage(TakeFd(s, f, Blank), f, pix, {})
    IN UpdateHeader(opened, f, opened.fds[f].obj, pix, FALSE, name, 0)

Rehashed(s, old, new) ==
    IF ~Ok(s) THEN s
    ELSE [s EXCEPT !.fds = [g \in Descriptors |->
             IF @[g].used /\ @[g].name = old THEN [@[g] EXCEPT !.name = new] ELSE @[g]]]

\* SPIFFS_rename: not onto a name that exists.
Rename(f, old, new) ==
    LET first == FindByName(Call, old)
        second == FindByName(first, new)
    IN /\ Ready /\ old # new /\ f \in Takeable(Blank)
       /\ Do([op |-> "rename", name |-> old, new |-> new],
             CASE ~Ok(first) -> first
               [] Ok(second) -> Fail(second, "CONFLICTING_NAME")
               [] f = 0      -> Fail(second, "OUT_OF_FILE_DESCS")
               [] OTHER      -> ReturnFd(Rehashed(Rehead([second EXCEPT !.res = "OK"], f, first.pix, new),
                                                  old, new), f))

\* SPIFFS_update_meta: a new header with the name and the size of the old one (only
\* while another erasure may come: it fills the flash by itself).
UpdateMeta(f, name) ==
    LET found == FindByName(Call, name)
    IN /\ Ready /\ f \in Takeable(Blank) /\ fs.maxErase < MaxErases
       /\ Do(Nothing,
             CASE ~Ok(found) -> found
               [] f = 0      -> Fail(found, "OUT_OF_FILE_DESCS")
               [] OTHER      -> ReturnFd(Rehead(found, f, found.pix, Blank), f))

\* SPIFFS_gc_quick and SPIFFS_gc.
QuickGc(maxFree) == Ready /\ Do(Nothing, GcQuick(Call, maxFree))
Gc(len) == Ready /\ Do(Nothing, GcCheck(Call, len))

\* Mounting clears the descriptors and counters; spiffs_mount formats a flash
\* that is no file system.
Formatted == Loop(Blocks, [Call EXCEPT !.fs = Fresh],
                  LAMBDA t, k : EraseBlock([t EXCEPT !.fs.maxErase = 0], k - 1))
Mounting == LuScan([Call EXCEPT !.fs = Fresh, !.fds = NoFds])
Mount == LET scan == IF Ok(Mounting) THEN Mounting
                     ELSE LuScan([Formatted EXCEPT !.fs = Fresh, !.res = "OK"])
         IN ~fs.mounted /\ Do(Nothing, [scan EXCEPT !.fs.mounted = TRUE])

Unmount == /\ Ready
           /\ Returned(Nothing, [Call EXCEPT !.fs.mounted = FALSE,
                  !.fds = [f \in Descriptors |-> [@[f] EXCEPT !.open = FALSE]]])

\* A flash that was never used.
Init == LET blank == [flash |-> [lu |-> [p \in Pages |-> Blank],
                                 page |-> [p \in Pages |-> Erased],
                                 count |-> [b \in 0 .. Blocks - 1 |-> Blank],
                                 magic |-> [b \in 0 .. Blocks - 1 |-> FALSE]],
                      fs |-> Fresh, trail |-> <<>>, res |-> "OK"]
            wipe(t, k) == EraseBlock([t EXCEPT !.fs.maxErase = 0], k - 1)
        IN /\ flash = Loop(Blocks, blank, wipe).flash
           /\ fs = Fresh /\ fds = NoFds /\ losses = 0
           /\ scarred = FALSE /\ last = [call |-> Nothing, answer |-> "done"]

\* The calls a file's life consists of, and the rest of the API.
Life == \/ Mount \/ Gc(2 * PageLen)
        \/ \E f \in Descriptors : \/ Close(f) \/ FRemove(f)
                                  \/ \E data \in Data : Write(f, data)
                                  \/ \E name \in Names : \/ Remove(f, name)
                                                         \/ \E fl \in OpenFlags : Open(f, name, fl)
        \/ \E f \in Takeable(Blank) : \E old, new \in Names : Rename(f, old, new)

Rest == \/ Unmount \/ QuickGc(0)
        \/ \E f \in Descriptors : Read(f) \/ Seek(f, 2 * PageLen)
        \/ \E name \in Names : \/ Creat(name)
                               \/ \E f \in Takeable(Blank) : UpdateMeta(f, name)

Next == Life \/ Rest

Spec == Init /\ [][Next]_vars
LifeSpec == Init /\ [][Life]_vars

-----------------------------------------------------------------------------
\* The files the flash holds.

Headers(name) == {p \in Pages : IsNamed(flash, p, name)}
AllHeaders == UNION {Headers(n) : n \in Names}
IndexPages(id, span) == {p \in Pages : IsPage(flash, p, Index(id), span)}
Spans(size) == IF SizeOf(size) = 0 THEN {} ELSE 0 .. ((SizeOf(size) - 1) \div PageLen)

\* The index pages of the file under a header, and the data pages they refer to.
IxSpansOf(hdr) == {IxSpan(sp) : sp \in Spans(flash.page[hdr].size)} \ {0}
IxPagesOf(hdr) == UNION {IndexPages(-flash.lu[hdr], ix) : ix \in IxSpansOf(hdr)}
RefAt(hdr, span) ==
    LET ix == IF IxSpan(span) = 0 THEN {hdr} ELSE IndexPages(-flash.lu[hdr], IxSpan(span))
    IN IF Cardinality(ix) = 1 THEN flash.page[CHOOSE p \in ix : TRUE].body[RefOf(span)] ELSE Blank
DataPagesOf(hdr) == {RefAt(hdr, sp) : sp \in Spans(flash.page[hdr].size)}

\* Every page up to the size is there and is this file's, and no other page claims
\* its place: the collector would store the place of whichever it moves last.
Claims(id, span) == {p \in Pages : flash.lu[p] = id /\ flash.page[p].span = span}
Whole(hdr) == \A sp \in Spans(flash.page[hdr].size) :
                 /\ RefAt(hdr, sp) \in Pages
                 /\ IsPage(flash, RefAt(hdr, sp), -flash.lu[hdr], sp)
                 /\ Claims(-flash.lu[hdr], sp) = {RefAt(hdr, sp)}
Bytes(hdr) == [i \in 1 .. SizeOf(flash.page[hdr].size) |->
                  flash.page[RefAt(hdr, (i - 1) \div PageLen)].body[((i - 1) % PageLen) + 1]]

\* None of its pages is mixed.  An append that lost the power has programmed cells
\* beyond the size, a move a page that the lookup calls free: the next write programs
\* them again.
MixedPages == {p \in Live(flash, Pages) : flash.page[p].mixed}
Clear(hdr) == ({hdr} \cup IxPagesOf(hdr) \cup DataPagesOf(hdr)) \cap MixedPages = {}

\* A name with two headers, or an object with two, is unclear: which of them a
\* search meets first depends on where it starts.
Alone(hdr) == Claims(flash.lu[hdr], 0) = {hdr}
Files == [n \in Names |->
            CASE Headers(n) = {} -> Missing
              [] Cardinality(Headers(n)) = 1
                    /\ \A h \in Headers(n) : Alone(h) /\ Whole(h) /\ Clear(h) ->
                    Bytes(CHOOSE h \in Headers(n) : TRUE)
              [] OTHER -> Unclear]

Store == INSTANCE FileStore WITH files <- Files, open <- fs.mounted, marred <- MixedPages # {}

-----------------------------------------------------------------------------
\* Properties.

Cell == -Blocks * Entries .. Blocks * Entries \cup {Blank}
Page == [id : Cell, span : Cell, flags : SUBSET Bits, name : Names \cup {Blank, Mixed},
         size : 0 .. MaxLen \cup {Blank}, body : [1 .. BodyLen -> Cell], mixed : BOOLEAN]

\* The shape of the flash, of struct spiffs and of the descriptors (spiffs_nucleus.h).
TypeOK ==
    /\ flash \in [lu : [Pages -> Cell], page : [Pages -> Page],
                  count : [0 .. Blocks - 1 -> Nat \cup {Blank}],
                  magic : [0 .. Blocks - 1 -> BOOLEAN]]
    /\ fs.mounted \in BOOLEAN /\ fs.cleaning = FALSE
    /\ {fs.allocated, fs.deleted, fs.freeBlocks, fs.maxErase} \subseteq Int
    /\ fds \in [Descriptors ->
          [open : BOOLEAN, used : BOOLEAN, obj : Cell, size : 0 .. MaxLen \cup {Blank},
           hdr : Cell, cspan : Nat, cpix : Cell \cup {Mixed}, off : 0 .. MaxLen,
           flags : SUBSET {"rd", "wr", "creat", "trunc", "append", "excl"},
           name : Names \cup {Blank}]]
    /\ losses \in 0 .. MaxPowerLosses /\ scarred \in BOOLEAN
    /\ last.answer \in {"done", "refused", "broken"}

\* The names and bytes the flash holds develop as the calls promise (SPIFFS_write,
\* SPIFFS_open, SPIFFS_remove, SPIFFS_rename): one that is done has made of its file
\* what it was asked to, one that is refused has changed nothing, one that breaks has
\* done a part, and every other file is as it was, whatever pages the collector moved
\* on the way.  What a broken call leaves may make a file unclear.  Once a page in use
\* holds two writes - of an append, or of a move, that lost the power - a file may be
\* lost in any call, of another file even, but never has other bytes.
Implements == Store!FileStoreSpec

\* No cell of a page is programmed with two values between two erasures
\* (SPIFFS programs pages in pieces, appends into the last page in place and
\* completes headers in place), until one is the size 0 that a failed first append
\* left in a header.
Mixtures(f) == {p \in Pages : f.page[p].mixed}
Stillborn(f) == {p \in Pages : IsIndex(f.lu[p]) /\ f.page[p].size = 0}
CellsOnce == [][Mixtures(flash') # {} => Mixtures(flash) \cup Stillborn(flash) # {}]_vars

\* Until a call breaks, every page in use is the header, an index page or a data
\* page of a whole file, and no name has two headers: nothing leaks.
NoPageLeaks == ~scarred =>
    /\ \A h \in AllHeaders : Headers(flash.page[h].name) = {h} /\ Alone(h) /\ Whole(h)
    /\ Live(flash, Pages) = UNION {{h} \cup IxPagesOf(h) \cup DataPagesOf(h) : h \in AllHeaders}

\* The counters that decide when to collect and when the flash is full agree with
\* the lookup entries (stats_p_allocated, stats_p_deleted).
PagesCounted == fs.mounted =>
    /\ fs.deleted = Cardinality(Dead(flash, Pages))
    /\ fs.allocated = Cardinality(Live(flash, Pages))

\* A descriptor a caller holds stays at the header of its file whichever call, of
\* whichever descriptor, moves it; and reading through it yields the file.
DescriptorsFollow == \A f \in Descriptors : Held(f) =>
    /\ fds[f].hdr \in AllHeaders
    /\ ~scarred =>
          LET read == ReadObject(Call, f, 0, SizeOf(fds[f].size))
              hdr == flash.page[fds[f].hdr]
          IN SizeOf(fds[f].size) = SizeOf(hdr.size) /\ Ok(read) /\ read.read = Files[hdr.name]

\* Mounting never takes the flash for no file system at all and formats it: at most
\* one erasure is ever unfinished, and mounting finishes it before any other; the
\* block it erases for that has nothing in use, whatever the lost call was doing.
MountsAgain ==
    /\ Cardinality(Unfinished(flash)) <= (IF fs.mounted THEN 0 ELSE 1)
    /\ \A b \in Unfinished(flash), p \in Pages : BlockOf(p) = b => flash.lu[p] = Blank
=============================================================================
