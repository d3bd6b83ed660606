-------------------------- MODULE SpiffsStoreProofs --------------------------
(***************************************************************************)
(* Proofs about SpiffsStore, for every geometry of the flash and any       *)
(* number of erasures and power losses: between any two writes of any call *)
(* the flash is one that mounts, and no free page is hidden from the       *)
(* collector.                                                              *)
(*                                                                         *)
(* The flash is Recoverable after every write, and Complete when a call    *)
(* returns; a call under way is Solid when its flash is Complete and the   *)
(* flash after each of its writes so far was Recoverable, and Sound when   *)
(* its counters count no more pages than are taken, too.  Every operator   *)
(* of SpiffsFlash, SpiffsGc, SpiffsObjects and SpiffsStore that maps a     *)
(* call to the next state of it leaves a sound call sound, whether it      *)
(* fails or not: the lemmas named XKeeps, one for each operator X.         *)
(***************************************************************************)
EXTENDS SpiffsStore, FiniteSetTheorems, SequenceTheorems, WellFoundedInduction, TLAPS

Bixes == 0 .. Blocks - 1

(* What the power may leave on the flash at any time.                      *)
Recoverable(fl) ==
    /\ DOMAIN fl = {"lu", "page", "count", "magic"}
    /\ fl.magic \in [Bixes -> BOOLEAN]
    /\ fl.count \in [Bixes -> Nat \cup {Blank}]
    /\ fl.lu \in [Pages -> Int \cup {Blank}]
    /\ \A a, b \in Bixes : ~fl.magic[a] /\ ~fl.magic[b] => a = b
    /\ \A b \in Bixes : ~fl.magic[b] => \A p \in Pages : BlockOf(p) = b => fl.lu[p] = Blank
    /\ \A b \in Bixes : fl.magic[b] => fl.count[b] \in Nat

(* What a call leaves on it.                                               *)
Complete(fl) == Recoverable(fl) /\ \A b \in Bixes : fl.magic[b]

Numbered(descs) ==
    /\ DOMAIN descs = Descriptors
    /\ \A f \in Descriptors : DOMAIN descs[f] = DOMAIN ClosedFd /\ descs[f].obj \in Int

Fields == {"flash", "fs", "fds", "work", "trail", "res", "pix", "written", "ixSpan",
           "ixPix", "cut", "brk", "read"}

(* struct spiffs, the collector cleaning or not.                           *)
Counters(r, c) ==
    /\ DOMAIN r = DOMAIN Fresh
    /\ r.maxErase \in Nat /\ r.cleaning = c
    /\ r.freeCursor.bix \in Nat /\ r.freeCursor.entry \in Nat

(* A call under way.                                                       *)
Shaped(s, c) ==
    /\ DOMAIN s = Fields
    /\ Counters(s.fs, c)
    /\ Numbered(s.fds)
    /\ \E S : s.trail \in Seq(S) /\ \A e \in S : Recoverable(e)

Solid(s, c) == Shaped(s, c) /\ Complete(s.flash)

(* The pages whose lookup entry is not free, and counters that do not count *)
(* more than those.                                                         *)
Taken(fl) == {p \in Pages : fl.lu[p] # Blank}
Within(r, fl) ==
    /\ r.allocated \in Int /\ r.deleted \in Int
    /\ r.allocated + r.deleted <= Cardinality(Taken(fl))

Sound(s, c) == Solid(s, c) /\ Within(s.fs, s.flash)

(* The fields of a call under way.                                          *)
LEMMA FieldsAre ==
    ASSUME NEW s, NEW c, Shaped(s, c)
    PROVE  /\ DOMAIN s = Fields
           /\ DOMAIN s.fs = {"mounted", "cleaning", "freeBlocks", "allocated", "deleted",
                             "maxErase", "freeCursor", "cursor"}
           /\ DOMAIN s.fds = Descriptors
           /\ \A f \in Descriptors :
                 /\ s.fds[f].obj \in Int
                 /\ DOMAIN s.fds[f] = {"open", "used", "obj", "size", "hdr", "cspan", "cpix",
                                       "off", "flags", "name"}
  BY DEF Shaped, Counters, Fresh, Numbered, ClosedFd

(* A step of a call that writes nothing.                                   *)
LEMMA NothingWritten ==
    ASSUME NEW s, NEW t, NEW c, NEW d, Shaped(s, c),
           DOMAIN t = DOMAIN s, t.trail = s.trail, Counters(t.fs, d), Numbered(t.fds)
    PROVE  /\ Shaped(t, d)
           /\ t.flash = s.flash /\ Solid(s, c) => Solid(t, d)
           /\ /\ t.flash = s.flash /\ Sound(s, c)
              /\ t.fs.allocated = s.fs.allocated /\ t.fs.deleted = s.fs.deleted
              => Sound(t, d)
<1>1. Shaped(t, d)
  BY DEF Shaped
<1>2. t.flash = s.flash /\ Solid(s, c) => Solid(t, d)
  BY <1>1 DEF Solid
<1>3. ASSUME t.flash = s.flash, Sound(s, c), t.fs.allocated = s.fs.allocated,
             t.fs.deleted = s.fs.deleted
      PROVE  Sound(t, d)
  <2>1. Within(t.fs, t.flash)
    BY <1>3 DEF Sound, Within
  <2> QED BY <1>2, <1>3, <2>1 DEF Sound
<1> QED BY <1>1, <1>2, <1>3

(* A step that sets only registers of the call (pix, work, written, res,    *)
(* ...).                                                                    *)
LEMMA RegistersSet ==
    ASSUME NEW s, NEW t, NEW c, Sound(s, c),
           DOMAIN t = DOMAIN s, t.flash = s.flash, t.trail = s.trail, t.fs = s.fs, t.fds = s.fds
    PROVE  Sound(t, c)
<1>1. Shaped(t, c)
  BY DEF Shaped, Sound, Solid
<1> QED BY <1>1 DEF Sound, Solid

(* A step that sets only counters of struct spiffs the scans do not start   *)
(* from.                                                                    *)
LEMMA CountersSet ==
    ASSUME NEW s, NEW t, NEW c, Solid(s, c),
           DOMAIN t = DOMAIN s, t.flash = s.flash, t.trail = s.trail,
           DOMAIN t.fs = DOMAIN s.fs, t.fs.maxErase = s.fs.maxErase,
           t.fs.cleaning = s.fs.cleaning,
           t.fs.freeCursor = s.fs.freeCursor, t.fds = s.fds
    PROVE  Solid(t, c)
  BY DEF Shaped, Counters, Solid

(* If it counts no page, the call stays sound.                              *)
LEMMA UncountedSet ==
    ASSUME NEW s, NEW t, NEW c, Sound(s, c),
           DOMAIN t = DOMAIN s, t.flash = s.flash, t.trail = s.trail,
           DOMAIN t.fs = DOMAIN s.fs, t.fs.maxErase = s.fs.maxErase,
           t.fs.cleaning = s.fs.cleaning,
           t.fs.freeCursor = s.fs.freeCursor, t.fds = s.fds,
           t.fs.allocated = s.fs.allocated, t.fs.deleted = s.fs.deleted
    PROVE  Sound(t, c)
<1>1. Solid(t, c)
  BY CountersSet DEF Sound
<1>2. Within(t.fs, t.flash)
  BY DEF Sound, Within
<1> QED BY <1>1, <1>2 DEF Sound

(* What a sound call is.                                                    *)
LEMMA SoundIs ==
    ASSUME NEW s, NEW c, Sound(s, c)
    PROVE  Shaped(s, c) /\ Complete(s.flash) /\ Solid(s, c)
  BY DEF Sound, Solid

(* What a solid call is.                                                    *)
LEMMA SolidIs ==
    ASSUME NEW s, NEW c, Solid(s, c)
    PROVE  Shaped(s, c) /\ Complete(s.flash)
  BY DEF Solid

(* A failure changes the result only (SPIFFS_CHECK_RES).                    *)
LEMMA FailKeeps ==
    ASSUME NEW s, NEW c, Sound(s, c), NEW code
    PROVE  Sound(Fail(s, code), c)
  BY RegistersSet, SoundIs, FieldsAre DEF Fail, Fields

(* A write sets the flash and appends to the trail.                        *)
LEMMA WroteAs ==
    ASSUME NEW s, NEW fl
    PROVE  Wrote(s, fl) =
              [s EXCEPT !.flash = fl, !.trail = Append(s.trail, fl)]
  BY DEF Wrote

(* A write of a flash that power loss may leave is one more point to lose   *)
(* the power at.                                                            *)
LEMMA WroteIs ==
    ASSUME NEW s, NEW c, Shaped(s, c), NEW fl, Recoverable(fl)
    PROVE  /\ Shaped(Wrote(s, fl), c)
           /\ Wrote(s, fl).flash = fl /\ Wrote(s, fl).fs = s.fs /\ Wrote(s, fl).res = s.res
           /\ Wrote(s, fl).fds = s.fds /\ Wrote(s, fl).pix = s.pix
           /\ Complete(fl) => Solid(Wrote(s, fl), c)
<1> DEFINE q == Append(s.trail, fl)
           t == Wrote(s, fl)
<1>1. PICK S : s.trail \in Seq(S) /\ \A x \in S : Recoverable(x)
  BY DEF Shaped
<1>2. t = [s EXCEPT !.flash = fl, !.trail = q]
  BY WroteAs
<1>4. DOMAIN s = Fields
  BY FieldsAre
<1> HIDE DEF t
<1>5. s.trail \in Seq(S \cup {fl}) /\ fl \in S \cup {fl}
  BY <1>1
<1>6. q \in Seq(S \cup {fl})
  BY <1>5, AppendProperties
<1>7. \A x \in S \cup {fl} : Recoverable(x)
  BY <1>1
<1> HIDE DEF q
<1>8. /\ DOMAIN t = Fields /\ t.flash = fl /\ t.trail = q /\ t.fs = s.fs
      /\ t.fds = s.fds /\ t.res = s.res /\ t.pix = s.pix
  BY <1>2, <1>4 DEF Fields
<1>9. Shaped(t, c)
  BY <1>6, <1>7, <1>8 DEF Shaped
<1> QED BY <1>8, <1>9 DEF Solid, t

(* A lookup with the entries of a block free.                               *)
Freed(lu, bix) == [p \in Pages |-> IF BlockOf(p) = bix THEN Blank ELSE lu[p]]

(* An erasure is these writes, in this order (spiffs_erase_block).          *)
LEMMA EraseBlockIs ==
    ASSUME NEW s, NEW bix
    PROVE  EraseBlock(s, bix) =
              [Marked(Counted(Others(First(s, bix), bix), bix), bix) EXCEPT
                  !.fs.freeBlocks = @ + 1, !.fs.maxErase = @ + 1]
  BY DEF EraseBlock

(* Only the block that is erased may be without its magic.                 *)
OnlyOpen(fl, bix) == \A b \in Bixes : ~fl.magic[b] => b = bix

(* Erasing pages without lookup entries does not touch lookup, count or     *)
(* magic.                                                                   *)
LEMMA WipedIs ==
    ASSUME NEW fl, NEW pages, Recoverable(fl)
    PROVE  /\ Recoverable(Wiped(fl, pages))
           /\ \A b : OnlyOpen(fl, b) => OnlyOpen(Wiped(fl, pages), b)
           /\ Complete(fl) => Complete(Wiped(fl, pages))
           /\ Wiped(fl, pages).lu = fl.lu
<1> DEFINE t == Wiped(fl, pages)
<1>1. DOMAIN t = DOMAIN fl /\ t.lu = fl.lu /\ t.magic = fl.magic /\ t.count = fl.count
  BY DEF Wiped, Recoverable
<1> HIDE DEF t
<1>2. Recoverable(t)
  BY <1>1 DEF Recoverable
<1> QED BY <1>1, <1>2 DEF OnlyOpen, Complete, t

(* Erasing the first sector frees every entry of the block and takes its    *)
(* magic and count.                                                         *)
LEMMA OpenedIs ==
    ASSUME NEW fl, NEW bix, Recoverable(fl), OnlyOpen(fl, bix)
    PROVE  /\ Recoverable(Opened(fl, bix)) /\ OnlyOpen(Opened(fl, bix), bix)
           /\ Opened(fl, bix).lu = Freed(fl.lu, bix)
<1> DEFINE w == Wiped(fl, {PixOf(bix, e) : e \in 0 .. SectorEntries - 1})
           lu == [p \in Pages |-> IF BlockOf(p) = bix THEN Blank ELSE w.lu[p]]
           t == Opened(fl, bix)
<1>1. Recoverable(w) /\ OnlyOpen(w, bix) /\ w.lu = fl.lu
  BY WipedIs
<1>2. t = [w EXCEPT !.lu = lu, !.count = [w.count EXCEPT ![bix] = Blank],
                    !.magic = [w.magic EXCEPT ![bix] = FALSE]]
  BY <1>1 DEF Opened, Recoverable
<1> HIDE DEF w, t
<1>3. /\ DOMAIN t = {"lu", "page", "count", "magic"} /\ t.lu = lu
      /\ t.count = [w.count EXCEPT ![bix] = Blank] /\ t.magic = [w.magic EXCEPT ![bix] = FALSE]
  BY <1>1, <1>2 DEF Recoverable
<1>4. /\ w.magic \in [Bixes -> BOOLEAN] /\ w.count \in [Bixes -> Nat \cup {Blank}]
      /\ w.lu \in [Pages -> Int \cup {Blank}]
      /\ \A b \in Bixes : ~w.magic[b] => b = bix
      /\ \A b \in Bixes : w.magic[b] => w.count[b] \in Nat
  BY <1>1 DEF Recoverable, OnlyOpen
<1>5. t.magic \in [Bixes -> BOOLEAN] /\ t.count \in [Bixes -> Nat \cup {Blank}]
  BY <1>3, <1>4
<1>6. t.lu \in [Pages -> Int \cup {Blank}] /\ \A p \in Pages : BlockOf(p) = bix => t.lu[p] = Blank
  <2>1. \A p \in Pages : t.lu[p] = IF BlockOf(p) = bix THEN Blank ELSE w.lu[p]
    BY <1>3
  <2> QED BY <1>3, <1>4, <2>1
<1>7. \A b \in Bixes : ~t.magic[b] => b = bix
  BY <1>3, <1>4
<1>8. \A b \in Bixes : t.magic[b] => t.count[b] \in Nat
  BY <1>3, <1>4
<1>9. Recoverable(t) /\ OnlyOpen(t, bix)
  BY <1>3, <1>5, <1>6, <1>7, <1>8 DEF Recoverable, OnlyOpen
<1>10. t.lu = Freed(fl.lu, bix)
  BY <1>1, <1>3 DEF Freed
<1> QED BY <1>9, <1>10 DEF t

(* A block may get its count at any time.                                   *)
LEMMA CountedFlash ==
    ASSUME NEW fl, NEW bix, Recoverable(fl), OnlyOpen(fl, bix), NEW n \in Nat
    PROVE  /\ Recoverable([fl EXCEPT !.count[bix] = n])
           /\ OnlyOpen([fl EXCEPT !.count[bix] = n], bix)
           /\ [fl EXCEPT !.count[bix] = n].count = [fl.count EXCEPT ![bix] = n]
           /\ [fl EXCEPT !.count[bix] = n].lu = fl.lu
<1> DEFINE t == [fl EXCEPT !.count[bix] = n]
<1>1. DOMAIN t = DOMAIN fl /\ t.lu = fl.lu /\ t.magic = fl.magic
      /\ t.count = [fl.count EXCEPT ![bix] = n]
  BY DEF Recoverable
<1> HIDE DEF t
<1>2. fl.count \in [Bixes -> Nat \cup {Blank}]
  BY DEF Recoverable
<1>3. t.count \in [Bixes -> Nat \cup {Blank}]
      /\ \A b \in Bixes : t.count[b] = IF b = bix THEN n ELSE fl.count[b]
  BY <1>1, <1>2
<1>4. Recoverable(t)
  BY <1>1, <1>3 DEF Recoverable
<1>5. OnlyOpen(t, bix)
  BY <1>1 DEF OnlyOpen
<1> QED BY <1>1, <1>4, <1>5 DEF t

(* With the magic of the block that was open the flash is complete.         *)
LEMMA MarkedFlash ==
    ASSUME NEW fl, NEW bix, Recoverable(fl), OnlyOpen(fl, bix),
           bix \in Bixes => fl.count[bix] \in Nat
    PROVE  Complete([fl EXCEPT !.magic[bix] = TRUE]) /\ [fl EXCEPT !.magic[bix] = TRUE].lu = fl.lu
<1> DEFINE t == [fl EXCEPT !.magic[bix] = TRUE]
<1>1. DOMAIN t = DOMAIN fl /\ t.lu = fl.lu /\ t.count = fl.count
      /\ t.magic = [fl.magic EXCEPT ![bix] = TRUE]
  BY DEF Recoverable
<1> HIDE DEF t
<1>2. fl.magic \in [Bixes -> BOOLEAN] /\ (\A b \in Bixes : ~fl.magic[b] => b = bix)
      /\ \A b \in Bixes : fl.magic[b] => fl.count[b] \in Nat
  BY DEF Recoverable, OnlyOpen
<1>3. t.magic \in [Bixes -> BOOLEAN] /\ \A b \in Bixes : t.magic[b]
  BY <1>1, <1>2
<1>4. \A b \in Bixes : t.count[b] \in Nat
  BY <1>1, <1>2
<1>5. Recoverable(t)
  BY <1>1, <1>3, <1>4 DEF Recoverable
<1> QED BY <1>1, <1>3, <1>5 DEF Complete, t

(* An erasure, of the block that was being erased if there is one, leaves a *)
(* complete flash; a loss of power on the way, one that can be recovered.  *)
LEMMA EraseBlockKeeps ==
    ASSUME NEW s, NEW c, NEW bix, Shaped(s, c), Recoverable(s.flash), OnlyOpen(s.flash, bix)
    PROVE  /\ Solid(EraseBlock(s, bix), c)
           /\ EraseBlock(s, bix).res = s.res /\ EraseBlock(s, bix).fds = s.fds
           /\ EraseBlock(s, bix).fs.allocated = s.fs.allocated
           /\ EraseBlock(s, bix).fs.deleted = s.fs.deleted
           /\ EraseBlock(s, bix).flash.lu = Freed(s.flash.lu, bix)
<1> DEFINE s1 == First(s, bix)
           s2 == Others(s1, bix)
           s3 == Counted(s2, bix)
           s4 == Marked(s3, bix)
           t == EraseBlock(s, bix)
<1>1. /\ Shaped(s1, c) /\ Recoverable(s1.flash) /\ OnlyOpen(s1.flash, bix)
      /\ s1.fs = s.fs /\ s1.res = s.res /\ s1.fds = s.fds
      /\ s1.flash.lu = Freed(s.flash.lu, bix)
  BY OpenedIs, WroteIs DEF First
<1> HIDE DEF s1
<1>2. /\ Shaped(s2, c) /\ Recoverable(s2.flash) /\ OnlyOpen(s2.flash, bix)
      /\ s2.fs = s.fs /\ s2.res = s.res /\ s2.fds = s.fds
      /\ s2.flash.lu = s1.flash.lu
  <2> DEFINE w == Wiped(s1.flash, PagesOf(bix))
  <2>1. Recoverable(w) /\ OnlyOpen(w, bix) /\ w.lu = s1.flash.lu
    BY <1>1, WipedIs
  <2>2. s2 = s1 \/ s2 = Wrote(s1, w)
    BY DEF Others
  <2> HIDE DEF w, s2
  <2>3. CASE s2 = s1
    BY <1>1, <2>3
  <2>4. CASE s2 = Wrote(s1, w)
    <3>1. Shaped(s1, c) /\ Recoverable(w)
      BY <1>1, <2>1
    <3>2. /\ Shaped(Wrote(s1, w), c)
          /\ Wrote(s1, w).flash = w /\ Wrote(s1, w).fs = s1.fs /\ Wrote(s1, w).res = s1.res
          /\ Wrote(s1, w).fds = s1.fds /\ Wrote(s1, w).pix = s1.pix
      BY <3>1, WroteIs
    <3> QED BY <1>1, <2>1, <2>4, <3>2
  <2> QED BY <2>2, <2>3, <2>4
<1> HIDE DEF s2
<1>3. s2.fs.maxErase \in Nat
  BY <1>2 DEF Shaped, Counters
<1>4. /\ Shaped(s3, c) /\ Recoverable(s3.flash) /\ OnlyOpen(s3.flash, bix)
      /\ s3.fs = s.fs /\ s3.res = s.res /\ s3.fds = s.fds /\ s3.flash.lu = s2.flash.lu
      /\ s3.flash.count = [s2.flash.count EXCEPT ![bix] = s2.fs.maxErase]
  <2> DEFINE w == [s2.flash EXCEPT !.count[bix] = s2.fs.maxErase]
  <2>1. Recoverable(w) /\ OnlyOpen(w, bix)
        /\ w.count = [s2.flash.count EXCEPT ![bix] = s2.fs.maxErase] /\ w.lu = s2.flash.lu
    BY <1>2, <1>3, CountedFlash
  <2>2. s3 = Wrote(s2, w)
    BY DEF Counted
  <2> HIDE DEF w, s3
  <2> QED BY <1>2, <2>1, <2>2, WroteIs
<1> HIDE DEF s3
<1>5. bix \in Bixes => s3.flash.count[bix] \in Nat
  <2>1. DOMAIN s2.flash.count = Bixes
    BY <1>2 DEF Recoverable
  <2> SUFFICES ASSUME bix \in Bixes PROVE s3.flash.count[bix] = s2.fs.maxErase
    BY <1>3
  <2> QED BY <1>4, <2>1
<1>6. /\ Solid(s4, c) /\ s4.fs = s.fs /\ s4.res = s.res /\ s4.fds = s.fds
      /\ s4.flash.lu = s3.flash.lu
  <2>1. /\ Complete([s3.flash EXCEPT !.magic[bix] = TRUE])
        /\ [s3.flash EXCEPT !.magic[bix] = TRUE].lu = s3.flash.lu
    BY <1>4, <1>5, MarkedFlash
  <2> DEFINE w == [s3.flash EXCEPT !.magic[bix] = TRUE]
  <2>2. s4 = Wrote(s3, w)
    BY DEF Marked
  <2> HIDE DEF w, s4
  <2>3. Complete(w) /\ Recoverable(w) /\ w.lu = s3.flash.lu
    BY <2>1 DEF w, Complete
  <2> QED BY <1>4, <2>2, <2>3, WroteIs
<1>7. t = [s4 EXCEPT !.fs.freeBlocks = @ + 1, !.fs.maxErase = @ + 1]
  BY EraseBlockIs DEF s1, s2, s3
<1> HIDE DEF s4, t
<1>8. DOMAIN s4 = Fields /\ Counters(s4.fs, c) /\ Shaped(s4, c) /\ Numbered(s4.fds)
  BY <1>6 DEF Solid, Shaped
<1>9. /\ DOMAIN t = DOMAIN s4 /\ t.trail = s4.trail /\ t.flash = s4.flash /\ t.res = s4.res
      /\ t.fds = s4.fds
      /\ t.fs = [s4.fs EXCEPT !.freeBlocks = @ + 1, !.maxErase = @ + 1]
  BY <1>7, <1>8 DEF Fields
<1>10. Counters(t.fs, c)
  BY <1>8, <1>9 DEF Counters, Fresh
<1>11. Solid(t, c)
  BY <1>6, <1>8, <1>9, <1>10, NothingWritten
<1>12. t.fs.allocated = s4.fs.allocated /\ t.fs.deleted = s4.fs.deleted
  BY <1>8, <1>9 DEF Counters, Fresh
<1>13. t.flash.lu = Freed(s.flash.lu, bix)
  BY <1>1, <1>2, <1>4, <1>6, <1>9
<1> QED BY <1>6, <1>9, <1>11, <1>12, <1>13 DEF t

(* A call that writes at all may erase any block.                          *)
LEMMA AnyBlockErased ==
    ASSUME NEW s, NEW c, Solid(s, c), NEW bix
    PROVE  /\ Solid(EraseBlock(s, bix), c)
           /\ EraseBlock(s, bix).res = s.res /\ EraseBlock(s, bix).fds = s.fds
           /\ EraseBlock(s, bix).fs.allocated = s.fs.allocated
           /\ EraseBlock(s, bix).fs.deleted = s.fs.deleted
           /\ EraseBlock(s, bix).flash.lu = Freed(s.flash.lu, bix)
<1>1. Shaped(s, c) /\ Recoverable(s.flash) /\ OnlyOpen(s.flash, bix)
  BY DEF Solid, Complete, OnlyOpen
<1> QED BY <1>1, EraseBlockKeeps

(* A lookup entry is written when it is free, or to delete it.             *)
LEMMA SetLuKeeps ==
    ASSUME NEW s, NEW c, Solid(s, c), NEW pix, NEW id \in Int,
           id = Deleted \/ (pix \in Pages => s.flash.lu[pix] = Blank)
    PROVE  /\ Solid(SetLu(s, pix, id), c)
           /\ SetLu(s, pix, id).fs = s.fs /\ SetLu(s, pix, id).fds = s.fds
           /\ SetLu(s, pix, id).res = s.res /\ SetLu(s, pix, id).pix = s.pix
           /\ pix \in Pages => Taken(SetLu(s, pix, id).flash) = Taken(s.flash) \cup {pix}
<1> DEFINE n == CASE id = Deleted -> Deleted
                  [] s.flash.lu[pix] = Blank -> id
                  [] OTHER -> Mixed
           fl == [s.flash EXCEPT !.lu[pix] = n]
<1>1. Recoverable(s.flash) /\ \A b \in Bixes : s.flash.magic[b]
  BY DEF Solid, Complete
<1>2. pix \in Pages => n \in Int
  BY DEF Deleted
<1>3. SetLu(s, pix, id) = Wrote(s, fl)
  BY DEF SetLu
<1> HIDE DEF n
<1>4. /\ DOMAIN fl = DOMAIN s.flash /\ fl.magic = s.flash.magic /\ fl.count = s.flash.count
      /\ fl.lu = [s.flash.lu EXCEPT ![pix] = n]
  BY <1>1 DEF Recoverable
<1> HIDE DEF fl
<1>5. s.flash.lu \in [Pages -> Int \cup {Blank}]
  BY <1>1 DEF Recoverable
<1>6. fl.lu \in [Pages -> Int \cup {Blank}]
  BY <1>2, <1>4, <1>5
<1>7. Complete(fl) /\ Recoverable(fl)
  BY <1>1, <1>4, <1>6 DEF Recoverable, Complete
<1>8. Shaped(s, c)
  BY DEF Solid
<1>9. ASSUME pix \in Pages PROVE Taken(fl) = Taken(s.flash) \cup {pix}
  BY <1>2, <1>4, <1>5, <1>9, CellAssumption DEF Taken
<1> HIDE DEF Taken
<1> QED BY <1>3, <1>7, <1>8, <1>9, WroteIs

(* A free entry takes the identifier written to it.                         *)
LEMMA SetLuSets ==
    ASSUME NEW s, NEW c, Solid(s, c), NEW pix \in Pages, NEW id \in Int, s.flash.lu[pix] = Blank
    PROVE  SetLu(s, pix, id).flash.lu[pix] \in Int
<1> DEFINE n == CASE id = Deleted -> Deleted
                  [] s.flash.lu[pix] = Blank -> id
                  [] OTHER -> Mixed
           fl == [s.flash EXCEPT !.lu[pix] = n]
<1>1. Recoverable(s.flash) /\ DOMAIN s = Fields
  BY SolidIs, FieldsAre DEF Complete
<1>2. n \in Int
  BY DEF Deleted
<1>3. SetLu(s, pix, id) = Wrote(s, fl)
  BY DEF SetLu
<1> HIDE DEF n
<1>4. fl.lu[pix] = n
  BY <1>1 DEF Recoverable
<1> HIDE DEF fl
<1>5. Wrote(s, fl).flash = fl
  <2> DEFINE q == Append(s.trail, fl)
  <2>1. Wrote(s, fl) = [s EXCEPT !.flash = fl, !.trail = q]
    BY Zenon DEF Wrote
  <2> HIDE DEF q
  <2> QED BY <1>1, <2>1 DEF Fields
<1> QED BY <1>2, <1>3, <1>4, <1>5

(* Programming a page leaves the lookup as it is.                          *)
LEMMA ProgramSolid ==
    ASSUME NEW s, NEW c, Solid(s, c), NEW pix, NEW page
    PROVE  /\ Solid(Program(s, pix, page), c)
           /\ Program(s, pix, page).flash.lu = s.flash.lu
           /\ Program(s, pix, page).fs = s.fs /\ Program(s, pix, page).fds = s.fds
           /\ Program(s, pix, page).res = s.res /\ Program(s, pix, page).pix = s.pix
<1> DEFINE fl == [s.flash EXCEPT !.page[pix] = AndPage(s.flash.page[pix], page)]
<1>1. Recoverable(s.flash) /\ \A b \in Bixes : s.flash.magic[b]
  BY DEF Solid, Complete
<1>2. Program(s, pix, page) = Wrote(s, fl)
  BY DEF Program
<1>3. /\ DOMAIN fl = DOMAIN s.flash /\ fl.magic = s.flash.magic /\ fl.count = s.flash.count
      /\ fl.lu = s.flash.lu
  BY <1>1 DEF Recoverable
<1> HIDE DEF fl
<1>4. Complete(fl) /\ Recoverable(fl)
  BY <1>1, <1>3 DEF Recoverable, Complete
<1>5. Shaped(s, c)
  BY DEF Solid
<1> QED BY <1>2, <1>3, <1>4, <1>5, WroteIs

(* So a sound call stays sound.                                             *)
LEMMA ProgramKeeps ==
    ASSUME NEW s, NEW c, Sound(s, c), NEW pix, NEW page
    PROVE  /\ Sound(Program(s, pix, page), c)
           /\ Program(s, pix, page).flash.lu = s.flash.lu
           /\ Program(s, pix, page).fs = s.fs /\ Program(s, pix, page).fds = s.fds
           /\ Program(s, pix, page).res = s.res /\ Program(s, pix, page).pix = s.pix
<1> DEFINE t == Program(s, pix, page)
<1>1. /\ Solid(t, c) /\ t.flash.lu = s.flash.lu /\ t.fs = s.fs /\ t.fds = s.fds
      /\ t.res = s.res /\ t.pix = s.pix
  BY ProgramSolid, SoundIs
<1> HIDE DEF t
<1>2. Taken(t.flash) = Taken(s.flash)
  BY <1>1 DEF Taken
<1>3. Within(t.fs, t.flash)
  BY <1>1, <1>2 DEF Sound, Within
<1>4. Sound(t, c)
  BY <1>1, <1>3 DEF Sound
<1> QED BY <1>1, <1>4 DEF t

(* The number of taken pages is a natural number.                           *)
LEMMA TakenIs ==
    ASSUME NEW fl
    PROVE  IsFiniteSet(Taken(fl)) /\ Cardinality(Taken(fl)) \in Nat
<1>1. IsFiniteSet(Pages)
  BY FS_Interval, GeometryAssumption DEF Pages
<1>2. Taken(fl) \in SUBSET Pages
  BY DEF Taken
<1>3. IsFiniteSet(Taken(fl))
  BY <1>1, <1>2, FS_Subset
<1> QED BY <1>3, FS_CardinalityType

(* A page that takes a free entry is counted as allocated with it.          *)
Entered(s, id) == [SetLu(s, s.pix, id) EXCEPT !.fs.allocated = @ + 1]

LEMMA EnteredKeeps ==
    ASSUME NEW s, NEW c, Sound(s, c), s.pix \in Pages, s.flash.lu[s.pix] = Blank, NEW id \in Int
    PROVE  LET t == Entered(s, id)
           IN /\ Sound(t, c) /\ t.flash = SetLu(s, s.pix, id).flash
              /\ t.res = s.res /\ t.pix = s.pix /\ t.fds = s.fds
<1> DEFINE l == SetLu(s, s.pix, id)
           t == [l EXCEPT !.fs.allocated = @ + 1]
<1>1. /\ Solid(l, c) /\ l.fs = s.fs /\ l.fds = s.fds /\ l.res = s.res /\ l.pix = s.pix
      /\ Taken(l.flash) = Taken(s.flash) \cup {s.pix}
  BY SetLuKeeps, SoundIs
<1> HIDE DEF l
<1>2. DOMAIN l = Fields /\ DOMAIN l.fs = {"mounted", "cleaning", "freeBlocks", "allocated",
                                          "deleted", "maxErase", "freeCursor", "cursor"}
  BY <1>1, SolidIs, FieldsAre
<1>3. /\ DOMAIN t = DOMAIN l /\ t.flash = l.flash /\ t.trail = l.trail
      /\ DOMAIN t.fs = DOMAIN l.fs /\ t.fs.maxErase = l.fs.maxErase
      /\ t.fs.cleaning = l.fs.cleaning /\ t.fs.freeCursor = l.fs.freeCursor
      /\ t.fds = l.fds /\ t.pix = l.pix /\ t.res = l.res
      /\ t.fs.allocated = l.fs.allocated + 1 /\ t.fs.deleted = l.fs.deleted
  BY <1>2 DEF Fields
<1>4. Entered(s, id) = t
  BY DEF Entered, l
<1> HIDE DEF t
<1>5. Solid(t, c)
  BY <1>1, <1>3, CountersSet
<1>6. s.pix \notin Taken(s.flash)
  BY DEF Taken
<1>7. Cardinality(Taken(t.flash)) = Cardinality(Taken(s.flash)) + 1
  BY <1>1, <1>3, <1>6, TakenIs, FS_AddElement
<1>8. Within(t.fs, t.flash)
  BY <1>1, <1>3, <1>7, TakenIs DEF Sound, Within
<1> QED BY <1>1, <1>3, <1>4, <1>5, <1>8 DEF Sound, l

(* Deleting a page counts it as deleted and no longer as allocated.         *)
Struck(s, pix) ==
    [SetLu(s, pix, Deleted) EXCEPT !.fs.deleted = @ + 1, !.fs.allocated = @ - 1]

LEMMA StruckKeeps ==
    ASSUME NEW s, NEW c, Sound(s, c), NEW pix \in Pages
    PROVE  Sound(Struck(s, pix), c) /\ Struck(s, pix).fds = s.fds
<1> DEFINE l == SetLu(s, pix, Deleted)
           t == [l EXCEPT !.fs.deleted = @ + 1, !.fs.allocated = @ - 1]
<1>1. /\ Solid(l, c) /\ l.fs = s.fs /\ l.fds = s.fds
      /\ Taken(l.flash) = Taken(s.flash) \cup {pix}
  BY SetLuKeeps, SoundIs DEF Deleted
<1> HIDE DEF l
<1>2. DOMAIN l = Fields /\ DOMAIN l.fs = {"mounted", "cleaning", "freeBlocks", "allocated",
                                          "deleted", "maxErase", "freeCursor", "cursor"}
  BY <1>1, SolidIs, FieldsAre
<1>3. /\ DOMAIN t = DOMAIN l /\ t.flash = l.flash /\ t.trail = l.trail
      /\ DOMAIN t.fs = DOMAIN l.fs /\ t.fs.maxErase = l.fs.maxErase
      /\ t.fs.cleaning = l.fs.cleaning /\ t.fs.freeCursor = l.fs.freeCursor /\ t.fds = l.fds
      /\ t.fs.allocated = l.fs.allocated - 1 /\ t.fs.deleted = l.fs.deleted + 1
  BY <1>2 DEF Fields
<1>4. Struck(s, pix) = t
  BY DEF Struck, l
<1> HIDE DEF t
<1>5. Solid(t, c)
  BY <1>1, <1>3, CountersSet
<1>6. Cardinality(Taken(t.flash)) >= Cardinality(Taken(s.flash))
  BY <1>1, <1>3, TakenIs, FS_AddElement
<1>7. Within(t.fs, t.flash)
  BY <1>1, <1>3, <1>6, TakenIs DEF Sound, Within
<1> QED BY <1>1, <1>3, <1>4, <1>5, <1>7 DEF Sound

(* A page is one of its block.                                              *)
LEMMA OwnBlock == ASSUME NEW p \in Pages PROVE p \in PagesOf(BlockOf(p))
<1> DEFINE x == p - 1
           b == x \div Entries
           e == x % Entries
<1>1. Entries \in Nat /\ Entries > 0 /\ x \in Nat
  BY GeometryAssumption DEF Pages
<1>2. x = b * Entries + e /\ e \in 0 .. Entries - 1
  <2> HIDE DEF x
  <2>1. \A y \in Nat, n \in Nat : n > 0 => y = (y \div n) * n + (y % n) /\ y % n \in 0 .. n - 1
    OBVIOUS
  <2> QED BY <1>1, <2>1
<1>3. p = PixOf(b, e)
  BY <1>1, <1>2 DEF PixOf, Pages
<1>4. b = BlockOf(p)
  BY DEF BlockOf
<1> HIDE DEF b, e, x
<1> QED BY <1>2, <1>3, <1>4 DEF PagesOf

(* A block has finitely many pages.                                         *)
LEMMA BlockFinite == ASSUME NEW bix PROVE IsFiniteSet(PagesOf(bix))
<1> DEFINE f == [e \in 0 .. Entries - 1 |-> PixOf(bix, e)]
<1>1. f \in Surjection(0 .. Entries - 1, PagesOf(bix))
  BY DEF Surjection, PagesOf
<1>2. IsFiniteSet(0 .. Entries - 1)
  <2>1. 0 \in Int /\ Entries - 1 \in Int
    BY GeometryAssumption
  <2> QED BY <2>1, FS_Interval
<1> HIDE DEF f
<1> QED BY <1>1, <1>2, FS_Surjection

(* Erasing a block frees no more pages than are in use or deleted in it.    *)
LEMMA FreedCount ==
    ASSUME NEW fl, NEW gl, NEW bix, gl.lu = Freed(fl.lu, bix)
    PROVE  LET live == Cardinality(Live(fl, PagesOf(bix)))
               dead == Cardinality(Dead(fl, PagesOf(bix)))
           IN /\ live \in Nat /\ dead \in Nat
              /\ Cardinality(Taken(fl)) <= Cardinality(Taken(gl)) + live + dead
<1> DEFINE L == Live(fl, PagesOf(bix))
           D == Dead(fl, PagesOf(bix))
           T == Taken(fl)
           G == Taken(gl)
<1>1. L \in SUBSET PagesOf(bix) /\ D \in SUBSET PagesOf(bix)
  BY DEF Live, Dead
<1>2. IsFiniteSet(L) /\ IsFiniteSet(D)
  BY <1>1, BlockFinite, FS_Subset
<1>3. Cardinality(L) \in Nat /\ Cardinality(D) \in Nat
  BY <1>2, FS_CardinalityType
<1>4. T \subseteq G \cup (L \cup D)
  <2> SUFFICES ASSUME NEW p \in T, p \notin G PROVE p \in L \cup D
    OBVIOUS
  <2>1. p \in Pages /\ fl.lu[p] # Blank
    BY DEF Taken
  <2>2. gl.lu[p] = Blank
    BY <2>1 DEF Taken
  <2>3. BlockOf(p) = bix
    BY <2>1, <2>2 DEF Freed
  <2>4. p \in PagesOf(bix)
    BY <2>1, <2>3, OwnBlock
  <2> QED BY <2>1, <2>4 DEF Live, Dead, Free
<1>5. IsFiniteSet(G) /\ Cardinality(G) \in Nat /\ IsFiniteSet(T) /\ Cardinality(T) \in Nat
  BY TakenIs
<1> HIDE DEF L, D, T, G
<1>6. IsFiniteSet(L \cup D) /\ Cardinality(L \cup D) \in Nat
      /\ Cardinality(L \cup D) <= Cardinality(L) + Cardinality(D)
  <2>1. IsFiniteSet(L \cup D)
        /\ Cardinality(L \cup D) = Cardinality(L) + Cardinality(D) - Cardinality(L \cap D)
    BY <1>2, FS_Union
  <2>2. Cardinality(L \cap D) \in Nat
    BY <1>2, FS_Subset, FS_CardinalityType
  <2>3. Cardinality(L \cup D) \in Nat
    BY <2>1, FS_CardinalityType
  <2> QED BY <1>3, <2>1, <2>2, <2>3
<1>7. Cardinality(G \cup (L \cup D)) <= Cardinality(G) + Cardinality(L \cup D)
      /\ IsFiniteSet(G \cup (L \cup D)) /\ Cardinality(G \cup (L \cup D)) \in Nat
  <2>1. IsFiniteSet(G \cup (L \cup D))
        /\ Cardinality(G \cup (L \cup D)) =
              Cardinality(G) + Cardinality(L \cup D) - Cardinality(G \cap (L \cup D))
    BY <1>5, <1>6, FS_Union
  <2>2. Cardinality(G \cap (L \cup D)) \in Nat
    BY <1>5, FS_Subset, FS_CardinalityType
  <2>3. Cardinality(G \cup (L \cup D)) \in Nat
    BY <2>1, FS_CardinalityType
  <2> QED BY <1>5, <1>6, <2>1, <2>2, <2>3
<1>8. Cardinality(T) <= Cardinality(G \cup (L \cup D))
  BY <1>4, <1>7, FS_Subset
<1>9. Cardinality(T) <= Cardinality(G) + Cardinality(L) + Cardinality(D)
  BY <1>3, <1>5, <1>6, <1>7, <1>8
<1> QED BY <1>3, <1>9 DEF L, D, T, G

(* An erasure after its pages were taken out of the counters.               *)
LEMMA ReclaimKeeps ==
    ASSUME NEW s, NEW c, Sound(s, c), NEW bix, NEW u, Solid(u, c),
           u.flash = s.flash, u.fds = s.fds, u.fs.allocated \in Int, u.fs.deleted \in Int,
           u.fs.allocated + u.fs.deleted = s.fs.allocated + s.fs.deleted
               - Cardinality(Live(s.flash, PagesOf(bix))) - Cardinality(Dead(s.flash, PagesOf(bix)))
    PROVE  Sound(EraseBlock(u, bix), c) /\ EraseBlock(u, bix).fds = s.fds
<1> DEFINE t == EraseBlock(u, bix)
           L == Cardinality(Live(s.flash, PagesOf(bix)))
           D == Cardinality(Dead(s.flash, PagesOf(bix)))
<1>1. /\ Solid(t, c) /\ t.fds = u.fds /\ t.fs.allocated = u.fs.allocated
      /\ t.fs.deleted = u.fs.deleted /\ t.flash.lu = Freed(s.flash.lu, bix)
  BY AnyBlockErased
<1> HIDE DEF t
<1>2. L \in Nat /\ D \in Nat /\ Cardinality(Taken(s.flash)) <= Cardinality(Taken(t.flash)) + L + D
  BY <1>1, FreedCount
<1> HIDE DEF L, D
<1>3. Within(t.fs, t.flash)
  <2>1. /\ s.fs.allocated \in Int /\ s.fs.deleted \in Int
        /\ s.fs.allocated + s.fs.deleted <= Cardinality(Taken(s.flash))
    BY DEF Sound, Within
  <2>2. u.fs.allocated + u.fs.deleted = s.fs.allocated + s.fs.deleted - L - D
    BY DEF L, D
  <2> QED BY <1>1, <1>2, <2>1, <2>2, TakenIs DEF Within
<1> QED BY <1>1, <1>3 DEF Sound, t

(* Of a set of naturals one is the first.                                  *)
LEMMA FirstOf == ASSUME NEW S \in SUBSET Nat, S # {} PROVE \E s \in S : \A t \in S : s <= t
<1> DEFINE before == OpToRel(<, Nat)
<1>1. IsWellFoundedOn(before, Nat)
  BY NatLessThanWellFounded
<1>2. before = {ss \in Nat \X Nat : ss[1] < ss[2]}
  BY Zenon DEF OpToRel
<1> HIDE DEF before
<1>3. PICK s \in S : \A t \in S : <<t, s>> \notin before
  BY <1>1, WFMin
<1>4. \A x, y \in Nat : x < y => <<x, y>> \in before
  BY <1>2
<1>5. ASSUME NEW t \in S PROVE s <= t
  <2>1. s \in Nat /\ t \in Nat /\ ~ t < s
    BY <1>3, <1>4
  <2> QED BY <2>1
<1> QED BY <1>5

(* The number of pages is a natural number.                                 *)
LEMMA PagesAre == Blocks * Entries \in Nat
  BY GeometryAssumption

(* So is the number of pages of a block.                                    *)
LEMMA EntriesAre == Entries \in Nat
  BY GeometryAssumption

(* There is a page.                                                         *)
LEMMA SomePages == Blocks * Entries \in Nat /\ Blocks * Entries > 0
<1>1. Blocks \in Nat /\ Entries \in Nat /\ Blocks > 0 /\ Entries > 0
  BY GeometryAssumption
<1>2. \A a, b \in Nat : a > 0 /\ b > 0 => a * b \in Nat /\ a * b > 0
  OBVIOUS
<1> QED BY <1>1, <1>2

(* The scan for a free entry finds one, or none.                           *)
FreeScan(t) == ScanFrom(t.fs.freeCursor, LAMBDA p : t.flash.lu[p] = Blank)

(* A scan for a free lookup entry returns a page with a free entry, or 0.   *)
LEMMA FreeScanIs ==
    ASSUME NEW t, NEW c, Sound(t, c)
    PROVE  FreeScan(t) = 0 \/ (FreeScan(t) \in Pages /\ t.flash.lu[FreeScan(t)] = Blank)
<1> DEFINE n == Blocks * Entries
           start == CASE t.fs.freeCursor.entry >= Entries ->
                           ((t.fs.freeCursor.bix + 1) % Blocks) * Entries
                      [] t.fs.freeCursor.entry < 0 -> t.fs.freeCursor.bix * Entries
                      [] OTHER -> t.fs.freeCursor.bix * Entries + t.fs.freeCursor.entry
           at(k) == 1 + ((start + k) % n)
           hits == {k \in 0 .. n - 1 : t.flash.lu[at(k)] = Blank}
           hit == CHOOSE k \in hits : \A j \in hits : k <= j
<1>1. FreeScan(t) = IF hits = {} THEN 0 ELSE at(hit)
  BY DEF FreeScan, ScanFrom
<1>2. hits \in SUBSET Nat
  BY PagesAre
<1>3. ASSUME hits # {} PROVE hit \in hits
  <2> HIDE DEF hits
  <2> QED BY <1>2, <1>3, FirstOf
<1>4. \A k \in hits : t.flash.lu[at(k)] = Blank
  OBVIOUS
<1>5. start \in Nat
  <2>1. t.fs.freeCursor.bix \in Nat /\ t.fs.freeCursor.entry \in Nat
    BY DEF Sound, Solid, Shaped, Counters
  <2>2. \A a \in Nat : a * Entries \in Nat
    BY EntriesAre
  <2>3. (t.fs.freeCursor.bix + 1) % Blocks \in Nat
    BY <2>1, GeometryAssumption
  <2> QED BY <2>1, <2>2, <2>3, EntriesAre
<1>6. \A k \in hits : at(k) \in Pages
  <2>1. n \in Nat /\ n > 0
    BY SomePages
  <2>2. \A k \in hits : k \in Nat
    BY <1>2
  <2>3. \A k \in Nat : (start + k) % n \in 0 .. n - 1
    <3> HIDE DEF start, n
    <3> QED BY <1>5, <2>1
  <2>4. Pages = 1 .. n
    BY DEF Pages
  <2>5. ASSUME NEW k \in hits PROVE at(k) \in Pages
    <3> DEFINE x == (start + k) % n
    <3>1. x \in 0 .. n - 1 /\ at(k) = 1 + x
      BY <2>2, <2>3
    <3> HIDE DEF x, n, at
    <3>2. 1 + x \in 1 .. n
      BY <2>1, <3>1
    <3> QED BY <2>4, <3>1, <3>2
  <2> HIDE DEF hits, at
  <2> QED BY <2>5
<1> HIDE DEF hits, hit, at, start
<1> QED BY <1>1, <1>3, <1>4, <1>6

(* SPIFFS_gc_quick erases at most a block.                                  *)
LEMMA GcQuickKeeps ==
    ASSUME NEW s, NEW c, Sound(s, c), NEW maxFree
    PROVE  Sound(GcQuick(s, maxFree), c) /\ GcQuick(s, maxFree).fds = s.fds
<1> DEFINE fits(b) == /\ Live(s.flash, PagesOf(b)) = {}
                      /\ Cardinality(Free(s.flash, PagesOf(b))) <= maxFree
           cands == {b \in 0 .. Blocks - 1 : fits(b)}
           bix == CHOOSE b \in cands : \A c2 \in cands : b <= c2
           less == [s EXCEPT !.fs.deleted = @ - Cardinality(Dead(s.flash, PagesOf(bix)))]
<1>1. GcQuick(s, maxFree) = IF cands = {} THEN Fail(s, "NO_DELETED_BLOCKS")
                            ELSE EraseBlock(less, bix)
  BY DEF GcQuick
<1>2. cands # {} => Live(s.flash, PagesOf(bix)) = {}
  <2>1. cands \in SUBSET Nat
    BY GeometryAssumption
  <2>2. \A b \in cands : Live(s.flash, PagesOf(b)) = {}
    OBVIOUS
  <2> HIDE DEF cands
  <2>3. cands # {} => bix \in cands
    BY <2>1, FirstOf
  <2> QED BY <2>2, <2>3
<1> HIDE DEF cands, bix
<1>3. ASSUME cands # {}
      PROVE  Sound(EraseBlock(less, bix), c) /\ EraseBlock(less, bix).fds = s.fds
  <2> DEFINE D == Cardinality(Dead(s.flash, PagesOf(bix)))
  <2>1. D \in Nat
    BY BlockFinite, FS_Subset, FS_CardinalityType DEF Dead
  <2>2. Cardinality(Live(s.flash, PagesOf(bix))) = 0
    BY <1>2, <1>3, FS_EmptySet
  <2>3. /\ DOMAIN less = DOMAIN s /\ less.flash = s.flash /\ less.trail = s.trail
        /\ DOMAIN less.fs = DOMAIN s.fs /\ less.fs.maxErase = s.fs.maxErase
        /\ less.fs.cleaning = s.fs.cleaning /\ less.fs.freeCursor = s.fs.freeCursor
        /\ less.fds = s.fds /\ less.fs.allocated = s.fs.allocated
        /\ less.fs.deleted = s.fs.deleted - D
    BY SoundIs, FieldsAre DEF Fields
  <2> HIDE DEF less, D
  <2>4. Solid(less, c)
    BY <2>3, CountersSet, SoundIs
  <2>5. s.fs.allocated \in Int /\ s.fs.deleted \in Int
    BY DEF Sound, Within
  <2>6. /\ less.fs.allocated \in Int /\ less.fs.deleted \in Int
        /\ less.fs.allocated + less.fs.deleted = s.fs.allocated + s.fs.deleted - 0 - D
    BY <2>1, <2>3, <2>5
  <2> QED BY <2>2, <2>3, <2>4, <2>6, ReclaimKeeps DEF D
<1> HIDE DEF less
<1>4. Sound(Fail(s, "NO_DELETED_BLOCKS"), c) /\ Fail(s, "NO_DELETED_BLOCKS").fds = s.fds
  <2>1. DOMAIN s = Fields
    BY SoundIs, FieldsAre
  <2> QED BY <2>1, FailKeeps DEF Fail, Fields
<1> QED BY <1>1, <1>3, <1>4

(* What FindFree makes of the page its scan finds.                         *)
Found(t, low, pix) ==
    CASE low /\ t.fs.freeBlocks < 2 -> Fail(t, "FULL")
      [] pix = 0 -> Fail(t, "NOT_FOUND")
      [] OTHER -> [t EXCEPT
            !.pix = pix,
            !.flash.page[pix].mixed = t.flash.page[pix] # Erased,
            !.fs.freeCursor = [bix |-> BlockOf(pix), entry |-> EntryOf(pix) + 1],
            !.fs.freeBlocks = IF EntryOf(pix) = 0 THEN @ - 1 ELSE @]

(* The search for a free page in terms of its result.                       *)
LEMMA FindFreeIs ==
    ASSUME NEW s
    PROVE  LET low == ~s.fs.cleaning /\ s.fs.freeBlocks < 2
               t == [GcQuick(s, 0) EXCEPT !.res = "OK"]
           IN FindFree(s) = IF ~Ok(s) THEN s
                            ELSE IF low THEN Found(t, low, FreeScan(t))
                            ELSE Found(s, low, FreeScan(s))
  BY DEF FindFree, Found, FreeScan

(* The page a call has found is free.                                      *)
Takes(s) == Ok(s) => s.pix \in Pages /\ s.flash.lu[s.pix] = Blank

(* The place of a page is a cursor again.                                   *)
LEMMA PlaceIs ==
    ASSUME NEW pix \in Pages
    PROVE  BlockOf(pix) \in Nat /\ EntryOf(pix) + 1 \in Nat
<1>1. Entries \in Nat /\ Entries > 0
  BY GeometryAssumption
<1>2. pix - 1 \in Nat
  BY SomePages DEF Pages
<1> QED BY <1>1, <1>2 DEF BlockOf, EntryOf

(* Taking the page a search found moves the free cursor behind it.          *)
LEMMA FoundKeeps ==
    ASSUME NEW t, NEW c, Sound(t, c), NEW low, NEW pix,
           pix = 0 \/ (pix \in Pages /\ t.flash.lu[pix] = Blank)
    PROVE  /\ Sound(Found(t, low, pix), c) /\ Found(t, low, pix).fds = t.fds
           /\ Takes(Found(t, low, pix))
<1> DEFINE o == [t EXCEPT
                    !.pix = pix,
                    !.flash.page[pix].mixed = t.flash.page[pix] # Erased,
                    !.fs.freeCursor = [bix |-> BlockOf(pix), entry |-> EntryOf(pix) + 1],
                    !.fs.freeBlocks = IF EntryOf(pix) = 0 THEN @ - 1 ELSE @]
<1>1. \/ Found(t, low, pix) = Fail(t, "FULL")
      \/ Found(t, low, pix) = Fail(t, "NOT_FOUND")
      \/ pix # 0 /\ Found(t, low, pix) = o
  BY DEF Found
<1>2. DOMAIN t = Fields /\ DOMAIN t.fs = {"mounted", "cleaning", "freeBlocks", "allocated",
                                          "deleted", "maxErase", "freeCursor", "cursor"}
  BY SoundIs, FieldsAre
<1>3. ASSUME NEW code, code # "OK"
      PROVE  Sound(Fail(t, code), c) /\ Fail(t, code).fds = t.fds /\ Takes(Fail(t, code))
  BY <1>2, <1>3, FailKeeps DEF Fail, Takes, Ok, Fields
<1>4. Recoverable(t.flash) /\ \A b \in Bixes : t.flash.magic[b]
  BY SoundIs DEF Complete
<1>5. ASSUME pix # 0
      PROVE  Sound(o, c) /\ o.fds = t.fds /\ o.pix = pix /\ o.flash.lu = t.flash.lu
  <2>1. /\ DOMAIN o = DOMAIN t /\ o.trail = t.trail
        /\ DOMAIN o.fs = DOMAIN t.fs /\ o.fs.maxErase = t.fs.maxErase
        /\ o.fs.cleaning = t.fs.cleaning /\ o.fds = t.fds /\ o.pix = pix
        /\ o.fs.allocated = t.fs.allocated /\ o.fs.deleted = t.fs.deleted
        /\ o.fs.freeCursor = [bix |-> BlockOf(pix), entry |-> EntryOf(pix) + 1]
    BY <1>2 DEF Fields
  <2>2. /\ DOMAIN o.flash = DOMAIN t.flash /\ o.flash.magic = t.flash.magic
        /\ o.flash.count = t.flash.count /\ o.flash.lu = t.flash.lu
    <3>1. o.flash = [t.flash EXCEPT !.page[pix].mixed = t.flash.page[pix] # Erased]
      BY <1>2 DEF Fields
    <3> HIDE DEF o
    <3> QED BY <1>4, <3>1 DEF Recoverable
  <2>3. BlockOf(pix) \in Nat /\ EntryOf(pix) + 1 \in Nat
    BY <1>5, PlaceIs
  <2> HIDE DEF o
  <2>4. Shaped(t, c) /\ Counters(t.fs, c) /\ Numbered(t.fds)
    BY DEF Sound, Solid, Shaped
  <2>5. Counters(o.fs, c)
    BY <2>1, <2>3, <2>4 DEF Counters
  <2>6. Shaped(o, c)
    BY <2>1, <2>4, <2>5, NothingWritten
  <2>7. Complete(o.flash)
    BY <1>4, <2>2 DEF Recoverable, Complete
  <2>8. Taken(o.flash) = Taken(t.flash)
    BY <2>2 DEF Taken
  <2>9. Within(o.fs, o.flash)
    BY <2>1, <2>8 DEF Sound, Within
  <2> QED BY <2>1, <2>2, <2>6, <2>7, <2>9 DEF Sound, Solid
<1>6. pix # 0 => Takes(o)
  BY <1>5 DEF Takes
<1> HIDE DEF o
<1> QED BY <1>1, <1>3, <1>5, <1>6

(* Finding a free page erases at most a block, and the page it returns has  *)
(* a blank entry.                                                           *)
LEMMA FindFreeKeeps ==
    ASSUME NEW s, NEW c, Sound(s, c)
    PROVE  /\ Sound(FindFree(s), c) /\ FindFree(s).fds = s.fds
           /\ Takes(FindFree(s))
<1> DEFINE low == ~s.fs.cleaning /\ s.fs.freeBlocks < 2
           g == GcQuick(s, 0)
           t == [g EXCEPT !.res = "OK"]
<1>1. \/ ~Ok(s) /\ FindFree(s) = s
      \/ Ok(s) /\ FindFree(s) = Found(t, low, FreeScan(t))
      \/ Ok(s) /\ FindFree(s) = Found(s, low, FreeScan(s))
  <2>1. FindFree(s) = IF ~Ok(s) THEN s ELSE IF low THEN Found(t, low, FreeScan(t))
                      ELSE Found(s, low, FreeScan(s))
    BY FindFreeIs
  <2> HIDE DEF low, t
  <2>2. CASE ~Ok(s)
    BY <2>1, <2>2
  <2>3. CASE Ok(s) /\ low
    BY <2>1, <2>3
  <2>4. CASE Ok(s) /\ ~low
    BY <2>1, <2>4
  <2> QED BY <2>2, <2>3, <2>4
<1>2. Sound(g, c) /\ g.fds = s.fds
  BY GcQuickKeeps
<1> HIDE DEF g
<1>3. Sound(t, c) /\ t.fds = s.fds
  <2>1. DOMAIN g = Fields
    BY <1>2, SoundIs, FieldsAre
  <2>2. DOMAIN t = DOMAIN g /\ t.flash = g.flash /\ t.trail = g.trail /\ t.fs = g.fs
        /\ t.fds = g.fds
    BY <2>1 DEF Fields
  <2> HIDE DEF t
  <2> QED BY <1>2, <2>2, RegistersSet
<1> HIDE DEF t, low
<1>4. FreeScan(t) = 0 \/ (FreeScan(t) \in Pages /\ t.flash.lu[FreeScan(t)] = Blank)
  BY <1>3, FreeScanIs
<1>5. FreeScan(s) = 0 \/ (FreeScan(s) \in Pages /\ s.flash.lu[FreeScan(s)] = Blank)
  BY FreeScanIs
<1>6. /\ Sound(Found(t, low, FreeScan(t)), c) /\ Found(t, low, FreeScan(t)).fds = t.fds
      /\ Takes(Found(t, low, FreeScan(t)))
  BY <1>3, <1>4, FoundKeeps
<1>7. /\ Sound(Found(s, low, FreeScan(s)), c) /\ Found(s, low, FreeScan(s)).fds = s.fds
      /\ Takes(Found(s, low, FreeScan(s)))
  BY <1>5, FoundKeeps
<1> QED BY <1>1, <1>3, <1>6, <1>7 DEF Takes

(* The registers and the counters of a call.                               *)
LEMMA PixSet ==
    ASSUME NEW s, NEW c, Sound(s, c), NEW pix
    PROVE  Sound([s EXCEPT !.pix = pix], c) /\ [s EXCEPT !.pix = pix].fds = s.fds
  BY RegistersSet, SoundIs, FieldsAre DEF Fields

(* Loading fs->work is invisible to the flash.                              *)
LEMMA WorkSet ==
    ASSUME NEW s, NEW c, Sound(s, c), NEW work
    PROVE  LET t == [s EXCEPT !.work = work]
           IN Sound(t, c) /\ t.flash = s.flash /\ t.res = s.res /\ t.pix = s.pix /\ t.fds = s.fds
<1>1. DOMAIN s = Fields
  BY SoundIs, FieldsAre
<1> QED BY <1>1, RegistersSet DEF Fields

(* Occupying a free page writes its entry once (spiffs_page_allocate_data). *)
LEMMA OccupiedKeeps ==
    ASSUME NEW s, NEW c, Sound(s, c), Takes(s), NEW id \in Int, NEW header, NEW data, NEW finalize
    PROVE  /\ Sound(Occupied(s, id, header, data, finalize), c)
           /\ Occupied(s, id, header, data, finalize).fds = s.fds
<1> DEFINE lu == Entered(s, id)
           hdr == Program(lu, s.pix, [header EXCEPT !.flags = @ \ {"used"}])
           body == IF data = <<>> THEN hdr
                   ELSE Program(hdr, s.pix, [Erased EXCEPT !.body = data])
           fin == Program(body, s.pix, [Erased EXCEPT !.flags = header.flags \ {"used", "final"}])
           t == Occupied(s, id, header, data, finalize)
<1>1. t = s \/ (Ok(s) /\ t \in {fin, body})
  BY DEF Occupied, Entered
<1> HIDE DEF t
<1> SUFFICES ASSUME Ok(s)
             PROVE  Sound(fin, c) /\ fin.fds = s.fds /\ Sound(body, c) /\ body.fds = s.fds
  BY <1>1 DEF t
<1>3. Sound(lu, c) /\ lu.fds = s.fds
  BY EnteredKeeps DEF Takes
<1> HIDE DEF lu
<1>4. Sound(hdr, c) /\ hdr.fds = s.fds
  BY <1>3, ProgramKeeps
<1> HIDE DEF hdr
<1>5. Sound(body, c) /\ body.fds = s.fds
  BY <1>4, ProgramKeeps
<1> HIDE DEF body
<1> QED BY <1>5, ProgramKeeps

(* Allocating a page: find it, then occupy it.                              *)
LEMMA AllocateDataKeeps ==
    ASSUME NEW s, NEW c, Sound(s, c), NEW id \in Int, NEW header, NEW data, NEW finalize
    PROVE  /\ Sound(AllocateData(s, id, header, data, finalize), c)
           /\ AllocateData(s, id, header, data, finalize).fds = s.fds
<1>1. Sound(FindFree(s), c) /\ FindFree(s).fds = s.fds /\ Takes(FindFree(s))
  BY FindFreeKeeps
<1> QED BY <1>1, OccupiedKeeps DEF AllocateData

(* Deleting a page zeroes its entry, whatever it held (spiffs_page_delete). *)
LEMMA DeletePageKeeps ==
    ASSUME NEW s, NEW c, Sound(s, c), NEW pix
    PROVE  Sound(DeletePage(s, pix), c) /\ DeletePage(s, pix).fds = s.fds
<1> DEFINE del == Program(Struck(s, pix), pix, [Erased EXCEPT !.flags = @ \ {"delet", "used"}])
<1>1. DeletePage(s, pix) \in {s, Fail(s, "INTERNAL")} \/ (pix \in Pages /\ DeletePage(s, pix) = del)
  BY DEF DeletePage, Struck
<1>4. ASSUME pix \in Pages PROVE Sound(del, c) /\ del.fds = s.fds
  <2>1. Sound(Struck(s, pix), c) /\ Struck(s, pix).fds = s.fds
    BY <1>4, StruckKeeps
  <2> QED BY <2>1, ProgramKeeps
<1> HIDE DEF del
<1>5. Sound(Fail(s, "INTERNAL"), c) /\ Fail(s, "INTERNAL").fds = s.fds
  <2>1. DOMAIN s = Fields
    BY SoundIs, FieldsAre
  <2> QED BY <2>1, FailKeeps DEF Fail, Fields
<1> QED BY <1>1, <1>4, <1>5

(* Copying a page in pieces does not touch the lookup.                      *)
LEMMA CopyPageKeeps ==
    ASSUME NEW s, NEW c, Sound(s, c), NEW dst, NEW src
    PROVE  /\ Sound(CopyPage(s, dst, src), c) /\ CopyPage(s, dst, src).fds = s.fds
           /\ CopyPage(s, dst, src).flash.lu = s.flash.lu /\ CopyPage(s, dst, src).pix = s.pix
<1> DEFINE page == s.flash.page[src]
           head == [Header(page.id, page.span, {}) EXCEPT !.flags = page.flags]
           hdr == Program(s, dst, head)
<1>1. CopyPage(s, dst, src) = Program(hdr, dst, page)
  BY DEF CopyPage
<1> HIDE DEF page, head
<1>2. Sound(hdr, c) /\ hdr.fds = s.fds /\ hdr.flash.lu = s.flash.lu /\ hdr.pix = s.pix
  BY ProgramKeeps
<1> HIDE DEF hdr
<1> QED BY <1>1, <1>2, ProgramKeeps

(* A move programs the page found free before it takes its entry, which is *)
(* still free then.                                                        *)
LEMMA MovedKeeps ==
    ASSUME NEW s, NEW c, Sound(s, c), Takes(s), NEW work, NEW id \in Int, NEW src
    PROVE  Sound(Moved(s, work, id, src), c) /\ Moved(s, work, id, src).fds = s.fds
<1> DEFINE raw == [s.work EXCEPT !.flags = (@ \cup {"final"}) \ {"used"}]
           done == raw.flags \ {"final"}
           ready == [s EXCEPT !.work = raw]
           page == IF work THEN Program(ready, s.pix, raw) ELSE CopyPage(s, s.pix, src)
           lu == [SetLu(page, s.pix, id) EXCEPT !.fs.allocated = @ + 1]
           d == [lu EXCEPT !.work.flags = done]
           fin == Program(d, s.pix, [Erased EXCEPT !.flags = done])
           t == Moved(s, work, id, src)
<1>1. t = s \/ (Ok(s) /\ t \in {DeletePage(fin, src), DeletePage(lu, src)})
  BY DEF Moved
<1> SUFFICES ASSUME Ok(s) PROVE Sound(t, c) /\ t.fds = s.fds
  <2> HIDE DEF t, fin, lu
  <2> QED BY <1>1 DEF t
<1> HIDE DEF t, raw
<1>2. Sound(ready, c) /\ ready.fds = s.fds /\ ready.flash = s.flash /\ ready.pix = s.pix
  BY WorkSet
<1> HIDE DEF ready
<1>3. /\ Sound(page, c) /\ page.fds = s.fds /\ page.flash.lu = s.flash.lu /\ page.pix = s.pix
  BY <1>2, ProgramKeeps, CopyPageKeeps
<1> HIDE DEF page
<1>4. Sound(lu, c) /\ lu.fds = s.fds
  <2>1. page.pix \in Pages /\ page.flash.lu[page.pix] = Blank
    BY <1>3 DEF Takes
  <2>2. lu = Entered(page, id)
    BY <1>3 DEF Entered
  <2> HIDE DEF lu
  <2>3. Sound(Entered(page, id), c) /\ Entered(page, id).fds = page.fds
    BY <1>3, <2>1, EnteredKeeps
  <2> QED BY <1>3, <2>2, <2>3
<1> HIDE DEF lu
<1>6. Sound(d, c) /\ d.fds = s.fds
  <2>1. DOMAIN lu = Fields
    BY <1>4, SoundIs, FieldsAre
  <2>2. DOMAIN d = DOMAIN lu /\ d.flash = lu.flash /\ d.trail = lu.trail /\ d.fs = lu.fs
        /\ d.fds = lu.fds
    BY <2>1 DEF Fields
  <2> HIDE DEF d
  <2> QED BY <1>4, <2>2, RegistersSet
<1> HIDE DEF d
<1>7. Sound(fin, c) /\ fin.fds = s.fds
  BY <1>6, ProgramKeeps
<1> HIDE DEF fin
<1>8. /\ Sound(DeletePage(fin, src), c) /\ DeletePage(fin, src).fds = s.fds
      /\ Sound(DeletePage(lu, src), c) /\ DeletePage(lu, src).fds = s.fds
  BY <1>4, <1>7, DeletePageKeeps
<1> QED BY <1>1, <1>8

(* Moving a page: find a free one, write it, then delete the source         *)
(* (spiffs_page_move).                                                      *)
LEMMA MovePageKeeps ==
    ASSUME NEW s, NEW c, Sound(s, c), NEW work, NEW id \in Int, NEW src
    PROVE  Sound(MovePage(s, work, id, src), c) /\ MovePage(s, work, id, src).fds = s.fds
<1>1. Sound(FindFree(s), c) /\ FindFree(s).fds = s.fds /\ Takes(FindFree(s))
  BY FindFreeKeeps
<1> QED BY <1>1, MovedKeeps DEF MovePage

-----------------------------------------------------------------------------
(* Descriptors, index headers and the collector.                           *)

(* Index identifiers are numbers.                                           *)
LEMMA IdsAre ==
    ASSUME NEW id \in Int
    PROVE  Index(id) \in Int /\ ObjectOf(id) \in Int
  BY DEF Index, ObjectOf

(* An entry that an index page was found under is a number.                 *)
LEMMA FoundIds ==
    ASSUME NEW id
    PROVE  /\ IsData(id) => id \in Int
           /\ IsIndex(id) => id \in Int /\ ObjectOf(id) \in Int
<1>1. Blocks * Entries \in Nat /\ -Blocks * Entries \in Int
  BY PagesAre, GeometryAssumption
<1>2. IsData(id) => id \in Int
  BY <1>1 DEF IsData
<1>3. IsIndex(id) => id \in Int
  BY <1>1 DEF IsIndex
<1> QED BY <1>2, <1>3, IdsAre

(* Setting all descriptors.                                                 *)
LEMMA DescriptorsSet ==
    ASSUME NEW s, NEW c, Sound(s, c), NEW d, Numbered(d)
    PROVE  LET t == [s EXCEPT !.fds = d]
           IN Sound(t, c) /\ t.flash = s.flash /\ t.res = s.res /\ t.pix = s.pix /\ t.fds = d
<1> DEFINE t == [s EXCEPT !.fds = d]
<1>1. DOMAIN s = Fields
  BY SoundIs, FieldsAre
<1>2. /\ DOMAIN t = DOMAIN s /\ t.flash = s.flash /\ t.trail = s.trail /\ t.fs = s.fs
      /\ t.fds = d /\ t.res = s.res /\ t.pix = s.pix
  BY <1>1 DEF Fields
<1> HIDE DEF t
<1>3. Sound(t, c)
  BY <1>2, NothingWritten, SoundIs DEF Shaped
<1> QED BY <1>2, <1>3 DEF t

FdFields == {"open", "used", "obj", "size", "hdr", "cspan", "cpix", "off", "flags", "name"}

(* Setting one descriptor.                                                  *)
LEMMA DescriptorSet ==
    ASSUME NEW s, NEW c, Sound(s, c), NEW f \in Descriptors, NEW fd,
           DOMAIN fd = FdFields, fd.obj \in Int
    PROVE  LET t == [s EXCEPT !.fds[f] = fd]
           IN Sound(t, c) /\ t.flash = s.flash /\ t.res = s.res /\ t.pix = s.pix
<1> DEFINE d == [s.fds EXCEPT ![f] = fd]
<1>1. DOMAIN s.fds = Descriptors
      /\ \A g \in Descriptors : s.fds[g].obj \in Int /\ DOMAIN s.fds[g] = FdFields
  BY SoundIs, FieldsAre DEF FdFields
<1>2. DOMAIN d = Descriptors
      /\ \A g \in Descriptors : d[g].obj \in Int /\ DOMAIN d[g] = FdFields
  BY <1>1
<1>3. Numbered(d)
  <2> HIDE DEF d
  <2> QED BY <1>2 DEF Numbered, ClosedFd, FdFields
<1>4. [s EXCEPT !.fds[f] = fd] = [s EXCEPT !.fds = d]
  OBVIOUS
<1> HIDE DEF d
<1> QED BY <1>3, <1>4, DescriptorsSet

(* The event of a moved, updated or deleted index page changes descriptors  *)
(* only.                                                                    *)
LEMMA ObjectEventKeeps ==
    ASSUME NEW s, NEW c, Sound(s, c), NEW deleted, NEW id, NEW span, NEW newPix, NEW newSize
    PROVE  LET t == ObjectEvent(s, deleted, id, span, newPix, newSize)
           IN Sound(t, c) /\ t.flash = s.flash /\ t.pix = s.pix /\ t.res = s.res
<1> DEFINE after(fd) == CASE span # 0 -> fd
                          [] deleted  -> [fd EXCEPT !.open = FALSE, !.obj = Deleted]
                          [] OTHER    -> [fd EXCEPT !.hdr = newPix,
                                             !.size = IF newSize = 0 THEN @ ELSE newSize]
           told(fd) == IF fd.cspan = span
                       THEN [after(fd) EXCEPT !.cpix = IF deleted THEN 0 ELSE newPix]
                       ELSE after(fd)
           d == [f \in DOMAIN s.fds |->
                   IF s.fds[f].used /\ s.fds[f].obj = id THEN told(s.fds[f]) ELSE s.fds[f]]
<1>1. ObjectEvent(s, deleted, id, span, newPix, newSize) =
         IF ~Ok(s) THEN s ELSE [s EXCEPT !.fds = d]
  BY DEF ObjectEvent
<1>2. DOMAIN s.fds = Descriptors
      /\ \A g \in Descriptors : s.fds[g].obj \in Int /\ DOMAIN s.fds[g] = FdFields
  BY SoundIs, FieldsAre DEF FdFields
<1>3. ASSUME NEW fd, fd.obj \in Int, DOMAIN fd = FdFields
      PROVE  told(fd).obj \in Int /\ DOMAIN told(fd) = FdFields
  <2>1. after(fd).obj \in Int /\ DOMAIN after(fd) = FdFields
    <3>1. \/ after(fd) = fd
          \/ after(fd) = [fd EXCEPT !.open = FALSE, !.obj = Deleted]
          \/ after(fd) = [fd EXCEPT !.hdr = newPix, !.size = IF newSize = 0 THEN @ ELSE newSize]
      OBVIOUS
    <3> HIDE DEF after
    <3>2. LET e == [fd EXCEPT !.open = FALSE, !.obj = Deleted]
          IN e.obj \in Int /\ DOMAIN e = FdFields
      BY <1>3 DEF FdFields, Deleted
    <3>3. LET e == [fd EXCEPT !.hdr = newPix, !.size = IF newSize = 0 THEN @ ELSE newSize]
          IN e.obj \in Int /\ DOMAIN e = FdFields
      BY <1>3 DEF FdFields
    <3> QED BY <1>3, <3>1, <3>2, <3>3
  <2> HIDE DEF after
  <2> QED BY <2>1 DEF FdFields
<1> HIDE DEF told
<1>4. DOMAIN d = Descriptors
      /\ \A g \in Descriptors : d[g].obj \in Int /\ DOMAIN d[g] = FdFields
  BY <1>2, <1>3
<1> HIDE DEF d
<1>5. Numbered(d)
  BY <1>4 DEF Numbered, ClosedFd, FdFields
<1> QED BY <1>1, <1>5, DescriptorsSet

(* Checking an index page changes the result only.                          *)
LEMMA ValidateKeeps ==
    ASSUME NEW s, NEW c, Sound(s, c), NEW span
    PROVE  Sound(Validate(s, span), c) /\ Validate(s, span).flash = s.flash
           /\ Validate(s, span).pix = s.pix
<1>1. \/ Validate(s, span) = s
      \/ \E code : Validate(s, span) = Fail(s, code)
  BY DEF Validate
<1>2. DOMAIN s = Fields
  BY SoundIs, FieldsAre
<1> QED BY <1>1, <1>2, FailKeeps DEF Fail, Fields

(* Reading an index page into fs->work.                                     *)
LEMMA LoadKeeps ==
    ASSUME NEW s, NEW c, Sound(s, c), NEW pix, NEW span
    PROVE  Sound(Load(s, pix, span), c)
<1> DEFINE t == [s EXCEPT !.work = s.flash.page[pix]]
<1>1. Load(s, pix, span) = IF Ok(s) THEN Validate(t, span) ELSE s
  BY DEF Load
<1>2. Sound(t, c)
  BY WorkSet
<1> HIDE DEF t
<1> QED BY <1>1, <1>2, ValidateKeeps

(* Searching the page of an object and span moves the search cursor only.   *)
LEMMA FindIdAndSpanKeeps ==
    ASSUME NEW s, NEW c, Sound(s, c), NEW id, NEW span
    PROVE  Sound(FindIdAndSpan(s, id, span), c)
<1> DEFINE pix == ScanFrom(s.fs.cursor, LAMBDA p : IsPage(s.flash, p, id, span))
           t == [s EXCEPT !.pix = pix, !.fs.cursor = CursorAt(pix)]
<1>1. FindIdAndSpan(s, id, span) = IF pix = 0 THEN Fail(s, "NOT_FOUND") ELSE t
  BY DEF FindIdAndSpan, ScanFrom
<1> HIDE DEF pix
<1>2. Sound(t, c)
  <2>1. DOMAIN s = Fields /\ DOMAIN s.fs = {"mounted", "cleaning", "freeBlocks", "allocated",
                                            "deleted", "maxErase", "freeCursor", "cursor"}
    BY SoundIs, FieldsAre
  <2>2. /\ DOMAIN t = DOMAIN s /\ t.flash = s.flash /\ t.trail = s.trail
        /\ DOMAIN t.fs = DOMAIN s.fs /\ t.fs.maxErase = s.fs.maxErase
        /\ t.fs.cleaning = s.fs.cleaning /\ t.fs.freeCursor = s.fs.freeCursor /\ t.fds = s.fds
        /\ t.fs.allocated = s.fs.allocated /\ t.fs.deleted = s.fs.deleted
    BY <2>1 DEF Fields
  <2> HIDE DEF t
  <2> QED BY <2>2, UncountedSet
<1> QED BY <1>1, <1>2, FailKeeps

(* Editing fs->work before an index header is written.                      *)
LEMMA EditedKeeps ==
    ASSUME NEW s, NEW c, Sound(s, c), NEW name, NEW size
    PROVE  Sound(Edited(s, name, size), c)
  BY WorkSet DEF Edited

(* The event after an index header was written.                             *)
LEMMA AnnouncedKeeps ==
    ASSUME NEW s, NEW c, Sound(s, c), NEW f \in Descriptors \cup {0}, NEW id
    PROVE  Sound(Announced(s, f, id), c)
<1> DEFINE told == ObjectEvent(s, FALSE, id, s.work.span, s.pix, s.work.size)
           fd == [told.fds[f] EXCEPT !.hdr = s.pix]
<1>1. Announced(s, f, id) = IF f = 0 \/ ~Ok(s) THEN told ELSE [told EXCEPT !.fds[f] = fd]
  BY DEF Announced
<1>2. Sound(told, c)
  BY ObjectEventKeeps
<1> HIDE DEF told
<1>3. ASSUME f \in Descriptors PROVE DOMAIN fd = FdFields /\ fd.obj \in Int
  <2>1. DOMAIN told.fds[f] = FdFields /\ told.fds[f].obj \in Int
    BY <1>2, <1>3, SoundIs, FieldsAre DEF FdFields
  <2> QED BY <2>1 DEF FdFields
<1> HIDE DEF fd
<1>4. f \in Descriptors => Sound([told EXCEPT !.fds[f] = fd], c)
  BY <1>2, <1>3, DescriptorSet
<1> QED BY <1>1, <1>2, <1>4

(* Rewriting the index header of an object                                  *)
(* (spiffs_object_update_index_hdr).                                        *)
LEMMA UpdateHeaderKeeps ==
    ASSUME NEW s, NEW c, Sound(s, c), NEW f \in Descriptors \cup {0}, NEW id \in Int, NEW hdr,
           NEW work, NEW name, NEW size
    PROVE  Sound(UpdateHeader(s, f, id, hdr, work, name, size), c)
<1> DEFINE loaded == IF work THEN Validate(s, 0) ELSE Load(s, hdr, 0)
           edited == Edited(loaded, name, size)
           moved == MovePage(edited, TRUE, Index(id), hdr)
<1>1. UpdateHeader(s, f, id, hdr, work, name, size) = Announced(moved, f, id)
  BY DEF UpdateHeader
<1>2. Sound(loaded, c)
  BY ValidateKeeps, LoadKeeps
<1> HIDE DEF loaded
<1>3. Sound(edited, c)
  BY <1>2, EditedKeeps
<1> HIDE DEF edited
<1>4. Sound(moved, c)
  BY <1>3, IdsAre, MovePageKeeps
<1> HIDE DEF moved
<1> QED BY <1>1, <1>4, AnnouncedKeeps

(* Entering the place of a moved data page in the index page being cleaned. *)
LEMMA ReferringKeeps ==
    ASSUME NEW s, NEW c, Sound(s, c), NEW ref
    PROVE  Sound(Referring(s, ref), c)
  BY WorkSet DEF Referring

(* The collector moves or deletes one data page of the object it is at.     *)
LEMMA CleanPageKeeps ==
    ASSUME NEW s, NEW c, Sound(s, c), NEW pix, NEW id \in Int, NEW span
    PROVE  Sound(CleanPage(s, pix, id, span), c)
<1> DEFINE page == s.flash.page[pix]
           d == DeletePage(s, pix)
           ref == RefOf(page.span)
           m == MovePage(s, FALSE, id, pix)
<1>1. \/ CleanPage(s, pix, id, span) = s
      \/ CleanPage(s, pix, id, span) = Referring(m, ref)
      \/ CleanPage(s, pix, id, span) = [d EXCEPT !.work.body[ref] = Blank]
  <2> DEFINE mine == s.flash.lu[pix] = id /\ page.span \in Nat /\ IxSpan(page.span) = span
             e == [d EXCEPT !.work.body[ref] = Blank]
  <2>1. CleanPage(s, pix, id, span) = CASE ~Ok(s) \/ ~mine -> s
                                        [] "delet" \in page.flags -> Referring(m, ref)
                                        [] OTHER -> e
    BY DEF CleanPage
  <2> HIDE DEF mine, e, m, page
  <2>2. \/ CleanPage(s, pix, id, span) = s
        \/ CleanPage(s, pix, id, span) = Referring(m, ref)
        \/ CleanPage(s, pix, id, span) = e
    BY <2>1
  <2> QED BY <2>2 DEF e
<1>2. Sound(d, c) /\ Sound(m, c)
  BY DeletePageKeeps, MovePageKeeps
<1> HIDE DEF d, m, ref
<1>3. Sound([d EXCEPT !.work.body[ref] = Blank], c)
  BY <1>2, WorkSet
<1> QED BY <1>1, <1>2, <1>3, ReferringKeeps

(* Then stores the index page it has edited.                                *)
LEMMA StoreCleanedKeeps ==
    ASSUME NEW s, NEW c, Sound(s, c), NEW id \in Int, NEW span, NEW ixPix
    PROVE  Sound(StoreCleaned(s, id, span, ixPix), c)
<1>1. Sound(MovePage(s, TRUE, Index(id), ixPix), c)
  BY MovePageKeeps, IdsAre
<1>2. Sound(Followed(MovePage(s, TRUE, Index(id), ixPix), id, span), c)
  BY <1>1, ObjectEventKeeps DEF Followed
<1> QED BY <1>2, UpdateHeaderKeeps DEF StoreCleaned

-----------------------------------------------------------------------------
(* Loops.                                                                  *)

(* What 0 has and each step passes on, n has.                               *)
LEMMA Counting ==
    ASSUME NEW n \in Nat, NEW S, 0 \in S, \A k \in 1 .. n : k - 1 \in S => k \in S
    PROVE  n \in S
<1> DEFINE out == {k \in 0 .. n : k \notin S}
<1> SUFFICES ASSUME n \notin S PROVE FALSE
  OBVIOUS
<1>1. out \in SUBSET Nat /\ n \in out
  OBVIOUS
<1> HIDE DEF out
<1>2. PICK k \in out : \A j \in out : k <= j
  BY <1>1, FirstOf
<1>3. k \in 0 .. n /\ k \notin S
  BY <1>2 DEF out
<1>4. k \in 1 .. n /\ k - 1 \in 0 .. n /\ ~ k <= k - 1
  BY <1>3
<1>5. k - 1 \in S
  BY <1>2, <1>4 DEF out
<1> QED BY <1>3, <1>4, <1>5

(* The step of each loop.                                                  *)
StepOf(w, t, k) ==
    IF w[1] = "page" THEN CleanPage(t, PixOf(w[2], k - 1), w[3], w[4])
    ELSE IF w[1] = "data" THEN CleanData(t, w[2], PixOf(w[2], k - 1))
    ELSE IF w[1] = "rest" THEN CleanRest(t, PixOf(w[2], k - 1))
    ELSE IF w[1] = "run" THEN Run(t, w[2])
    ELSE IF w[1] = "append"
         THEN IF Running(t, Len(w[4])) THEN AppendPage(t, w[2], w[3], w[4]) ELSE t
    ELSE IF w[1] = "modify"
         THEN IF Running(t, Len(w[4])) THEN ModifyPage(t, w[2], w[3], w[4]) ELSE t
    ELSE IF w[1] = "cut" THEN IF Ok(t) /\ t.brk = "OK" /\ t.cut > w[3]
                              THEN CutPage(t, w[2], w[3], w[4]) ELSE t
    ELSE IF w[1] = "read" THEN IF Running(t, w[4]) THEN ReadPage(t, w[2], w[3], w[4]) ELSE t
    ELSE IF w[1] = "wipe" THEN EraseBlock([t EXCEPT !.fs.maxErase = 0], k - 1)
    ELSE t

IsRun(run, w, s, n) == run = [k \in 0 .. n |-> IF k = 0 THEN s ELSE StepOf(w, run[k - 1], k)]

(* The function a loop is defined by exists, for every number of steps.     *)
LEMMA RunExists ==
    ASSUME NEW w, NEW s, NEW n \in Nat
    PROVE  \E run : IsRun(run, w, s, n)
<1> DEFINE S == {m \in Nat : \E run : IsRun(run, w, s, m)}
<1>1. 0 \in S
  <2> DEFINE run == [k \in 0 .. 0 |-> s]
  <2>1. IsRun(run, w, s, 0)
    <3>1. run = [k \in 0 .. 0 |-> IF k = 0 THEN s ELSE StepOf(w, run[k - 1], k)]
      OBVIOUS
    <3> QED BY <3>1 DEF IsRun
  <2> QED BY <2>1
<1>2. ASSUME NEW m \in 1 .. n, m - 1 \in S PROVE m \in S
  <2>1. PICK run : IsRun(run, w, s, m - 1)
    BY <1>2
  <2> DEFINE next == [k \in 0 .. m |-> IF k = m THEN StepOf(w, run[m - 1], m) ELSE run[k]]
  <2>2. DOMAIN run = 0 .. m - 1
        /\ \A k \in 0 .. m - 1 : run[k] = IF k = 0 THEN s ELSE StepOf(w, run[k - 1], k)
    BY <2>1 DEF IsRun
  <2>3. ASSUME NEW k \in 0 .. m
        PROVE  next[k] = IF k = 0 THEN s ELSE StepOf(w, next[k - 1], k)
    <3>1. CASE k = m
      <4>1. k # 0 /\ k - 1 \in 0 .. m /\ k - 1 # m
        BY <3>1
      <4>2. next[k - 1] = run[m - 1] /\ next[k] = StepOf(w, run[m - 1], m)
        BY <3>1, <4>1
      <4> HIDE DEF next
      <4> QED BY <3>1, <4>1, <4>2
    <3>2. CASE k = 0
      <4>1. k # m
        BY <3>2
      <4> QED BY <2>2, <3>2, <4>1
    <3>3. CASE k # 0 /\ k # m
      <4>1. k \in 0 .. m - 1 /\ k - 1 \in 0 .. m - 1 /\ k - 1 # m
        BY <3>3
      <4>2. next[k] = run[k] /\ next[k - 1] = run[k - 1]
        BY <3>3, <4>1
      <4> HIDE DEF next
      <4> QED BY <2>2, <3>3, <4>1, <4>2
    <3> QED BY <3>1, <3>2, <3>3
  <2>4. next = [k \in 0 .. m |-> IF k = 0 THEN s ELSE StepOf(w, next[k - 1], k)]
    <3>1. DOMAIN next = 0 .. m /\ next = [k \in 0 .. m |-> next[k]]
      OBVIOUS
    <3> HIDE DEF next
    <3> QED BY <2>3, <3>1
  <2> HIDE DEF next
  <2>5. IsRun(next, w, s, m)
    BY <2>4 DEF IsRun
  <2> QED BY <2>5
<1> HIDE DEF S
<1>3. n \in S
  BY <1>1, <1>2, Counting
<1> QED BY <1>3 DEF S

(* What a loop keeps: the runs of a collection are kept beside a flag.     *)
Holds(w, t, c) == IF w[1] = "run" THEN Sound(t.s, c) ELSE Sound(t, c)

(* What the steps of a loop keep, the loop keeps.                           *)
LEMMA RunKeeps ==
    ASSUME NEW w, NEW s, NEW n \in Nat, NEW c, NEW run, IsRun(run, w, s, n), Holds(w, s, c),
           \A t, k : k \in 1 .. n /\ Holds(w, t, c) => Holds(w, StepOf(w, t, k), c)
    PROVE  Holds(w, run[n], c)
<1> DEFINE S == {k \in 0 .. n : Holds(w, run[k], c)}
<1>1. \A k \in 0 .. n : run[k] = IF k = 0 THEN s ELSE StepOf(w, run[k - 1], k)
  BY DEF IsRun
<1>2. 0 \in S
  BY <1>1
<1>3. ASSUME NEW k \in 1 .. n, k - 1 \in S PROVE k \in S
  <2>1. k \in 0 .. n /\ k # 0 /\ Holds(w, run[k - 1], c)
    BY <1>3
  <2>2. run[k] = StepOf(w, run[k - 1], k)
    BY <1>1, <2>1
  <2>3. Holds(w, StepOf(w, run[k - 1], k), c)
    BY <2>1
  <2> QED BY <2>1, <2>2, <2>3
<1> HIDE DEF S
<1>4. n \in S
  BY <1>2, <1>3, Counting
<1> QED BY <1>4 DEF S

PagesOut(s, bix, id, span) ==
    Loop(Entries, s, LAMBDA t, k : CleanPage(t, PixOf(bix, k - 1), id, span))

(* The loop over the pages of a block for one object.                       *)
LEMMA PagesCleaned ==
    ASSUME NEW s, NEW c, Sound(s, c), NEW bix, NEW id \in Int, NEW span
    PROVE  Sound(PagesOut(s, bix, id, span), c)
<1> DEFINE w == <<"page", bix, id, span>>
           run == CHOOSE g : g = [k \in 0 .. Entries |-> IF k = 0 THEN s ELSE
                                    CleanPage(g[k - 1], PixOf(bix, k - 1), id, span)]
<1>1. PagesOut(s, bix, id, span) = run[Entries]
  BY DEF Loop, PagesOut
<1>2. \A t, k : StepOf(w, t, k) = CleanPage(t, PixOf(bix, k - 1), id, span)
  BY DEF StepOf
<1> HIDE DEF w
<1>3. PICK g : IsRun(g, w, s, Entries)
  BY RunExists, EntriesAre
<1>4. g = [k \in 0 .. Entries |-> IF k = 0 THEN s
                                  ELSE CleanPage(g[k - 1], PixOf(bix, k - 1), id, span)]
  BY <1>2, <1>3 DEF IsRun
<1>5. run = [k \in 0 .. Entries |-> IF k = 0 THEN s
                                    ELSE CleanPage(run[k - 1], PixOf(bix, k - 1), id, span)]
  BY <1>4
<1> HIDE DEF run
<1>6. IsRun(run, w, s, Entries)
  BY <1>2, <1>5 DEF IsRun
<1>7. \A t : Holds(w, t, c) <=> Sound(t, c)
  BY DEF Holds, w
<1>8. \A t, k : k \in 1 .. Entries /\ Holds(w, t, c) => Holds(w, StepOf(w, t, k), c)
  BY <1>2, <1>7, CleanPageKeeps
<1> QED BY <1>1, <1>6, <1>7, <1>8, RunKeeps, EntriesAre

(* One object of a block: load its index page, move its data pages, store   *)
(* it.                                                                      *)
LEMMA CleanObjectKeeps ==
    ASSUME NEW s, NEW c, Sound(s, c), NEW bix, NEW pix, IsData(s.flash.lu[pix])
    PROVE  Sound(CleanObject(s, bix, pix), c)
<1> DEFINE id == s.flash.lu[pix]
           span == IF s.flash.page[pix].span \in Nat
                   THEN IxSpan(s.flash.page[pix].span) ELSE Blank
           found == FindIdAndSpan(s, Index(id), span)
           loaded == Load(found, found.pix, span)
           cleaned == PagesOut(loaded, bix, id, span)
<1>1. CleanObject(s, bix, pix) = IF ~Ok(found) THEN DeletePage(s, pix)
                                 ELSE StoreCleaned(cleaned, id, span, found.pix)
  BY DEF CleanObject, PagesOut
<1>2. id \in Int
  BY FoundIds
<1> HIDE DEF id, span
<1>3. Sound(found, c)
  BY FindIdAndSpanKeeps
<1> HIDE DEF found
<1>4. Sound(loaded, c)
  BY <1>3, LoadKeeps
<1> HIDE DEF loaded
<1>5. Sound(cleaned, c)
  BY <1>2, <1>4, PagesCleaned
<1> HIDE DEF cleaned
<1> QED BY <1>1, <1>2, <1>5, StoreCleanedKeeps, DeletePageKeeps

(* Moving an index page that stands in the block itself.                    *)
LEMMA CleanIndexKeeps ==
    ASSUME NEW s, NEW c, Sound(s, c), NEW pix, IsIndex(s.flash.lu[pix])
    PROVE  Sound(CleanIndex(s, pix), c)
<1> DEFINE id == ObjectOf(s.flash.lu[pix])
           page == s.flash.page[pix]
           m == MovePage(s, FALSE, Index(id), pix)
           d == DeletePage(s, pix)
<1>1. CleanIndex(s, pix) = IF "delet" \in page.flags THEN Followed(m, id, page.span)
                           ELSE ObjectEvent(d, TRUE, id, page.span, pix, 0)
  BY DEF CleanIndex
<1>2. Index(id) \in Int
  BY FoundIds, IdsAre
<1> HIDE DEF id, page
<1>3. Sound(m, c) /\ Sound(d, c)
  BY <1>2, MovePageKeeps, DeletePageKeeps
<1> HIDE DEF m, d
<1>4. Sound(Followed(m, id, page.span), c)
  BY <1>3, ObjectEventKeeps DEF Followed
<1>5. Sound(ObjectEvent(d, TRUE, id, page.span, pix, 0), c)
  BY <1>3, ObjectEventKeeps
<1> QED BY <1>1, <1>4, <1>5

(* One page of the collector's pass over the data pages.                    *)
LEMMA CleanDataKeeps ==
    ASSUME NEW s, NEW c, Sound(s, c), NEW bix, NEW pix
    PROVE  Sound(CleanData(s, bix, pix), c)
  BY CleanObjectKeeps DEF CleanData

(* One page of its pass over the index pages.                               *)
LEMMA CleanRestKeeps ==
    ASSUME NEW s, NEW c, Sound(s, c), NEW pix
    PROVE  Sound(CleanRest(s, pix), c)
  BY CleanIndexKeeps DEF CleanRest

DataOut(s, bix) ==
    Loop(Entries, s, LAMBDA t, k : CleanData(t, bix, PixOf(bix, k - 1)))

(* The pass over the data pages.                                            *)
LEMMA DataCleaned ==
    ASSUME NEW s, NEW c, Sound(s, c), NEW bix
    PROVE  Sound(DataOut(s, bix), c)
<1> DEFINE w == <<"data", bix>>
           run == CHOOSE g : g = [k \in 0 .. Entries |-> IF k = 0 THEN s ELSE
                                    CleanData(g[k - 1], bix, PixOf(bix, k - 1))]
<1>1. DataOut(s, bix) = run[Entries]
  BY DEF Loop, DataOut
<1>2. \A t, k : StepOf(w, t, k) = CleanData(t, bix, PixOf(bix, k - 1))
  BY DEF StepOf
<1>3. \A t : Holds(w, t, c) <=> Sound(t, c)
  BY DEF Holds
<1> HIDE DEF w
<1>4. PICK g : IsRun(g, w, s, Entries)
  BY RunExists, EntriesAre
<1>5. g = [k \in 0 .. Entries |-> IF k = 0 THEN s
                                  ELSE CleanData(g[k - 1], bix, PixOf(bix, k - 1))]
  BY <1>2, <1>4 DEF IsRun
<1>6. run = [k \in 0 .. Entries |-> IF k = 0 THEN s
                                    ELSE CleanData(run[k - 1], bix, PixOf(bix, k - 1))]
  BY <1>5
<1> HIDE DEF run
<1>7. IsRun(run, w, s, Entries)
  BY <1>2, <1>6 DEF IsRun
<1>8. \A t, k : k \in 1 .. Entries /\ Holds(w, t, c) => Holds(w, StepOf(w, t, k), c)
  BY <1>2, <1>3, CleanDataKeeps
<1> QED BY <1>1, <1>3, <1>7, <1>8, RunKeeps, EntriesAre

RestOut(s, bix) ==
    Loop(Entries, s, LAMBDA t, k : CleanRest(t, PixOf(bix, k - 1)))

(* The pass over the index pages.                                           *)
LEMMA RestCleaned ==
    ASSUME NEW s, NEW c, Sound(s, c), NEW bix
    PROVE  Sound(RestOut(s, bix), c)
<1> DEFINE w == <<"rest", bix>>
           run == CHOOSE g : g = [k \in 0 .. Entries |-> IF k = 0 THEN s ELSE
                                    CleanRest(g[k - 1], PixOf(bix, k - 1))]
<1>1. RestOut(s, bix) = run[Entries]
  BY DEF Loop, RestOut
<1>2. \A t, k : StepOf(w, t, k) = CleanRest(t, PixOf(bix, k - 1))
  BY DEF StepOf
<1>3. \A t : Holds(w, t, c) <=> Sound(t, c)
  BY DEF Holds
<1> HIDE DEF w
<1>4. PICK g : IsRun(g, w, s, Entries)
  BY RunExists, EntriesAre
<1>5. g = [k \in 0 .. Entries |-> IF k = 0 THEN s
                                  ELSE CleanRest(g[k - 1], PixOf(bix, k - 1))]
  BY <1>2, <1>4 DEF IsRun
<1>6. run = [k \in 0 .. Entries |-> IF k = 0 THEN s
                                    ELSE CleanRest(run[k - 1], PixOf(bix, k - 1))]
  BY <1>5
<1> HIDE DEF run
<1>7. IsRun(run, w, s, Entries)
  BY <1>2, <1>6 DEF IsRun
<1>8. \A t, k : k \in 1 .. Entries /\ Holds(w, t, c) => Holds(w, StepOf(w, t, k), c)
  BY <1>2, <1>3, CleanRestKeeps
<1> QED BY <1>1, <1>3, <1>7, <1>8, RunKeeps, EntriesAre

(* Cleaning a block (spiffs_gc_clean).                                      *)
LEMMA CleanKeeps ==
    ASSUME NEW s, NEW c, Sound(s, c), NEW bix
    PROVE  Sound(Clean(s, bix), c)
<1> DEFINE u == [s EXCEPT !.fs.freeCursor = [bix |-> (bix + 1) % Blocks, entry |-> 0]]
           start == IF s.fs.freeCursor.bix = bix THEN u ELSE s
           data == DataOut(start, bix)
           rest == RestOut(data, bix)
<1>1. Clean(s, bix) = rest
  BY DEF Clean, DataOut, RestOut
<1>2. ASSUME s.fs.freeCursor.bix = bix PROVE Sound(u, c)
  <2>1. DOMAIN s = Fields /\ DOMAIN s.fs = {"mounted", "cleaning", "freeBlocks", "allocated",
                                            "deleted", "maxErase", "freeCursor", "cursor"}
    BY SoundIs, FieldsAre
  <2>2. /\ DOMAIN u = DOMAIN s /\ u.flash = s.flash /\ u.trail = s.trail
        /\ DOMAIN u.fs = DOMAIN s.fs /\ u.fs.maxErase = s.fs.maxErase
        /\ u.fs.cleaning = s.fs.cleaning /\ u.fds = s.fds
        /\ u.fs.allocated = s.fs.allocated /\ u.fs.deleted = s.fs.deleted
        /\ u.fs.freeCursor = [bix |-> (bix + 1) % Blocks, entry |-> 0]
    BY <2>1 DEF Fields
  <2> HIDE DEF u
  <2>3. Shaped(s, c) /\ Counters(s.fs, c) /\ Numbered(s.fds)
    BY DEF Sound, Solid, Shaped
  <2>4. (bix + 1) % Blocks \in Nat
    BY <1>2, <2>3, GeometryAssumption DEF Counters
  <2>5. Counters(u.fs, c)
    BY <2>2, <2>3, <2>4 DEF Counters
  <2> QED BY <2>2, <2>3, <2>5, NothingWritten
<1> HIDE DEF u
<1>3. Sound(start, c)
  BY <1>2
<1> HIDE DEF start
<1>4. Sound(data, c)
  BY <1>3, DataCleaned
<1> HIDE DEF data
<1>5. Sound(rest, c)
  BY <1>4, RestCleaned
<1> QED BY <1>1, <1>5

(* Setting and clearing fs->cleaning.                                       *)
LEMMA CleaningSet ==
    ASSUME NEW s, NEW c, Sound(s, c), NEW d
    PROVE  Sound([s EXCEPT !.fs.cleaning = d], d)
<1> DEFINE t == [s EXCEPT !.fs.cleaning = d]
<1>1. DOMAIN s = Fields /\ DOMAIN s.fs = {"mounted", "cleaning", "freeBlocks", "allocated",
                                          "deleted", "maxErase", "freeCursor", "cursor"}
  BY SoundIs, FieldsAre
<1>2. /\ DOMAIN t = DOMAIN s /\ t.flash = s.flash /\ t.trail = s.trail
      /\ DOMAIN t.fs = DOMAIN s.fs /\ t.fs.maxErase = s.fs.maxErase
      /\ t.fs.cleaning = d /\ t.fs.freeCursor = s.fs.freeCursor /\ t.fds = s.fds
      /\ t.fs.allocated = s.fs.allocated /\ t.fs.deleted = s.fs.deleted
  BY <1>1 DEF Fields
<1> HIDE DEF t
<1>3. Shaped(s, c) /\ Numbered(t.fds)
  BY <1>2, SoundIs DEF Shaped
<1>4. Counters(t.fs, d)
  BY <1>2, <1>3 DEF Shaped, Counters
<1>5. Sound(t, d)
  BY <1>2, <1>3, <1>4, NothingWritten
<1> QED BY <1>5 DEF t

(* The collector is marked as running only while it cleans a block.        *)
LEMMA CleanedKeeps ==
    ASSUME NEW s, NEW c, Sound(s, c), NEW bix
    PROVE  Sound(Cleaned(s, bix), FALSE)
<1> DEFINE t == Clean([s EXCEPT !.fs.cleaning = TRUE], bix)
<1>1. Cleaned(s, bix) = [t EXCEPT !.fs.cleaning = FALSE]
  BY DEF Cleaned
<1>2. Sound(t, TRUE)
  BY CleaningSet, CleanKeeps
<1> HIDE DEF t
<1> QED BY <1>1, <1>2, CleaningSet

(* One block of a collection: choose it, clean it, erase it.                *)
LEMMA CollectOneKeeps ==
    ASSUME NEW s, NEW c, Sound(s, c)
    PROVE  Sound(CollectOne(s), FALSE)
<1> DEFINE bix == Candidate(s, FreePages(s.fs) <= 0)
           t == Cleaned(s, bix)
           u == [t EXCEPT !.fs.allocated = @ - Cardinality(Live(t.flash, PagesOf(bix))),
                          !.fs.deleted = @ - Cardinality(Dead(t.flash, PagesOf(bix)))]
<1>1. CollectOne(s) = IF ~Ok(t) THEN t ELSE EraseBlock(u, bix)
  BY DEF CollectOne, Reclaimed
<1> HIDE DEF bix
<1>2. Sound(t, FALSE)
  BY CleanedKeeps
<1> HIDE DEF t
<1> DEFINE L == Cardinality(Live(t.flash, PagesOf(bix)))
           D == Cardinality(Dead(t.flash, PagesOf(bix)))
<1>3. /\ Solid(u, FALSE) /\ u.flash = t.flash /\ u.fds = t.fds
      /\ u.fs.allocated = t.fs.allocated - L /\ u.fs.deleted = t.fs.deleted - D
  <2>1. DOMAIN t = Fields /\ DOMAIN t.fs = {"mounted", "cleaning", "freeBlocks", "allocated",
                                            "deleted", "maxErase", "freeCursor", "cursor"}
    BY <1>2, SoundIs, FieldsAre
  <2>2. /\ DOMAIN u = DOMAIN t /\ u.flash = t.flash /\ u.trail = t.trail
        /\ DOMAIN u.fs = DOMAIN t.fs /\ u.fs.maxErase = t.fs.maxErase
        /\ u.fs.cleaning = t.fs.cleaning /\ u.fs.freeCursor = t.fs.freeCursor /\ u.fds = t.fds
        /\ u.fs.allocated = t.fs.allocated - L /\ u.fs.deleted = t.fs.deleted - D
    BY <2>1 DEF Fields
  <2> HIDE DEF u
  <2>3. Solid(t, FALSE)
    BY <1>2, SoundIs
  <2> QED BY <2>2, <2>3, CountersSet
<1> HIDE DEF u
<1>4. L \in Nat /\ D \in Nat
  <2>1. Live(t.flash, PagesOf(bix)) \in SUBSET PagesOf(bix)
        /\ Dead(t.flash, PagesOf(bix)) \in SUBSET PagesOf(bix)
    BY DEF Live, Dead
  <2> QED BY <2>1, BlockFinite, FS_Subset, FS_CardinalityType
<1>5. t.fs.allocated \in Int /\ t.fs.deleted \in Int
  BY <1>2 DEF Sound, Within
<1>6. /\ u.fs.allocated \in Int /\ u.fs.deleted \in Int
      /\ u.fs.allocated + u.fs.deleted = t.fs.allocated + t.fs.deleted - L - D
  <2> HIDE DEF L, D
  <2> QED BY <1>3, <1>4, <1>5
<1>7. Sound(EraseBlock(u, bix), FALSE)
  BY <1>2, <1>3, <1>6, ReclaimKeeps
<1> QED BY <1>1, <1>2, <1>7

(* The number of runs of a collection is a natural number.                  *)
LEMMA RunsAre == MaxRuns \in Nat
  BY RunsAssumption

(* One run of a collection keeps its call sound.                            *)
LEMMA RunIs ==
    ASSUME NEW r, Sound(r.s, FALSE), NEW len
    PROVE  Sound(Run(r, len).s, FALSE)
<1>1. Sound(CollectOne(r.s), FALSE)
  BY CollectOneKeeps
<1>2. Run(r, len) = r \/ Run(r, len).s = CollectOne(r.s)
  BY DEF Run, GoesOn
<1> QED BY <1>1, <1>2

Runs(s, len) ==
    Loop(MaxRuns, s, LAMBDA t, k : Run(t, len))

(* So do all runs of it.                                                    *)
LEMMA RunsKeep ==
    ASSUME NEW s, NEW c, Sound(s.s, c), c = FALSE, NEW len
    PROVE  Sound((Runs(s, len)).s, c)
<1> DEFINE w == <<"run", len>>
           run == CHOOSE g : g = [k \in 0 .. MaxRuns |-> IF k = 0 THEN s ELSE
                                    Run(g[k - 1], len)]
<1>1. Runs(s, len) = run[MaxRuns]
  BY DEF Loop, Runs
<1>2. \A t, k : StepOf(w, t, k) = Run(t, len)
  BY DEF StepOf
<1>3. \A t : Holds(w, t, c) <=> Sound(t.s, c)
  BY DEF Holds
<1> HIDE DEF w
<1>4. PICK g : IsRun(g, w, s, MaxRuns)
  BY RunExists, RunsAre
<1>5. g = [k \in 0 .. MaxRuns |-> IF k = 0 THEN s ELSE Run(g[k - 1], len)]
  BY <1>2, <1>4 DEF IsRun
<1>6. run = [k \in 0 .. MaxRuns |-> IF k = 0 THEN s ELSE Run(run[k - 1], len)]
  BY <1>5
<1> HIDE DEF run
<1>7. IsRun(run, w, s, MaxRuns)
  BY <1>2, <1>6 DEF IsRun
<1>8. \A t, k : k \in 1 .. MaxRuns /\ Holds(w, t, c) => Holds(w, StepOf(w, t, k), c)
  BY <1>2, <1>3, RunIs
<1> QED BY <1>1, <1>3, <1>7, <1>8, RunKeeps, RunsAre

(* A collection before a write, and SPIFFS_gc (spiffs_gc_check); cleaning   *)
(* is off again after it.                                                   *)
LEMMA GcCheckKeeps ==
    ASSUME NEW s, Sound(s, FALSE), NEW len
    PROVE  Sound(GcCheck(s, len), FALSE)
<1> DEFINE needed == (len + PageLen - 1) \div PageLen
           free == FreePages(s.fs)
           r == [s |-> s, go |-> TRUE]
           t == Runs(r, len).s
<1>1. GcCheck(s, len) \in {s, Fail(s, "FULL"), Roomy(t, len)}
  BY DEF GcCheck, Runs
<1>2. r.s = s
  OBVIOUS
<1> HIDE DEF r
<1>3. Sound(t, FALSE)
  BY <1>2, RunsKeep
<1> HIDE DEF t
<1>4. Sound(Roomy(t, len), FALSE)
  BY <1>3, FailKeeps DEF Roomy
<1> QED BY <1>1, <1>4, FailKeeps

-----------------------------------------------------------------------------
(* Files: the steps that create, open, append to, change, cut and read one. *)

(* The object of a descriptor is a number.                                  *)
LEMMA ObjIs ==
    ASSUME NEW s, NEW c, Sound(s, c), NEW f \in Descriptors
    PROVE  /\ s.fds[f].obj \in Int /\ Index(s.fds[f].obj) \in Int
           /\ DOMAIN s.fds[f] = FdFields
<1>1. s.fds[f].obj \in Int /\ DOMAIN s.fds[f] = FdFields
  BY SoundIs, FieldsAre DEF FdFields
<1> QED BY <1>1, IdsAre

(* A failure that ends a loop waits in a register until the loop is over.   *)
LEMMA BreakKeeps ==
    ASSUME NEW s, NEW c, Sound(s, c)
    PROVE  Sound(Break(s), c)
<1> DEFINE t == [s EXCEPT !.brk = s.res, !.res = "OK"]
<1>1. DOMAIN s = Fields
  BY SoundIs, FieldsAre
<1>2. Sound(t, c)
  <2>1. /\ DOMAIN t = DOMAIN s /\ t.flash = s.flash /\ t.trail = s.trail /\ t.fs = s.fs
        /\ t.fds = s.fds
    BY <1>1 DEF Fields
  <2> HIDE DEF t
  <2> QED BY <2>1, RegistersSet
<1> QED BY <1>2 DEF Break

(* A loop over a file begins at the state it is called in.                  *)
LEMMA BeganKeeps ==
    ASSUME NEW s, NEW c, Sound(s, c), NEW f
    PROVE  Sound(Began(s, f), c)
<1> DEFINE t == [s EXCEPT !.written = 0, !.ixSpan = -1, !.brk = "OK", !.ixPix = s.fds[f].hdr]
<1>1. DOMAIN s = Fields
  BY SoundIs, FieldsAre
<1>2. Sound(t, c)
  <2>1. /\ DOMAIN t = DOMAIN s /\ t.flash = s.flash /\ t.trail = s.trail /\ t.fs = s.fs
        /\ t.fds = s.fds
    BY <1>1 DEF Fields
  <2> HIDE DEF t
  <2> QED BY <2>1, RegistersSet
<1> QED BY <1>2 DEF Began

(* Then it is the result again.                                             *)
LEMMA EndedKeeps ==
    ASSUME NEW s, NEW c, Sound(s, c)
    PROVE  Sound(Ended(s), c)
  BY FailKeeps DEF Ended

(* A descriptor takes the size reached.                                     *)
LEMMA AtKeeps ==
    ASSUME NEW s, NEW c, Sound(s, c), NEW f \in Descriptors, NEW size
    PROVE  Sound(At(s, f, size), c)
<1> DEFINE fd == [s.fds[f] EXCEPT !.size = size]
<1>1. At(s, f, size) = IF Ok(s) THEN [s EXCEPT !.fds[f] = fd] ELSE s
  BY DEF At
<1>2. DOMAIN fd = FdFields /\ fd.obj \in Int
  BY ObjIs DEF FdFields
<1> HIDE DEF fd
<1> QED BY <1>1, <1>2, DescriptorSet

(* A descriptor takes the index page a loop is at.                          *)
LEMMA CursorKeeps ==
    ASSUME NEW s, NEW c, Sound(s, c), NEW f \in Descriptors
    PROVE  Sound(Cursor(s, f), c)
<1> DEFINE fd == [s.fds[f] EXCEPT !.cpix = s.ixPix, !.cspan = s.ixSpan]
<1>1. Cursor(s, f) = IF Ok(s) THEN [s EXCEPT !.fds[f] = fd] ELSE s
  BY DEF Cursor
<1>2. DOMAIN fd = FdFields /\ fd.obj \in Int
  BY ObjIs DEF FdFields
<1> HIDE DEF fd
<1> QED BY <1>1, <1>2, DescriptorSet

(* Checking a data page changes the result only.                            *)
LEMMA DataCheckKeeps ==
    ASSUME NEW s, NEW c, Sound(s, c), NEW pix
    PROVE  Sound(DataCheck(s, pix), c)
<1>1. DataCheck(s, pix) = s \/ \E code : DataCheck(s, pix) = Fail(s, code)
  BY DEF DataCheck
<1> QED BY <1>1, FailKeeps

(* So does checking an index page.                                          *)
LEMMA IndexCheckKeeps ==
    ASSUME NEW s, NEW c, Sound(s, c), NEW pix
    PROVE  Sound(IndexCheck(s, pix), c)
  BY FailKeeps DEF IndexCheck

(* Setting the index page a loop is at.                                     *)
LEMMA IxSet ==
    ASSUME NEW s, NEW c, Sound(s, c), NEW pix, NEW span
    PROVE  Sound([s EXCEPT !.ixPix = pix, !.ixSpan = span], c)
<1> DEFINE t == [s EXCEPT !.ixPix = pix, !.ixSpan = span]
<1>1. DOMAIN s = Fields
  BY SoundIs, FieldsAre
<1>2. /\ DOMAIN t = DOMAIN s /\ t.flash = s.flash /\ t.trail = s.trail /\ t.fs = s.fs
      /\ t.fds = s.fds
  BY <1>1 DEF Fields
<1> HIDE DEF t
<1>3. Sound(t, c)
  BY <1>2, RegistersSet
<1> QED BY <1>3 DEF t

(* Loading the index page a search returned.                                *)
LEMMA LoadFoundKeeps ==
    ASSUME NEW s, NEW c, Sound(s, c), NEW span
    PROVE  Sound(LoadFound(s, span), c)
<1> DEFINE t == Load(s, s.pix, span)
           u == [t EXCEPT !.ixPix = s.pix, !.ixSpan = span]
<1>1. LoadFound(s, span) \in {s, Fail(s, "NOT_INDEX"), u}
  BY DEF LoadFound
<1>2. Sound(t, c)
  BY LoadKeeps
<1> HIDE DEF t
<1>3. Sound(u, c)
  BY <1>2, IxSet
<1> HIDE DEF u
<1> QED BY <1>1, <1>3, FailKeeps

(* Loading the index page of a span, from the place cached if it is there.  *)
LEMMA LoadIndexKeeps ==
    ASSUME NEW s, NEW c, Sound(s, c), NEW f, NEW span
    PROVE  Sound(LoadIndex(s, f, span), c)
<1> DEFINE fd == s.fds[f]
           s1 == [s EXCEPT !.pix = s.ixPix]
           s2 == [s EXCEPT !.pix = fd.cpix]
           s3 == FindIdAndSpan(s, Index(fd.obj), span)
<1>1. LoadIndex(s, f, span) \in {s, LoadFound(s1, span), LoadFound(s2, span), LoadFound(s3, span)}
  BY DEF LoadIndex
<1>2. Sound(s1, c) /\ Sound(s2, c) /\ Sound(s3, c)
  BY PixSet, FindIdAndSpanKeeps
<1> HIDE DEF s1, s2, s3
<1>3. /\ Sound(LoadFound(s1, span), c)
      /\ Sound(LoadFound(s2, span), c)
      /\ Sound(LoadFound(s3, span), c)
  BY <1>2, LoadFoundKeeps
<1> QED BY <1>1, <1>3

(* A created header is found free, and is an entry of the object then.     *)
LEMMA MakeHeaderKeeps ==
    ASSUME NEW s, NEW c, Sound(s, c), Takes(s), NEW id \in Int, NEW name
    PROVE  /\ Sound(MakeHeader(s, id, name), c)
           /\ LET t == MakeHeader(s, id, name)
              IN Ok(t) => t.flash.lu[t.pix] \in Int
<1> DEFINE hdr == [Header(Index(id), 0, {"final", "index", "used"}) EXCEPT !.name = name]
           l == SetLu(s, s.pix, Index(id))
           lu == Entered(s, Index(id))
           p == Program(lu, s.pix, hdr)
           t == ObjectEvent(p, FALSE, id, 0, s.pix, Blank)
<1>1. MakeHeader(s, id, name) = IF Ok(s) THEN t ELSE s
  BY DEF MakeHeader, Entered
<1> SUFFICES ASSUME Ok(s)
             PROVE  Sound(t, c) /\ t.flash.lu[t.pix] \in Int
  <2> HIDE DEF t
  <2> QED BY <1>1
<1> HIDE DEF hdr
<1>3. l.flash.lu[s.pix] \in Int
  <2>1. s.pix \in Pages /\ s.flash.lu[s.pix] = Blank
    BY DEF Takes
  <2> QED BY <2>1, SetLuSets, IdsAre, SoundIs
<1>4. Sound(lu, c) /\ lu.pix = s.pix /\ lu.flash = l.flash
  BY EnteredKeeps, IdsAre DEF Takes
<1> HIDE DEF lu, l
<1>5. Sound(p, c) /\ p.pix = s.pix /\ p.flash.lu = l.flash.lu
  BY <1>4, ProgramKeeps
<1> HIDE DEF p
<1>6. Sound(t, c) /\ t.pix = s.pix /\ t.flash.lu = l.flash.lu
  <2>1. \A d, i, sp, x, z : Sound(ObjectEvent(p, d, i, sp, x, z), c)
    BY <1>5, ObjectEventKeeps
  <2>2. \A d, i, sp, x, z : ObjectEvent(p, d, i, sp, x, z).flash = p.flash
    BY <1>5, ObjectEventKeeps
  <2>3. \A d, i, sp, x, z : ObjectEvent(p, d, i, sp, x, z).pix = p.pix
    BY <1>5, ObjectEventKeeps
  <2>4. Sound(t, c) /\ t.flash = p.flash /\ t.pix = p.pix
    BY <2>1, <2>2, <2>3
  <2> HIDE DEF t
  <2> QED BY <1>5, <2>4
<1> HIDE DEF t
<1> QED BY <1>3, <1>6

(* Creating an object: collect, find a page, write its header               *)
(* (spiffs_object_create).                                                  *)
LEMMA CreateObjectKeeps ==
    ASSUME NEW s, Sound(s, FALSE), NEW id \in Int, NEW name
    PROVE  LET t == CreateObject(s, id, name)
           IN Sound(t, FALSE) /\ (Ok(t) => t.flash.lu[t.pix] \in Int)
<1> DEFINE g == GcCheck(s, PageLen)
<1>1. Sound(g, FALSE)
  BY GcCheckKeeps
<1> HIDE DEF g
<1>2. Sound(FindFree(g), FALSE) /\ Takes(FindFree(g))
  BY <1>1, FindFreeKeeps
<1> QED BY <1>2, MakeHeaderKeeps DEF CreateObject, g

(* The descriptor takes the object of the entry.                           *)
LEMMA OpenByPageKeeps ==
    ASSUME NEW s, NEW c, Sound(s, c), NEW f \in Descriptors, NEW pix, NEW flags,
           Ok(s) => s.flash.lu[pix] \in Int
    PROVE  Sound(OpenByPage(s, f, pix, flags), c)
<1> DEFINE hdr == s.flash.page[pix]
           obj == ObjectOf(s.flash.lu[pix])
           fd == [s.fds[f] EXCEPT !.hdr = pix, !.size = hdr.size, !.cpix = pix, !.cspan = 0,
                               !.obj = obj, !.flags = flags]
           opened == [s EXCEPT !.fds[f] = fd]
           v == [opened EXCEPT !.work = hdr]
           w == Validate(v, 0)
           x == [w EXCEPT !.work = s.work]
<1>1. \/ OpenByPage(s, f, pix, flags) = s
      \/ s.flash.lu[pix] \in Int /\ OpenByPage(s, f, pix, flags) \in {x, Fail(opened, "NOT_INDEX")}
  <2>1. OpenByPage(s, f, pix, flags) = CASE ~Ok(s) -> s
                                         [] IsIndex(s.flash.lu[pix]) -> x
                                         [] OTHER -> Fail(opened, "NOT_INDEX")
    BY DEF OpenByPage
  <2> HIDE DEF x, opened
  <2> QED BY <2>1, FoundIds
<1> SUFFICES ASSUME s.flash.lu[pix] \in Int
             PROVE  Sound(x, c) /\ Sound(Fail(opened, "NOT_INDEX"), c)
  <2> HIDE DEF x, opened
  <2> QED BY <1>1
<1>2. obj \in Int
  BY IdsAre
<1> HIDE DEF hdr, obj
<1>3. DOMAIN fd = FdFields /\ fd.obj \in Int
  BY <1>2, ObjIs DEF FdFields
<1> HIDE DEF fd
<1>4. Sound(opened, c)
  BY <1>3, DescriptorSet
<1> HIDE DEF opened
<1>5. Sound(v, c)
  BY <1>4, WorkSet
<1> HIDE DEF v
<1>6. Sound(w, c)
  BY <1>5, ValidateKeeps
<1> HIDE DEF w
<1>7. Sound(x, c)
  BY <1>6, WorkSet
<1> QED BY <1>4, <1>7, FailKeeps

(* Completing an index page in place.                                       *)
LEMMA CompletedKeeps ==
    ASSUME NEW s, NEW c, Sound(s, c)
    PROVE  Sound(Completed(s), c)
<1> DEFINE checked == IndexCheck(s, s.ixPix)
           p == Program(s, s.ixPix, s.work)
<1>1. Completed(s) \in {p, checked}
  BY DEF Completed
<1>2. Sound(p, c) /\ Sound(checked, c)
  BY ProgramKeeps, IndexCheckKeeps
<1> HIDE DEF p, checked
<1> QED BY <1>1, <1>2

(* Storing the index page an append has extended: in place, or moved.       *)
LEMMA StoreAppendedKeeps ==
    ASSUME NEW s, NEW c, Sound(s, c), NEW f \in Descriptors, NEW offset, NEW size, NEW final
    PROVE  Sound(StoreAppended(s, f, offset, size, final), c)
<1> DEFINE fd == s.fds[f]
           sized == [s EXCEPT !.work.size = size]
           d1 == Completed(s)
           o1 == ObjectEvent(d1, FALSE, fd.obj, s.ixSpan, s.ixPix, 0)
           u1 == UpdateHeader(o1, f, fd.obj, fd.hdr, FALSE, Blank, size)
           d2 == Completed(sized)
           o2 == ObjectEvent(d2, FALSE, fd.obj, 0, s.ixPix, size)
           u2 == UpdateHeader(sized, f, fd.obj, fd.hdr, TRUE, Blank, size)
<1>1. StoreAppended(s, f, offset, size, final) \in {s, u1, o2, d2, u2}
  <2>1. StoreAppended(s, f, offset, size, final) =
           CASE ~Ok(s) -> s
             [] s.ixSpan # 0 -> u1
             [] EmptyHeader(s, offset) -> IF final THEN o2 ELSE d2
             [] OTHER -> u2
    BY DEF StoreAppended
  <2> HIDE DEF u1, u2, o2, d2
  <2> QED BY <2>1
<1>2. fd.obj \in Int
  BY ObjIs
<1> HIDE DEF fd
<1>3. Sound(sized, c)
  BY WorkSet
<1> HIDE DEF sized
<1>4. Sound(d1, c) /\ Sound(d2, c)
  BY <1>3, CompletedKeeps
<1> HIDE DEF d1, d2
<1>5. Sound(o1, c) /\ Sound(o2, c)
  BY <1>4, ObjectEventKeeps
<1> HIDE DEF o1, o2
<1>6. Sound(u1, c) /\ Sound(u2, c)
  BY <1>2, <1>3, <1>5, UpdateHeaderKeeps
<1> HIDE DEF u1, u2
<1> QED BY <1>1, <1>4, <1>5, <1>6

(* Descriptors follow the index page.                                       *)
LEMMA FollowedKeeps ==
    ASSUME NEW s, NEW c, Sound(s, c), NEW id, NEW span
    PROVE  Sound(Followed(s, id, span), c)
  BY ObjectEventKeeps DEF Followed

(* A loop goes on at a new index page.                                      *)
LEMMA MakeIndexKeeps ==
    ASSUME NEW s, NEW c, Sound(s, c), NEW id, NEW head
    PROVE  Sound(MakeIndex(s, id, head), c)
<1> DEFINE u == Followed(s, id, head.span)
           work == [head EXCEPT !.flags = @ \ {"used"}]
           v == [u EXCEPT !.ixPix = s.pix, !.ixSpan = head.span, !.work = work]
<1>1. MakeIndex(s, id, head) = IF Ok(s) THEN v ELSE s
  BY DEF MakeIndex
<1>2. Sound(u, c)
  BY FollowedKeeps
<1> HIDE DEF u, work
<1>3. Sound(v, c)
  <2>1. DOMAIN u = Fields
    BY <1>2, SoundIs, FieldsAre
  <2>2. /\ DOMAIN v = DOMAIN u /\ v.flash = u.flash /\ v.trail = u.trail /\ v.fs = u.fs
        /\ v.fds = u.fds
    BY <2>1 DEF Fields
  <2> HIDE DEF v
  <2> QED BY <1>2, <2>2, RegistersSet
<1> HIDE DEF v
<1> QED BY <1>1, <1>3

(* The index page the next data page of an append belongs to: a new one, or *)
(* loaded.                                                                  *)
LEMMA AppendIndexKeeps ==
    ASSUME NEW s, NEW c, Sound(s, c), NEW f \in Descriptors, NEW offset, NEW span
    PROVE  Sound(AppendIndex(s, f, offset, span), c)
<1> DEFINE fd == s.fds[f]
           new == s.written > 0 \/ (fd.size \notin {Blank, 0}
                                    /\ span > IxSpan((fd.size - 1) \div PageLen))
           head == Header(Index(fd.obj), span, {"final", "index"})
           a == AllocateData(s, Index(fd.obj), head, <<>>, TRUE)
           m == MakeIndex(a, fd.obj, head)
           l == LoadIndex(s, f, span)
           ready == IF new THEN m ELSE l
           k == Cursor(ready, f)
           z == At(k, f, offset + s.written)
<1>1. AppendIndex(s, f, offset, span) \in {s, l, z}
  <2>1. AppendIndex(s, f, offset, span) = CASE ~Ok(s) -> s [] span = 0 -> l [] OTHER -> z
    BY DEF AppendIndex
  <2> HIDE DEF l, z
  <2> QED BY <2>1
<1>2. Index(fd.obj) \in Int
  BY ObjIs
<1> HIDE DEF head, new
<1>3. Sound(a, c) /\ Sound(l, c)
  BY <1>2, AllocateDataKeeps, LoadIndexKeeps
<1> HIDE DEF a, l, fd
<1>4. Sound(m, c)
  BY <1>3, MakeIndexKeeps
<1> HIDE DEF m
<1>5. Sound(ready, c)
  BY <1>3, <1>4
<1> HIDE DEF ready
<1>6. Sound(k, c)
  BY <1>5, CursorKeeps
<1> HIDE DEF k
<1>7. Sound(z, c)
  BY <1>6, AtKeeps
<1> HIDE DEF z
<1> QED BY <1>1, <1>3, <1>7

(* The data page of an append: a fresh one, or the rest of the last one in  *)
(* place.                                                                   *)
LEMMA FilledKeeps ==
    ASSUME NEW s, NEW c, Sound(s, c), NEW f \in Descriptors, NEW span, NEW offs, NEW bytes
    PROVE  Sound(Filled(s, f, span, offs, bytes), c)
<1> DEFINE id == s.fds[f].obj
           old == s.work.body[RefOf(span)]
           checked == DataCheck(s, old)
           a == AllocateData(s, id, Header(id, span, {"final"}), Body(0, bytes), TRUE)
           b == Break(a)
           u == [s EXCEPT !.pix = old]
           p == Program(u, old, [Erased EXCEPT !.body = Body(offs, bytes)])
<1>1. Filled(s, f, span, offs, bytes) \in {s, b, checked, p}
  <2>1. Filled(s, f, span, offs, bytes) =
           CASE ~Ok(s) -> s [] offs = 0 -> b [] ~Ok(checked) -> checked [] OTHER -> p
    BY DEF Filled
  <2> HIDE DEF b, checked, p
  <2> QED BY <2>1
<1>2. id \in Int
  BY ObjIs
<1> HIDE DEF id, old
<1>3. Sound(a, c) /\ Sound(u, c) /\ Sound(checked, c)
  BY <1>2, AllocateDataKeeps, PixSet, DataCheckKeeps
<1> HIDE DEF a, u, checked
<1>4. Sound(b, c) /\ Sound(p, c)
  BY <1>3, BreakKeeps, ProgramKeeps
<1> HIDE DEF b, p
<1> QED BY <1>1, <1>3, <1>4

(* The index refers to it.                                                  *)
LEMMA AppendedKeeps ==
    ASSUME NEW s, NEW c, Sound(s, c), NEW offset, NEW span, NEW n
    PROVE  Sound(Appended(s, offset, span, n), c)
<1> DEFINE u == [s EXCEPT !.work.body[RefOf(span)] = s.pix, !.written = @ + n,
                          !.work.size = IF IxSpan(span) = 0 THEN offset + s.written ELSE @]
<1>1. Appended(s, offset, span, n) \in {s, u}
  BY DEF Appended
<1>2. Sound(u, c)
  <2>1. DOMAIN s = Fields
    BY SoundIs, FieldsAre
  <2>2. /\ DOMAIN u = DOMAIN s /\ u.flash = s.flash /\ u.trail = s.trail /\ u.fs = s.fs
        /\ u.fds = s.fds
    BY <2>1 DEF Fields
  <2> HIDE DEF u
  <2> QED BY <2>2, RegistersSet
<1> HIDE DEF u
<1> QED BY <1>1, <1>2

(* One page of an append.                                                   *)
LEMMA AppendPageKeeps ==
    ASSUME NEW s, NEW c, Sound(s, c), NEW f \in Descriptors, NEW offset, NEW data
    PROVE  Sound(AppendPage(s, f, offset, data), c)
<1> DEFINE at == offset + s.written
           span == at \div PageLen
           bytes == Piece(s, offset, data)
           a == StoreAppended(s, f, offset, at, FALSE)
           b == At(a, f, at)
           left == IF s.written = 0 THEN s ELSE b
           i == AppendIndex(left, f, offset, IxSpan(span))
           j == IF s.ixSpan = IxSpan(span) THEN s ELSE i
           m == Filled(j, f, span, at % PageLen, bytes)
<1>1. AppendPage(s, f, offset, data) = Appended(m, offset, span, Len(bytes))
  BY DEF AppendPage
<1> HIDE DEF bytes
<1>2. Sound(a, c)
  BY StoreAppendedKeeps
<1> HIDE DEF a
<1>3. Sound(b, c)
  BY <1>2, AtKeeps
<1> HIDE DEF b
<1>4. Sound(left, c)
  BY <1>3
<1> HIDE DEF left
<1>5. Sound(i, c)
  BY <1>4, AppendIndexKeeps
<1> HIDE DEF i
<1>6. Sound(j, c)
  BY <1>5
<1> HIDE DEF j
<1>7. Sound(m, c)
  BY <1>6, FilledKeeps
<1> HIDE DEF m
<1> QED BY <1>1, <1>7, AppendedKeeps

(* The bound of the loops over a file is a natural number.                  *)
LEMMA MaxPagesAre == MaxPages \in Nat
  BY LengthAssumption, GeometryAssumption DEF MaxPages

(* One turn of the loop of an append.                                       *)
LEMMA AppendStep ==
    ASSUME NEW s, NEW c, Sound(s, c), NEW f \in Descriptors, NEW offset, NEW data
    PROVE  Sound(IF Running(s, Len(data)) THEN AppendPage(s, f, offset, data) ELSE s, c)
  BY AppendPageKeeps

AppendOut(s, f, offset, data) ==
    Loop(MaxPages, s, LAMBDA t, k :
        IF Running(t, Len(data)) THEN AppendPage(t, f, offset, data) ELSE t)

(* The loop.                                                                *)
LEMMA AppendOutKeeps ==
    ASSUME NEW s, NEW c, Sound(s, c), NEW f \in Descriptors, NEW offset, NEW data
    PROVE  Sound(AppendOut(s, f, offset, data), c)
<1> DEFINE w == <<"append", f, offset, data>>
           Turn(t) == IF Running(t, Len(data)) THEN AppendPage(t, f, offset, data) ELSE t
           run == CHOOSE g : g = [k \in 0 .. MaxPages |-> IF k = 0 THEN s ELSE Turn(g[k - 1])]
<1>1. AppendOut(s, f, offset, data) = run[MaxPages]
  BY DEF Loop, AppendOut
<1>2. \A t, k : StepOf(w, t, k) = Turn(t)
  BY DEF StepOf
<1>3. \A t : Holds(w, t, c) <=> Sound(t, c)
  BY DEF Holds
<1> HIDE DEF w
<1>4. PICK g : IsRun(g, w, s, MaxPages)
  BY RunExists, MaxPagesAre
<1>5. g = [k \in 0 .. MaxPages |-> IF k = 0 THEN s ELSE Turn(g[k - 1])]
  BY <1>2, <1>4 DEF IsRun
<1>6. run = [k \in 0 .. MaxPages |-> IF k = 0 THEN s ELSE Turn(run[k - 1])]
  BY <1>5
<1> HIDE DEF run
<1>7. IsRun(run, w, s, MaxPages)
  BY <1>2, <1>6 DEF IsRun
<1>8. \A t, k : k \in 1 .. MaxPages /\ Holds(w, t, c) => Holds(w, StepOf(w, t, k), c)
  BY <1>2, <1>3, AppendStep
<1> QED BY <1>1, <1>3, <1>7, <1>8, RunKeeps, MaxPagesAre

(* Appending to a file, whatever fails on the way (spiffs_object_append).   *)
LEMMA AppendObjectKeeps ==
    ASSUME NEW s, Sound(s, FALSE), NEW f \in Descriptors, NEW offs, NEW data
    PROVE  Sound(AppendObject(s, f, offs, data), FALSE)
<1> DEFINE offset == IF s.fds[f].size # Blank /\ offs > s.fds[f].size THEN s.fds[f].size ELSE offs
           g == GcCheck(s, Len(data) + PageLen)
           b == Began(g, f)
           o == AppendOut(b, f, offset, data)
           size == offset + o.written
           a == At(o, f, size)
           k == Cursor(a, f)
           z == StoreAppended(k, f, offset, size, TRUE)
<1>1. AppendObject(s, f, offs, data) = Ended(z)
  BY DEF AppendObject, AppendEnd, AppendOut
<1> HIDE DEF offset
<1>2. Sound(g, FALSE)
  BY GcCheckKeeps
<1> HIDE DEF g
<1>3. Sound(b, FALSE)
  BY <1>2, BeganKeeps
<1> HIDE DEF b
<1>4. Sound(o, FALSE)
  BY <1>3, AppendOutKeeps
<1> HIDE DEF o
<1>5. Sound(a, FALSE)
  BY <1>4, AtKeeps
<1> HIDE DEF a
<1>6. Sound(k, FALSE)
  BY <1>5, CursorKeeps
<1> HIDE DEF k
<1>7. Sound(z, FALSE)
  BY <1>6, StoreAppendedKeeps
<1> HIDE DEF z
<1> QED BY <1>1, <1>7, EndedKeeps

(* A loop goes on at the page an index page was moved to.                   *)
LEMMA AtMovedKeeps ==
    ASSUME NEW s, NEW c, Sound(s, c)
    PROVE  Sound(AtMoved(s), c)
<1> DEFINE t == [s EXCEPT !.ixPix = s.pix]
<1>1. DOMAIN s = Fields
  BY SoundIs, FieldsAre
<1>2. /\ DOMAIN t = DOMAIN s /\ t.flash = s.flash /\ t.trail = s.trail /\ t.fs = s.fs
      /\ t.fds = s.fds
  BY <1>1 DEF Fields
<1>3. AtMoved(s) \in {s, t}
  BY DEF AtMoved
<1> HIDE DEF t
<1>4. Sound(t, c)
  BY <1>2, RegistersSet
<1> QED BY <1>3, <1>4

(* Storing the index page a modification has edited.                        *)
LEMMA StoreMovedKeeps ==
    ASSUME NEW s, NEW c, Sound(s, c), NEW f \in Descriptors, NEW size
    PROVE  Sound(StoreMoved(s, f, size), c)
<1> DEFINE fd == s.fds[f]
           u == UpdateHeader(s, f, fd.obj, fd.hdr, TRUE, Blank, size)
           i == IndexCheck(s, s.ixPix)
           m == MovePage(i, TRUE, Index(fd.obj), s.ixPix)
           l == Followed(m, fd.obj, s.ixSpan)
           a == AtMoved(l)
           k == Cursor(a, f)
<1>1. StoreMoved(s, f, size) \in {u, k}
  BY DEF StoreMoved
<1>2. fd.obj \in Int /\ Index(fd.obj) \in Int
  BY ObjIs
<1> HIDE DEF fd
<1>3. Sound(u, c) /\ Sound(i, c)
  BY <1>2, UpdateHeaderKeeps, IndexCheckKeeps
<1> HIDE DEF u, i
<1>4. Sound(m, c)
  BY <1>2, <1>3, MovePageKeeps
<1> HIDE DEF m
<1>5. Sound(l, c)
  BY <1>4, FollowedKeeps
<1> HIDE DEF l
<1>6. Sound(a, c)
  BY <1>5, AtMovedKeeps
<1> HIDE DEF a
<1>7. Sound(k, c)
  BY <1>6, CursorKeeps
<1> HIDE DEF k
<1> QED BY <1>1, <1>3, <1>7

(* The new version of a page is programmed around and with the bytes        *)
(* written.                                                                 *)
LEMMA CopiedAroundKeeps ==
    ASSUME NEW s, NEW c, Sound(s, c), NEW old, NEW offs, NEW bytes
    PROVE  Sound(CopiedAround(s, old, offs, bytes), c)
<1> DEFINE end == offs + Len(bytes)
           p1 == Program(s, s.pix, PartOf(old, 0, offs))
           front == IF offs > 0 THEN p1 ELSE s
           p2 == Program(front, s.pix, PartOf(old, end, PageLen))
           back == IF end < PageLen THEN p2 ELSE front
           p3 == Program(back, s.pix, [Erased EXCEPT !.body = Body(offs, bytes)])
           p4 == Program(p3, s.pix, [Erased EXCEPT !.flags = Bits \ {"used", "final"}])
<1>1. CopiedAround(s, old, offs, bytes) \in {s, p4}
  BY DEF CopiedAround
<1>2. Sound(p1, c)
  BY ProgramKeeps
<1> HIDE DEF p1
<1>3. Sound(front, c)
  BY <1>2
<1> HIDE DEF front, end
<1>4. Sound(p2, c)
  BY <1>3, ProgramKeeps
<1> HIDE DEF p2
<1>5. Sound(back, c)
  BY <1>3, <1>4
<1> HIDE DEF back
<1>6. Sound(p3, c)
  BY <1>5, ProgramKeeps
<1> HIDE DEF p3
<1>7. Sound(p4, c)
  BY <1>6, ProgramKeeps
<1> HIDE DEF p4
<1> QED BY <1>1, <1>7

(* It is a page allocated for it.                                           *)
LEMMA ReplacedPageKeeps ==
    ASSUME NEW s, NEW c, Sound(s, c), NEW f \in Descriptors, NEW old, NEW span, NEW offs, NEW bytes
    PROVE  Sound(ReplacedPage(s, f, old, span, offs, bytes), c)
<1> DEFINE id == s.fds[f].obj
           head == Header(id, span, {})
           checked == DataCheck(s, old)
           a1 == AllocateData(s, id, head, Body(0, bytes), TRUE)
           a2 == AllocateData(s, id, head, <<>>, FALSE)
           a3 == CopiedAround(a2, s.flash.page[old], offs, bytes)
<1>1. ReplacedPage(s, f, old, span, offs, bytes) \in {Break(a1), checked, Break(a3)}
  <2>1. ReplacedPage(s, f, old, span, offs, bytes) =
           CASE Len(bytes) = PageLen -> Break(a1) [] ~Ok(checked) -> checked [] OTHER -> Break(a3)
    BY DEF ReplacedPage
  <2> HIDE DEF a1, a3, checked
  <2> QED BY <2>1
<1>2. id \in Int
  BY ObjIs
<1> HIDE DEF id, head
<1>3. Sound(a1, c) /\ Sound(a2, c) /\ Sound(checked, c)
  BY <1>2, AllocateDataKeeps, DataCheckKeeps
<1> HIDE DEF a1, a2, checked
<1>4. Sound(a3, c)
  BY <1>3, CopiedAroundKeeps
<1> HIDE DEF a3
<1>5. Sound(Break(a1), c) /\ Sound(Break(a3), c)
  BY <1>3, <1>4, BreakKeeps
<1> QED BY <1>1, <1>3, <1>5

(* Counting the bytes written.                                              *)
LEMMA WrittenSet ==
    ASSUME NEW s, NEW c, Sound(s, c), NEW n
    PROVE  Sound([s EXCEPT !.written = n], c)
<1> DEFINE t == [s EXCEPT !.written = n]
<1>1. DOMAIN s = Fields
  BY SoundIs, FieldsAre
<1>2. /\ DOMAIN t = DOMAIN s /\ t.flash = s.flash /\ t.trail = s.trail /\ t.fs = s.fs
      /\ t.fds = s.fds
  BY <1>1 DEF Fields
<1> HIDE DEF t
<1>3. Sound(t, c)
  BY <1>2, RegistersSet
<1> QED BY <1>3 DEF t

(* The index refers to it.                                                  *)
LEMMA ExchangedKeeps ==
    ASSUME NEW s, NEW c, Sound(s, c), NEW span, NEW n
    PROVE  Sound(Exchanged(s, span, n), c)
<1> DEFINE r == Referring(s, RefOf(span))
           t == [r EXCEPT !.written = @ + n]
<1>1. Exchanged(s, span, n) \in {s, t}
  BY DEF Exchanged
<1>2. Sound(r, c)
  BY ReferringKeeps
<1> HIDE DEF r
<1>3. Sound(t, c)
  BY <1>2, WrittenSet
<1> HIDE DEF t
<1> QED BY <1>1, <1>3

(* Then the old version is deleted: one page of a file is replaced.         *)
LEMMA ReplacedKeeps ==
    ASSUME NEW s, NEW c, Sound(s, c), NEW f \in Descriptors, NEW span, NEW offs, NEW bytes
    PROVE  Sound(Replaced(s, f, span, offs, bytes), c)
<1> DEFINE old == s.work.body[RefOf(span)]
           r == ReplacedPage(s, f, old, span, offs, bytes)
           d == DeletePage(r, old)
           b == Break(d)
           e == Exchanged(b, span, Len(bytes))
<1>1. Replaced(s, f, span, offs, bytes) \in {s, r, e}
  BY DEF Replaced, Modified
<1> HIDE DEF old
<1>2. Sound(r, c)
  BY ReplacedPageKeeps
<1> HIDE DEF r
<1>3. Sound(d, c)
  BY <1>2, DeletePageKeeps
<1> HIDE DEF d
<1>4. Sound(b, c)
  BY <1>3, BreakKeeps
<1> HIDE DEF b
<1>5. Sound(e, c)
  BY <1>4, ExchangedKeeps
<1> HIDE DEF e
<1> QED BY <1>1, <1>2, <1>5

(* One page of a modification.                                              *)
LEMMA ModifyPageKeeps ==
    ASSUME NEW s, NEW c, Sound(s, c), NEW f \in Descriptors, NEW offset, NEW data
    PROVE  Sound(ModifyPage(s, f, offset, data), c)
<1> DEFINE at == offset + s.written
           span == at \div PageLen
           m == StoreMoved(s, f, 0)
           left == IF s.written = 0 THEN s ELSE m
           i == LoadIndex(left, f, IxSpan(span))
           k == Cursor(i, f)
           j == IF s.ixSpan = IxSpan(span) THEN s ELSE k
<1>1. ModifyPage(s, f, offset, data) = Replaced(j, f, span, at % PageLen, Piece(s, offset, data))
  BY DEF ModifyPage
<1>2. Sound(m, c)
  BY StoreMovedKeeps
<1> HIDE DEF m
<1>3. Sound(left, c)
  BY <1>2
<1> HIDE DEF left
<1>4. Sound(i, c)
  BY <1>3, LoadIndexKeeps
<1> HIDE DEF i
<1>5. Sound(k, c)
  BY <1>4, CursorKeeps
<1> HIDE DEF k
<1>6. Sound(j, c)
  BY <1>5
<1> HIDE DEF j
<1> QED BY <1>1, <1>6, ReplacedKeeps

(* One turn of its loop.                                                    *)
LEMMA ModifyStep ==
    ASSUME NEW s, NEW c, Sound(s, c), NEW f \in Descriptors, NEW offset, NEW data
    PROVE  Sound(IF Running(s, Len(data)) THEN ModifyPage(s, f, offset, data) ELSE s, c)
  BY ModifyPageKeeps

ModifyOut(s, f, offset, data) ==
    Loop(MaxPages, s, LAMBDA t, k :
        IF Running(t, Len(data)) THEN ModifyPage(t, f, offset, data) ELSE t)

(* The loop.                                                                *)
LEMMA ModifyOutKeeps ==
    ASSUME NEW s, NEW c, Sound(s, c), NEW f \in Descriptors, NEW offset, NEW data
    PROVE  Sound(ModifyOut(s, f, offset, data), c)
<1> DEFINE w == <<"modify", f, offset, data>>
           Turn(t) == IF Running(t, Len(data)) THEN ModifyPage(t, f, offset, data) ELSE t
           run == CHOOSE g : g = [k \in 0 .. MaxPages |-> IF k = 0 THEN s ELSE Turn(g[k - 1])]
<1>1. ModifyOut(s, f, offset, data) = run[MaxPages]
  BY DEF Loop, ModifyOut
<1>2. \A t, k : StepOf(w, t, k) = Turn(t)
  BY DEF StepOf
<1>3. \A t : Holds(w, t, c) <=> Sound(t, c)
  BY DEF Holds
<1> HIDE DEF w
<1>4. PICK g : IsRun(g, w, s, MaxPages)
  BY RunExists, MaxPagesAre
<1>5. g = [k \in 0 .. MaxPages |-> IF k = 0 THEN s ELSE Turn(g[k - 1])]
  BY <1>2, <1>4 DEF IsRun
<1>6. run = [k \in 0 .. MaxPages |-> IF k = 0 THEN s ELSE Turn(run[k - 1])]
  BY <1>5
<1> HIDE DEF run
<1>7. IsRun(run, w, s, MaxPages)
  BY <1>2, <1>6 DEF IsRun
<1>8. \A t, k : k \in 1 .. MaxPages /\ Holds(w, t, c) => Holds(w, StepOf(w, t, k), c)
  BY <1>2, <1>3, ModifyStep
<1> QED BY <1>1, <1>3, <1>7, <1>8, RunKeeps, MaxPagesAre

(* After a failed modification it may take a page nothing was written to.   *)
LEMMA PlacedKeeps ==
    ASSUME NEW s, NEW c, Sound(s, c), NEW f \in Descriptors
    PROVE  Sound(Placed(s, f), c)
<1> DEFINE fd == [s.fds[f] EXCEPT !.cpix = Mixed]
           t == [s EXCEPT !.fds[f] = fd]
<1>1. Placed(s, f) \in {s, t}
  BY DEF Placed
<1>2. DOMAIN fd = FdFields /\ fd.obj \in Int
  BY ObjIs DEF FdFields
<1> HIDE DEF fd
<1>3. Sound(t, c)
  BY <1>2, DescriptorSet
<1> HIDE DEF t
<1> QED BY <1>1, <1>3

(* Modifying a file in place, whatever fails on the way                     *)
(* (spiffs_object_modify).                                                  *)
LEMMA ModifyObjectKeeps ==
    ASSUME NEW s, Sound(s, FALSE), NEW f \in Descriptors, NEW offset, NEW data
    PROVE  Sound(ModifyObject(s, f, offset, data), FALSE)
<1> DEFINE g == GcCheck(s, Len(data) + PageLen)
           b == Began(g, f)
           o == ModifyOut(b, f, offset, data)
           k == Cursor(o, f)
           m == StoreMoved(k, f, 0)
           p == Placed(m, f)
           e == Ended(p)
<1>1. ModifyObject(s, f, offset, data) \in {o, e}
  <2>1. ModifyObject(s, f, offset, data) = ModifyEnd(o, f)
    BY DEF ModifyObject, ModifyOut
  <2> HIDE DEF o
  <2> QED BY <2>1 DEF ModifyEnd
<1>2. Sound(g, FALSE)
  BY GcCheckKeeps
<1> HIDE DEF g
<1>3. Sound(b, FALSE)
  BY <1>2, BeganKeeps
<1> HIDE DEF b
<1>4. Sound(o, FALSE)
  BY <1>3, ModifyOutKeeps
<1> HIDE DEF o
<1>5. Sound(k, FALSE)
  BY <1>4, CursorKeeps
<1> HIDE DEF k
<1>6. Sound(m, FALSE)
  BY <1>5, StoreMovedKeeps
<1> HIDE DEF m
<1>7. Sound(p, FALSE)
  BY <1>6, PlacedKeeps
<1> HIDE DEF p
<1>8. Sound(e, FALSE)
  BY <1>7, EndedKeeps
<1> HIDE DEF e
<1> QED BY <1>1, <1>4, <1>8

(* Deleting the index page a truncation leaves behind.                      *)
LEMMA DropIndexKeeps ==
    ASSUME NEW s, NEW c, Sound(s, c), NEW f \in Descriptors, NEW full
    PROVE  Sound(DropIndex(s, f, full), c)
<1> DEFINE fd == s.fds[f]
           i == IndexCheck(s, s.ixPix)
           d == DeletePage(i, s.ixPix)
           gone == ObjectEvent(d, TRUE, fd.obj, s.ixSpan, s.ixPix, 0)
           u == UpdateHeader(gone, f, fd.obj, fd.hdr, FALSE, Blank, s.cut)
           v == IF s.ixSpan > 0 /\ ~full THEN u ELSE gone
<1>1. DropIndex(s, f, full) = At(v, f, s.cut)
  BY DEF DropIndex
<1>2. fd.obj \in Int
  BY ObjIs
<1> HIDE DEF fd
<1>3. Sound(i, c)
  BY IndexCheckKeeps
<1> HIDE DEF i
<1>4. Sound(d, c)
  BY <1>3, DeletePageKeeps
<1> HIDE DEF d
<1>5. Sound(gone, c)
  BY <1>4, ObjectEventKeeps
<1> HIDE DEF gone
<1>6. Sound(u, c)
  BY <1>2, <1>5, UpdateHeaderKeeps
<1> HIDE DEF u
<1>7. Sound(v, c)
  BY <1>5, <1>6
<1> HIDE DEF v
<1> QED BY <1>1, <1>7, AtKeeps

(* Loading the index page a truncation is at.                               *)
LEMMA LoadedForCutKeeps ==
    ASSUME NEW s, NEW c, Sound(s, c), NEW f \in Descriptors, NEW span
    PROVE  Sound(LoadedForCut(s, f, span), c)
<1> DEFINE l == Load(s, s.pix, span)
           t == [l EXCEPT !.ixPix = s.pix, !.ixSpan = span]
           k == Cursor(t, f)
<1>1. LoadedForCut(s, f, span) \in {s, k}
  BY DEF LoadedForCut
<1>2. Sound(l, c)
  BY LoadKeeps
<1> HIDE DEF l
<1>3. Sound(t, c)
  BY <1>2, IxSet
<1> HIDE DEF t
<1>4. Sound(k, c)
  BY <1>3, CursorKeeps
<1> HIDE DEF k
<1> QED BY <1>1, <1>4

(* It is searched, never taken from the cursor of the descriptor.           *)
LEMMA LoadForCutKeeps ==
    ASSUME NEW s, NEW c, Sound(s, c), NEW f \in Descriptors, NEW span
    PROVE  Sound(LoadForCut(s, f, span), c)
<1> DEFINE p == [s EXCEPT !.pix = s.fds[f].hdr]
           q == FindIdAndSpan(s, Index(s.fds[f].obj), span)
<1>1. LoadForCut(s, f, span) \in {s, LoadedForCut(p, f, span), LoadedForCut(q, f, span)}
  BY DEF LoadForCut
<1>2. Sound(p, c) /\ Sound(q, c)
  BY PixSet, FindIdAndSpanKeeps
<1> HIDE DEF p, q
<1>3. Sound(LoadedForCut(p, f, span), c) /\ Sound(LoadedForCut(q, f, span), c)
  BY <1>2, LoadedForCutKeeps
<1> QED BY <1>1, <1>3

(* Counting the bytes cut.                                                  *)
LEMMA CutSet ==
    ASSUME NEW s, NEW c, Sound(s, c), NEW n
    PROVE  Sound([s EXCEPT !.cut = n], c)
<1> DEFINE t == [s EXCEPT !.cut = n]
<1>1. DOMAIN s = Fields
  BY SoundIs, FieldsAre
<1>2. /\ DOMAIN t = DOMAIN s /\ t.flash = s.flash /\ t.trail = s.trail /\ t.fs = s.fs
      /\ t.fds = s.fds
  BY <1>1 DEF Fields
<1> HIDE DEF t
<1>3. Sound(t, c)
  BY <1>2, RegistersSet
<1> QED BY <1>3 DEF t

(* Deleting a whole data page.                                              *)
LEMMA CutWholeKeeps ==
    ASSUME NEW s, NEW c, Sound(s, c), NEW f \in Descriptors, NEW old
    PROVE  Sound(CutWhole(s, f, old), c)
<1> DEFINE checked == DataCheck(s, old)
           left == IF s.cut % PageLen = 0 THEN s.cut - PageLen ELSE s.cut - (s.cut % PageLen)
           d == DeletePage(s, old)
           deleted == IF Ok(checked) THEN d ELSE s
           t == [deleted EXCEPT !.cut = left]
           a == At(t, f, left)
<1>1. CutWhole(s, f, old) \in {Break(checked), a}
  BY DEF CutWhole
<1> HIDE DEF left
<1>2. Sound(checked, c) /\ Sound(d, c)
  BY DataCheckKeeps, DeletePageKeeps
<1> HIDE DEF checked, d
<1>3. Sound(deleted, c)
  BY <1>2
<1> HIDE DEF deleted
<1>4. Sound(t, c)
  BY <1>3, CutSet
<1> HIDE DEF t
<1>5. Sound(a, c) /\ Sound(Break(checked), c)
  BY <1>2, <1>4, AtKeeps, BreakKeeps
<1> HIDE DEF a
<1> QED BY <1>1, <1>5

(* Writing the part of a page that is kept, and deleting the page.          *)
LEMMA KeptPartKeeps ==
    ASSUME NEW s, NEW c, Sound(s, c), NEW old, NEW kept
    PROVE  Sound(KeptPart(s, old, kept), c)
<1> DEFINE p == Program(s, s.pix, kept)
           d == DeletePage(p, old)
<1>1. KeptPart(s, old, kept) \in {s, d}
  BY DEF KeptPart
<1>2. Sound(p, c)
  BY ProgramKeeps
<1> HIDE DEF p
<1>3. Sound(d, c)
  BY <1>2, DeletePageKeeps
<1> HIDE DEF d
<1> QED BY <1>1, <1>3

(* Finishing the new page; the index refers to it.                          *)
LEMMA TrimmedKeeps ==
    ASSUME NEW s, NEW c, Sound(s, c), NEW f \in Descriptors, NEW span, NEW size
    PROVE  Sound(Trimmed(s, f, span, size), c)
<1> DEFINE p == Program(s, s.pix, [Erased EXCEPT !.flags = Bits \ {"used", "final"}])
           t == [p EXCEPT !.work.body[RefOf(span)] = s.pix, !.cut = size, !.brk = "DONE"]
           a == At(t, f, size)
<1>1. Trimmed(s, f, span, size) \in {Break(s), a}
  BY DEF Trimmed
<1>2. Sound(p, c)
  BY ProgramKeeps
<1> HIDE DEF p
<1>3. Sound(t, c)
  <2>1. DOMAIN p = Fields
    BY <1>2, SoundIs, FieldsAre
  <2>2. /\ DOMAIN t = DOMAIN p /\ t.flash = p.flash /\ t.trail = p.trail /\ t.fs = p.fs
        /\ t.fds = p.fds
    BY <2>1 DEF Fields
  <2> HIDE DEF t
  <2> QED BY <1>2, <2>2, RegistersSet
<1> HIDE DEF t
<1>4. Sound(a, c) /\ Sound(Break(s), c)
  BY <1>3, AtKeeps, BreakKeeps
<1> HIDE DEF a
<1> QED BY <1>1, <1>4

(* Cutting a part of a data page.                                           *)
LEMMA CutPartKeeps ==
    ASSUME NEW s, NEW c, Sound(s, c), NEW f \in Descriptors, NEW old, NEW span, NEW size
    PROVE  Sound(CutPart(s, f, old, span, size), c)
<1> DEFINE id == s.fds[f].obj
           kept == PartOf(s.flash.page[old], 0, size % PageLen)
           d == DataCheck(s, old)
           a == AllocateData(d, id, Header(id, span, {}), <<>>, FALSE)
           k == KeptPart(a, old, kept)
<1>1. CutPart(s, f, old, span, size) = Trimmed(k, f, span, size)
  BY DEF CutPart
<1>2. id \in Int
  BY ObjIs
<1> HIDE DEF id, kept
<1>3. Sound(d, c)
  BY DataCheckKeeps
<1> HIDE DEF d
<1>4. Sound(a, c)
  BY <1>2, <1>3, AllocateDataKeeps
<1> HIDE DEF a
<1>5. Sound(k, c)
  BY <1>4, KeptPartKeeps
<1> HIDE DEF k
<1> QED BY <1>1, <1>5, TrimmedKeeps

(* Cutting at the page a truncation has come to: as a whole, or a part.     *)
LEMMA CutAtKeeps ==
    ASSUME NEW s, NEW c, Sound(s, c), NEW f \in Descriptors, NEW span, NEW size, NEW whole
    PROVE  Sound(CutAt(s, f, span, size, whole), c)
<1> DEFINE old == s.work.body[RefOf(span)]
           freed == [s EXCEPT !.work.body[RefOf(span)] = Blank]
<1>1. CutAt(s, f, span, size, whole) \in
         {s, CutWhole(freed, f, old), CutPart(freed, f, old, span, size)}
  BY DEF CutAt
<1> HIDE DEF old
<1>2. Sound(freed, c)
  BY WorkSet
<1> HIDE DEF freed
<1>3. Sound(CutWhole(freed, f, old), c) /\ Sound(CutPart(freed, f, old, span, size), c)
  BY <1>2, CutWholeKeeps, CutPartKeeps
<1> QED BY <1>1, <1>3

(* One page of a truncation.                                                *)
LEMMA CutPageKeeps ==
    ASSUME NEW s, NEW c, Sound(s, c), NEW f \in Descriptors, NEW size, NEW full
    PROVE  Sound(CutPage(s, f, size, full), c)
<1> DEFINE span == (s.cut - 1) \div PageLen
           d == DropIndex(s, f, full)
           left == IF s.ixSpan = -1 THEN s ELSE d
           l == LoadForCut(left, f, IxSpan(span))
           j == IF s.ixSpan = IxSpan(span) THEN s ELSE l
           whole == size = 0 \/ full \/ s.cut - size >= PageLen
<1>1. CutPage(s, f, size, full) = CutAt(j, f, span, size, whole)
  BY DEF CutPage
<1> HIDE DEF whole
<1>2. Sound(d, c)
  BY DropIndexKeeps
<1> HIDE DEF d
<1>3. Sound(left, c)
  BY <1>2
<1> HIDE DEF left
<1>4. Sound(l, c)
  BY <1>3, LoadForCutKeeps
<1> HIDE DEF l
<1>5. Sound(j, c)
  BY <1>4
<1> HIDE DEF j
<1> QED BY <1>1, <1>5, CutAtKeeps

(* At the end its header goes, or the index takes the new size.             *)
LEMMA StoreCutKeeps ==
    ASSUME NEW s, NEW c, Sound(s, c), NEW f \in Descriptors, NEW full
    PROVE  Sound(StoreCut(s, f, full), c)
<1> DEFINE fd == s.fds[f]
           blank == [s EXCEPT !.work.body = Erased.body, !.work.size = Blank]
           m == StoreMoved(s, f, 0)
           u1 == UpdateHeader(m, f, fd.obj, fd.hdr, FALSE, Blank, s.cut)
           d == DeletePage(IndexCheck(s, s.ixPix), s.ixPix)
           o == ObjectEvent(d, TRUE, fd.obj, 0, s.ixPix, 0)
           u2 == UpdateHeader(blank, f, fd.obj, s.ixPix, TRUE, Blank, 0)
           u3 == UpdateHeader(s, f, fd.obj, s.ixPix, TRUE, Blank, s.cut)
<1>1. StoreCut(s, f, full) \in {s, u1, o, u2, u3}
  <2>1. StoreCut(s, f, full) = CASE ~Ok(s) -> s
                                 [] s.ixSpan > 0 -> u1
                                 [] s.cut = 0 /\ full -> o
                                 [] s.cut = 0 /\ ~full -> u2
                                 [] OTHER -> u3
    BY DEF StoreCut
  <2> HIDE DEF u1, u2, u3, o
  <2> QED BY <2>1
<1>2. fd.obj \in Int
  BY ObjIs
<1> HIDE DEF fd
<1>3. Sound(blank, c) /\ Sound(m, c) /\ Sound(d, c)
  BY WorkSet, StoreMovedKeeps, IndexCheckKeeps, DeletePageKeeps
<1> HIDE DEF blank, m, d
<1>4. \A dl, i, sp, x, z : Sound(ObjectEvent(d, dl, i, sp, x, z), c)
  BY <1>3, ObjectEventKeeps
<1>5. Sound(u1, c) /\ Sound(o, c) /\ Sound(u2, c) /\ Sound(u3, c)
  BY <1>2, <1>3, <1>4, UpdateHeaderKeeps
<1> HIDE DEF u1, u2, u3, o
<1> QED BY <1>1, <1>5

(* Removing a file marks its header before any page goes.                   *)
LEMMA CutFromKeeps ==
    ASSUME NEW s, NEW c, Sound(s, c), NEW f, NEW full
    PROVE  Sound(CutFrom(s, f, full), c)
<1> DEFINE p == Program(s, s.fds[f].hdr, [Erased EXCEPT
                           !.flags = Bits \ {"used", "index", "final", "ixdele"}])
           marked == IF full /\ Ok(s) THEN p ELSE s
           b == Began(marked, f)
           n == SizeOf(s.fds[f].size)
<1>1. CutFrom(s, f, full) = [b EXCEPT !.cut = n]
  BY DEF CutFrom
<1> HIDE DEF n
<1>2. Sound(p, c)
  BY ProgramKeeps
<1> HIDE DEF p
<1>3. Sound(marked, c)
  BY <1>2
<1> HIDE DEF marked
<1>4. Sound(b, c)
  BY <1>3, BeganKeeps
<1> HIDE DEF b
<1> QED BY <1>1, <1>4, CutSet

(* One turn of the loop.                                                    *)
LEMMA CutStep ==
    ASSUME NEW s, NEW c, Sound(s, c), NEW f \in Descriptors, NEW size, NEW full
    PROVE  Sound(IF Ok(s) /\ s.brk = "OK" /\ s.cut > size THEN CutPage(s, f, size, full) ELSE s, c)
  BY CutPageKeeps

CutOut(s, f, size, full) ==
    Loop(MaxPages, s, LAMBDA t, k :
        IF Ok(t) /\ t.brk = "OK" /\ t.cut > size THEN CutPage(t, f, size, full) ELSE t)

(* The loop.                                                                *)
LEMMA CutOutKeeps ==
    ASSUME NEW s, NEW c, Sound(s, c), NEW f \in Descriptors, NEW size, NEW full
    PROVE  Sound(CutOut(s, f, size, full), c)
<1> DEFINE w == <<"cut", f, size, full>>
           Turn(t) == IF Ok(t) /\ t.brk = "OK" /\ t.cut > size THEN CutPage(t, f, size, full) ELSE t
           run == CHOOSE g : g = [k \in 0 .. MaxPages |-> IF k = 0 THEN s ELSE Turn(g[k - 1])]
<1>1. CutOut(s, f, size, full) = run[MaxPages]
  BY DEF Loop, CutOut
<1>2. \A t, k : StepOf(w, t, k) = Turn(t)
  BY DEF StepOf
<1>3. \A t : Holds(w, t, c) <=> Sound(t, c)
  BY DEF Holds
<1> HIDE DEF w
<1>4. PICK g : IsRun(g, w, s, MaxPages)
  BY RunExists, MaxPagesAre
<1>5. g = [k \in 0 .. MaxPages |-> IF k = 0 THEN s ELSE Turn(g[k - 1])]
  BY <1>2, <1>4 DEF IsRun
<1>6. run = [k \in 0 .. MaxPages |-> IF k = 0 THEN s ELSE Turn(run[k - 1])]
  BY <1>5
<1> HIDE DEF run
<1>7. IsRun(run, w, s, MaxPages)
  BY <1>2, <1>6 DEF IsRun
<1>8. \A t, k : k \in 1 .. MaxPages /\ Holds(w, t, c) => Holds(w, StepOf(w, t, k), c)
  BY <1>2, <1>3, CutStep
<1> QED BY <1>1, <1>3, <1>7, <1>8, RunKeeps, MaxPagesAre

(* Truncating or removing a file, whatever fails on the way                 *)
(* (spiffs_object_truncate).                                                *)
LEMMA TruncateObjectKeeps ==
    ASSUME NEW s, Sound(s, FALSE), NEW f \in Descriptors, NEW size, NEW full
    PROVE  Sound(TruncateObject(s, f, size, full), FALSE)
<1> DEFINE g == GcCheck(s, 2 * PageLen)
           h == IF full THEN s ELSE g
           b == CutFrom(h, f, full)
           o == CutOut(b, f, size, full)
           z == StoreCut(o, f, full)
           a == At(z, f, o.cut)
<1>1. TruncateObject(s, f, size, full) \in {s, a}
  BY DEF TruncateObject, CutEnd, CutOut
<1>2. Sound(g, FALSE)
  BY GcCheckKeeps
<1> HIDE DEF g
<1>3. Sound(h, FALSE)
  BY <1>2
<1> HIDE DEF h
<1>4. Sound(b, FALSE)
  BY <1>3, CutFromKeeps
<1> HIDE DEF b
<1>5. Sound(o, FALSE)
  BY <1>4, CutOutKeeps
<1> HIDE DEF o
<1>6. Sound(z, FALSE)
  BY <1>5, StoreCutKeeps
<1> HIDE DEF z
<1>7. Sound(a, FALSE)
  BY <1>6, AtKeeps
<1> HIDE DEF a
<1> QED BY <1>1, <1>7

(* Reading the bytes of a page.                                             *)
LEMMA FetchedKeeps ==
    ASSUME NEW s, NEW c, Sound(s, c), NEW span, NEW offs, NEW n
    PROVE  Sound(Fetched(s, span, offs, n), c)
<1> DEFINE ref == s.work.body[RefOf(span)]
           checked == DataCheck(s, ref)
           bytes == SubSeq(s.flash.page[ref].body, offs + 1, offs + n)
           t == [s EXCEPT !.written = @ + n, !.read = @ \o bytes]
<1>1. Fetched(s, span, offs, n) \in {s, checked, t}
  BY DEF Fetched
<1>2. Sound(checked, c)
  BY DataCheckKeeps
<1> HIDE DEF checked, bytes
<1>3. Sound(t, c)
  <2>1. DOMAIN s = Fields
    BY SoundIs, FieldsAre
  <2>2. /\ DOMAIN t = DOMAIN s /\ t.flash = s.flash /\ t.trail = s.trail /\ t.fs = s.fs
        /\ t.fds = s.fds
    BY <2>1 DEF Fields
  <2> HIDE DEF t
  <2> QED BY <2>2, RegistersSet
<1> HIDE DEF t
<1> QED BY <1>1, <1>2, <1>3

(* One page of a read.                                                      *)
LEMMA ReadPageKeeps ==
    ASSUME NEW s, NEW c, Sound(s, c), NEW f \in Descriptors, NEW offset, NEW len
    PROVE  Sound(ReadPage(s, f, offset, len), c)
<1> DEFINE span == (offset + s.written) \div PageLen
           l == LoadIndex(s, f, IxSpan(span))
           k == Cursor(l, f)
           j == IF s.ixSpan = IxSpan(span) THEN s ELSE k
<1>1. ReadPage(s, f, offset, len) =
         Fetched(j, span, (offset + s.written) % PageLen, Fitting(s, offset, len))
  BY DEF ReadPage
<1>2. Sound(l, c)
  BY LoadIndexKeeps
<1> HIDE DEF l
<1>3. Sound(k, c)
  BY <1>2, CursorKeeps
<1> HIDE DEF k
<1>4. Sound(j, c)
  BY <1>3
<1> HIDE DEF j
<1> QED BY <1>1, <1>4, FetchedKeeps

(* One turn of its loop.                                                    *)
LEMMA ReadStep ==
    ASSUME NEW s, NEW c, Sound(s, c), NEW f \in Descriptors, NEW offset, NEW len
    PROVE  Sound(IF Running(s, len) THEN ReadPage(s, f, offset, len) ELSE s, c)
  BY ReadPageKeeps

ReadOut(s, f, offset, len) ==
    Loop(MaxPages, s, LAMBDA t, k : IF Running(t, len) THEN ReadPage(t, f, offset, len) ELSE t)

(* The loop.                                                                *)
LEMMA ReadOutKeeps ==
    ASSUME NEW s, NEW c, Sound(s, c), NEW f \in Descriptors, NEW offset, NEW len
    PROVE  Sound(ReadOut(s, f, offset, len), c)
<1> DEFINE w == <<"read", f, offset, len>>
           Turn(t) == IF Running(t, len) THEN ReadPage(t, f, offset, len) ELSE t
           run == CHOOSE g : g = [k \in 0 .. MaxPages |-> IF k = 0 THEN s ELSE Turn(g[k - 1])]
<1>1. ReadOut(s, f, offset, len) = run[MaxPages]
  BY DEF Loop, ReadOut
<1>2. \A t, k : StepOf(w, t, k) = Turn(t)
  BY DEF StepOf
<1>3. \A t : Holds(w, t, c) <=> Sound(t, c)
  BY DEF Holds
<1> HIDE DEF w
<1>4. PICK g : IsRun(g, w, s, MaxPages)
  BY RunExists, MaxPagesAre
<1>5. g = [k \in 0 .. MaxPages |-> IF k = 0 THEN s ELSE Turn(g[k - 1])]
  BY <1>2, <1>4 DEF IsRun
<1>6. run = [k \in 0 .. MaxPages |-> IF k = 0 THEN s ELSE Turn(run[k - 1])]
  BY <1>5
<1> HIDE DEF run
<1>7. IsRun(run, w, s, MaxPages)
  BY <1>2, <1>6 DEF IsRun
<1>8. \A t, k : k \in 1 .. MaxPages /\ Holds(w, t, c) => Holds(w, StepOf(w, t, k), c)
  BY <1>2, <1>3, ReadStep
<1> QED BY <1>1, <1>3, <1>7, <1>8, RunKeeps, MaxPagesAre

(* Reading a file writes nothing (spiffs_object_read).                      *)
LEMMA ReadObjectKeeps ==
    ASSUME NEW s, NEW c, Sound(s, c), NEW f \in Descriptors, NEW offset, NEW len
    PROVE  Sound(ReadObject(s, f, offset, len), c)
<1> DEFINE b == Began(s, f)
           t == [b EXCEPT !.read = <<>>]
<1>1. ReadObject(s, f, offset, len) = ReadOut(t, f, offset, len)
  BY DEF ReadObject, ReadOut
<1>2. Sound(b, c)
  BY BeganKeeps
<1> HIDE DEF b
<1>3. Sound(t, c)
  <2>1. DOMAIN b = Fields
    BY <1>2, SoundIs, FieldsAre
  <2>2. /\ DOMAIN t = DOMAIN b /\ t.flash = b.flash /\ t.trail = b.trail /\ t.fs = b.fs
        /\ t.fds = b.fds
    BY <2>1 DEF Fields
  <2> HIDE DEF t
  <2> QED BY <1>2, <2>2, RegistersSet
<1> HIDE DEF t
<1> QED BY <1>1, <1>3, ReadOutKeeps

-----------------------------------------------------------------------------
(* The calls.                                                              *)

(* The header a search finds is an entry of its object.                    *)
LEMMA FindByNameKeeps ==
    ASSUME NEW s, NEW c, Sound(s, c), NEW name
    PROVE  LET t == FindByName(s, name)
           IN /\ Sound(t, c) /\ t.flash = s.flash
              /\ Ok(t) => t.flash.lu[t.pix] \in Int
<1> DEFINE n == Blocks * Entries
           start == CASE s.fs.cursor.entry >= Entries -> ((s.fs.cursor.bix + 1) % Blocks) * Entries
                      [] s.fs.cursor.entry < 0 -> s.fs.cursor.bix * Entries
                      [] OTHER -> s.fs.cursor.bix * Entries + s.fs.cursor.entry
           at(k) == 1 + ((start + k) % n)
           hits == {k \in 0 .. n - 1 : IsNamed(s.flash, at(k), name)}
           hit == CHOOSE k \in hits : \A j \in hits : k <= j
           pix == IF hits = {} THEN 0 ELSE at(hit)
           t == [s EXCEPT !.pix = pix, !.fs.cursor = CursorAt(pix)]
<1>1. FindByName(s, name) = IF pix = 0 THEN Fail(s, "NOT_FOUND") ELSE t
  BY DEF FindByName, ScanFrom
<1>2. hits \in SUBSET Nat
  BY PagesAre
<1>3. ASSUME hits # {} PROVE hit \in hits
  <2> HIDE DEF hits
  <2> QED BY <1>2, <1>3, FirstOf
<1>4. \A k \in hits : IsNamed(s.flash, at(k), name)
  OBVIOUS
<1> HIDE DEF hits, hit, at, start
<1>5. pix # 0 => IsIndex(s.flash.lu[pix])
  BY <1>3, <1>4 DEF IsNamed
<1> HIDE DEF pix
<1>6. pix # 0 => s.flash.lu[pix] \in Int
  BY <1>5, FoundIds
<1>7. DOMAIN s = Fields /\ DOMAIN s.fs = {"mounted", "cleaning", "freeBlocks", "allocated",
                                          "deleted", "maxErase", "freeCursor", "cursor"}
  BY SoundIs, FieldsAre
<1>8. Sound(t, c) /\ t.flash = s.flash /\ t.pix = pix
  <2>1. /\ DOMAIN t = DOMAIN s /\ t.flash = s.flash /\ t.trail = s.trail
        /\ DOMAIN t.fs = DOMAIN s.fs /\ t.fs.maxErase = s.fs.maxErase
        /\ t.fs.cleaning = s.fs.cleaning /\ t.fs.freeCursor = s.fs.freeCursor /\ t.fds = s.fds
        /\ t.pix = pix /\ t.fs.allocated = s.fs.allocated
        /\ t.fs.deleted = s.fs.deleted
    BY <1>7 DEF Fields
  <2> HIDE DEF t
  <2> QED BY <2>1, UncountedSet
<1> HIDE DEF t
<1>9. LET u == Fail(s, "NOT_FOUND") IN Sound(u, c) /\ u.flash = s.flash /\ ~Ok(u)
  BY <1>7, FailKeeps DEF Fail, Ok, Fields
<1> QED BY <1>1, <1>6, <1>8, <1>9

(* There are more object ids than pages: one is free.                      *)
LEMMA FreeObjectIdIs ==
    ASSUME NEW fl
    PROVE  FreeObjectId(fl) \in Int
<1> DEFINE n == Blocks * Entries
           live == Live(fl, Pages)
           taken == {ObjectOf(fl.lu[p]) : p \in live}
           f == [p \in live |-> ObjectOf(fl.lu[p])]
           out == {m \in 1 .. n + 1 : m \notin taken}
<1>1. n \in Nat /\ IsFiniteSet(1 .. n) /\ Cardinality(1 .. n) = n
  <2>1. n \in Nat /\ 1 \in Int /\ n \in Int
    BY PagesAre
  <2> HIDE DEF n
  <2> QED BY <2>1, FS_Interval
<1>2. live \in SUBSET (1 .. n)
  BY DEF Live, Pages
<1>3. IsFiniteSet(live) /\ Cardinality(live) <= n /\ Cardinality(live) \in Nat
  <2> HIDE DEF live, n
  <2> QED BY <1>1, <1>2, FS_Subset, FS_CardinalityType
<1>4. f \in Surjection(live, taken)
  <2> HIDE DEF live
  <2> QED BY DEF Surjection
<1>5. IsFiniteSet(taken) /\ Cardinality(taken) <= n /\ Cardinality(taken) \in Nat
  <2> HIDE DEF live, taken, f, n
  <2>1. IsFiniteSet(taken) /\ Cardinality(taken) <= Cardinality(live)
    BY <1>3, <1>4, FS_Surjection
  <2> QED BY <1>1, <1>3, <2>1, FS_CardinalityType
<1>6. out # {}
  <2> SUFFICES ASSUME out = {} PROVE FALSE
    OBVIOUS
  <2>1. 1 .. n + 1 \in SUBSET taken
    OBVIOUS
  <2>2. n + 1 \in Int /\ 1 \in Int /\ ~ 1 > n + 1
    BY <1>1
  <2>3. Cardinality(1 .. n + 1) = n + 1
    <3> DEFINE m == n + 1
    <3> HIDE DEF m
    <3>1. Cardinality(1 .. m) = IF 1 > m THEN 0 ELSE m - 1 + 1
      BY <2>2, FS_Interval DEF m
    <3> QED BY <1>1, <2>2, <3>1 DEF m
  <2>4. Cardinality(1 .. n + 1) <= Cardinality(taken)
    BY <1>5, <2>1, FS_Subset
  <2> HIDE DEF n, taken
  <2> QED BY <1>1, <1>5, <2>3, <2>4
<1>7. out \in SUBSET Nat
  OBVIOUS
<1>8. PICK m \in out : \A j \in out : m <= j
  <2> HIDE DEF out
  <2> QED BY <1>6, <1>7, FirstOf
<1>9. m \in 1 .. n + 1 /\ m \notin taken /\ \A j \in 1 .. m - 1 : j \in taken
  <2>1. m \in 1 .. n + 1 /\ m \notin taken /\ \A j \in 1 .. n + 1 : j \notin taken => m <= j
    BY <1>8
  <2>2. \A j \in 1 .. m - 1 : j \in 1 .. n + 1 /\ ~ m <= j
    <3> HIDE DEF n
    <3> QED BY <1>1, <2>1
  <2> QED BY <2>1, <2>2
<1>10. FreeObjectId(fl) =
          CHOOSE k \in 1 .. n + 1 : k \notin taken /\ \A j \in 1 .. k - 1 : j \in taken
  BY DEF FreeObjectId
<1> HIDE DEF n, taken
<1>11. FreeObjectId(fl) \in 1 .. n + 1
  BY <1>9, <1>10
<1> QED BY <1>1, <1>11

(* Taking a descriptor may move the search cursor, never the flash.         *)
LEMMA TakeFdKeeps ==
    ASSUME NEW s, NEW c, Sound(s, c), NEW f \in Descriptors, NEW name
    PROVE  Sound(TakeFd(s, f, name), c) /\ TakeFd(s, f, name).flash = s.flash
           /\ TakeFd(s, f, name).res = s.res
<1> DEFINE fd == s.fds[f]
           again == name # Blank /\ fd.used /\ fd.name = name
           named == IF name = Blank THEN fd ELSE [fd EXCEPT !.used = TRUE, !.name = name]
           new == [named EXCEPT !.open = TRUE]
           cur == IF again THEN CursorAt(fd.hdr) ELSE s.fs.cursor
           t == [s EXCEPT !.fds[f] = new]
           u == [t EXCEPT !.fs.cursor = cur]
<1>1. DOMAIN s = Fields /\ DOMAIN s.fs = {"mounted", "cleaning", "freeBlocks", "allocated",
                                          "deleted", "maxErase", "freeCursor", "cursor"}
  BY SoundIs, FieldsAre
<1>2. TakeFd(s, f, name) = u
  BY <1>1 DEF TakeFd, Fields
<1>3. DOMAIN new = FdFields /\ new.obj \in Int
  <2>1. DOMAIN fd = FdFields /\ fd.obj \in Int
    BY ObjIs
  <2> HIDE DEF fd
  <2> QED BY <2>1 DEF FdFields
<1> HIDE DEF new, cur
<1>4. Sound(t, c) /\ t.flash = s.flash /\ t.res = s.res
  BY <1>3, DescriptorSet
<1> HIDE DEF t
<1>5. Sound(u, c) /\ u.flash = t.flash /\ u.res = t.res
  <2>1. DOMAIN t = Fields /\ DOMAIN t.fs = {"mounted", "cleaning", "freeBlocks", "allocated",
                                            "deleted", "maxErase", "freeCursor", "cursor"}
    BY <1>4, SoundIs, FieldsAre
  <2>2. /\ DOMAIN u = DOMAIN t /\ u.flash = t.flash /\ u.trail = t.trail
        /\ DOMAIN u.fs = DOMAIN t.fs /\ u.fs.maxErase = t.fs.maxErase
        /\ u.fs.cleaning = t.fs.cleaning /\ u.fs.freeCursor = t.fs.freeCursor /\ u.fds = t.fds
        /\ u.res = t.res /\ u.fs.allocated = t.fs.allocated
        /\ u.fs.deleted = t.fs.deleted
    BY <2>1 DEF Fields
  <2> HIDE DEF u
  <2> QED BY <1>4, <2>2, UncountedSet
<1> HIDE DEF u
<1> QED BY <1>2, <1>4, <1>5

(* Returning it.                                                            *)
LEMMA ReturnFdKeeps ==
    ASSUME NEW s, NEW c, Sound(s, c), NEW f \in Descriptors
    PROVE  Sound(ReturnFd(s, f), c)
<1> DEFINE fd == [s.fds[f] EXCEPT !.open = FALSE]
<1>1. ReturnFd(s, f) = [s EXCEPT !.fds[f] = fd]
  BY DEF ReturnFd
<1>2. DOMAIN fd = FdFields /\ fd.obj \in Int
  BY ObjIs DEF FdFields
<1> HIDE DEF fd
<1> QED BY <1>1, <1>2, DescriptorSet

(* Returning it on failure.                                                 *)
LEMMA OrReturnKeeps ==
    ASSUME NEW s, NEW c, Sound(s, c), NEW f \in Descriptors
    PROVE  Sound(OrReturn(s, f), c)
  BY ReturnFdKeeps DEF OrReturn

(* Setting the offset of a descriptor.                                      *)
LEMMA OffSet ==
    ASSUME NEW s, NEW c, Sound(s, c), NEW f \in Descriptors, NEW off
    PROVE  Sound([s EXCEPT !.fds[f].off = off], c)
<1> DEFINE fd == [s.fds[f] EXCEPT !.off = off]
<1>1. [s EXCEPT !.fds[f].off = off] = [s EXCEPT !.fds[f] = fd]
  OBVIOUS
<1>2. DOMAIN fd = FdFields /\ fd.obj \in Int
  BY ObjIs DEF FdFields
<1> HIDE DEF fd
<1> QED BY <1>1, <1>2, DescriptorSet

(* Advancing it.                                                            *)
LEMMA AdvancedKeeps ==
    ASSUME NEW s, NEW c, Sound(s, c), NEW f \in Descriptors, NEW n
    PROVE  Sound(Advanced(s, f, n), c)
  BY OffSet DEF Advanced

(* spiffs_hydro_write: modify, then append.                                 *)
LEMMA HydroWriteKeeps ==
    ASSUME NEW s, Sound(s, FALSE), NEW f \in Descriptors, NEW offset, NEW data
    PROVE  Sound(HydroWrite(s, f, offset, data), FALSE)
<1> DEFINE size == s.fds[f].size
           over == IF size = Blank \/ offset >= size THEN 0
                   ELSE IF size - offset < Len(data) THEN size - offset ELSE Len(data)
           first == SubSeq(data, 1, over)
           rest == SubSeq(data, over + 1, Len(data))
           w == Overwritten(s, f, offset, first)
<1>1. HydroWrite(s, f, offset, data) = Extended(w, f, offset + over, rest)
  BY DEF HydroWrite
<1> HIDE DEF first, rest, over
<1>2. Sound(w, FALSE)
  BY ModifyObjectKeeps DEF Overwritten
<1> HIDE DEF w
<1>3. Sound(Extended(w, f, offset + over, rest), FALSE)
  BY <1>2, AppendObjectKeeps DEF Extended
<1> QED BY <1>1, <1>3

(* Renaming in the descriptors that remember the old name.                  *)
LEMMA RehashedKeeps ==
    ASSUME NEW s, NEW c, Sound(s, c), NEW old, NEW new
    PROVE  Sound(Rehashed(s, old, new), c)
<1> DEFINE d == [g \in Descriptors |->
                   IF s.fds[g].used /\ s.fds[g].name = old THEN [s.fds[g] EXCEPT !.name = new]
                   ELSE s.fds[g]]
<1>1. Rehashed(s, old, new) = IF ~Ok(s) THEN s ELSE [s EXCEPT !.fds = d]
  BY DEF Rehashed
<1>2. \A g \in Descriptors : s.fds[g].obj \in Int /\ DOMAIN s.fds[g] = FdFields
  BY ObjIs
<1>3. DOMAIN d = Descriptors
      /\ \A g \in Descriptors : d[g].obj \in Int /\ DOMAIN d[g] = FdFields
  BY <1>2 DEF FdFields
<1> HIDE DEF d
<1>4. Numbered(d)
  BY <1>3 DEF Numbered, ClosedFd, FdFields
<1> QED BY <1>1, <1>4, DescriptorsSet

(* Rewriting the header of a file that a search found.                      *)
LEMMA ReheadKeeps ==
    ASSUME NEW s, NEW c, Sound(s, c), NEW f \in Descriptors, NEW pix, NEW name,
           Ok(s) => s.flash.lu[pix] \in Int
    PROVE  Sound(Rehead(s, f, pix, name), c)
<1> DEFINE t == TakeFd(s, f, Blank)
           o == OpenByPage(t, f, pix, {})
<1>1. Rehead(s, f, pix, name) = UpdateHeader(o, f, o.fds[f].obj, pix, FALSE, name, 0)
  BY DEF Rehead
<1>2. Sound(t, c) /\ t.flash = s.flash /\ t.res = s.res
  BY TakeFdKeeps
<1> HIDE DEF t
<1>3. Ok(t) => t.flash.lu[pix] \in Int
  BY <1>2 DEF Ok
<1>4. Sound(o, c)
  BY <1>2, <1>3, OpenByPageKeeps
<1> HIDE DEF o
<1>5. o.fds[f].obj \in Int
  BY <1>4, ObjIs
<1> QED BY <1>1, <1>4, <1>5, UpdateHeaderKeeps

-----------------------------------------------------------------------------
(* The mount scan.                                                         *)

(* On a flash the power may leave, at most one erasure is unfinished.       *)
LEMMA UnfinishedIs ==
    ASSUME NEW fl, Recoverable(fl)
    PROVE  /\ Cardinality(Unfinished(fl)) <= 1
           /\ \A b \in Unfinished(fl) : OnlyOpen(fl, b)
<1>1. \A a, b \in Unfinished(fl) : a = b
  BY DEF Unfinished, Recoverable, Bixes
<1>2. Unfinished(fl) = {} => Cardinality(Unfinished(fl)) = 0
  <2> HIDE DEF Unfinished
  <2> QED BY FS_EmptySet
<1>3. ASSUME Unfinished(fl) # {} PROVE Cardinality(Unfinished(fl)) = 1
  <2>1. PICK b : b \in Unfinished(fl)
    BY <1>3
  <2>2. Unfinished(fl) = {b}
    BY <1>1, <2>1
  <2>3. Cardinality({b}) = 1
    BY FS_Singleton
  <2> QED BY <1>3, <2>2, <2>3
<1>4. Cardinality(Unfinished(fl)) <= 1
  BY <1>2, <1>3
<1>5. \A b \in Unfinished(fl) : OnlyOpen(fl, b)
  BY <1>1 DEF OnlyOpen, Unfinished, Bixes
<1> QED BY <1>4, <1>5

(* Of a bounded set of naturals one is the last.                           *)
LEMMA LastOf ==
    ASSUME NEW S \in SUBSET Nat, S # {}, NEW m \in Nat, \A x \in S : x <= m
    PROVE  \E x \in S : \A y \in S : y <= x
<1> DEFINE D == {m - x : x \in S}
<1>1. D \in SUBSET Nat /\ D # {}
  <2>1. \A x \in S : m - x \in Nat
    OBVIOUS
  <2> QED BY <2>1
<1> HIDE DEF D
<1>2. PICK d \in D : \A e \in D : d <= e
  BY <1>1, FirstOf
<1>3. PICK x \in S : d = m - x
  BY <1>2 DEF D
<1>4. ASSUME NEW y \in S PROVE y <= x
  <2>1. m - y \in D
    BY DEF D
  <2>2. d <= m - y
    BY <1>2, <2>1
  <2> QED BY <1>3, <2>2
<1> QED BY <1>4

(* The erase counts on a flash are bounded.                                 *)
LEMMA CountsBounded ==
    ASSUME NEW fl, Recoverable(fl)
    PROVE  \E m \in Nat : \A b \in Bixes : fl.count[b] \in Nat => fl.count[b] <= m
<1> DEFINE Bound(k, m) == \A b \in 0 .. k - 1 :
                            b \in Bixes /\ fl.count[b] \in Nat => fl.count[b] <= m
           S == {k \in Nat : \E m \in Nat : Bound(k, m)}
<1>1. 0 \in S
  OBVIOUS
<1>2. ASSUME NEW k \in 1 .. Blocks, k - 1 \in S PROVE k \in S
  <2>1. PICK m \in Nat : Bound(k - 1, m)
    BY <1>2
  <2>2. k \in Nat
    BY GeometryAssumption
  <2> DEFINE n == IF fl.count[k - 1] \in Nat /\ fl.count[k - 1] > m THEN fl.count[k - 1] ELSE m
  <2>3. n \in Nat /\ m <= n /\ (fl.count[k - 1] \in Nat => fl.count[k - 1] <= n)
    BY <2>1
  <2> HIDE DEF n
  <2>4. ASSUME NEW b \in 0 .. k - 1, b \in Bixes /\ fl.count[b] \in Nat
        PROVE  fl.count[b] <= n
    <3>1. CASE b = k - 1
      BY <2>3, <2>4, <3>1
    <3>2. CASE b # k - 1
      <4>1. b \in 0 .. (k - 1) - 1
        BY <2>2, <3>2
      <4>2. fl.count[b] <= m
        BY <2>1, <2>4, <4>1
      <4> QED BY <2>3, <2>4, <4>2
    <3> QED BY <3>1, <3>2
  <2>5. Bound(k, n)
    BY <2>4
  <2> QED BY <2>2, <2>3, <2>5
<1> HIDE DEF S
<1>3. Blocks \in S
  BY <1>1, <1>2, Counting, GeometryAssumption
<1>4. PICK m \in Nat : Bound(Blocks, m)
  BY <1>3 DEF S
<1>5. \A b \in Bixes : b \in 0 .. Blocks - 1
  BY DEF Bixes
<1> QED BY <1>4, <1>5

(* The mount scan counts every taken page once.                             *)
LEMMA ScannedIs ==
    ASSUME NEW fl
    PROVE  LET live == Cardinality(Live(fl, Pages))
               dead == Cardinality(Dead(fl, Pages))
           IN live \in Int /\ dead \in Int /\ live + dead = Cardinality(Taken(fl))
<1> DEFINE L == Live(fl, Pages)
           D == Dead(fl, Pages)
<1>1. Taken(fl) = L \cup D /\ L \cap D = {}
  BY CellAssumption DEF Live, Dead, Free, Taken, Deleted
<1> HIDE DEF L, D
<1>2. IsFiniteSet(L) /\ IsFiniteSet(D)
  BY <1>1, TakenIs, FS_Subset
<1>3. Cardinality(L) \in Nat /\ Cardinality(D) \in Nat
  BY <1>2, FS_CardinalityType
<1>4. Cardinality(L \cup D) = Cardinality(L) + Cardinality(D)
  BY <1>1, <1>2, <1>3, FS_Union, FS_EmptySet
<1> QED BY <1>1, <1>3, <1>4 DEF L, D

(* The mount scan of a flash that power loss may leave finds the file      *)
(* system, and completes it.                                               *)
LEMMA LuScanKeeps ==
    ASSUME NEW s, Shaped(s, FALSE), Recoverable(s.flash)
    PROVE  Sound(LuScan(s), FALSE) /\ LuScan(s).res = s.res
<1> DEFINE counts == {s.flash.count[b] : b \in 0 .. Blocks - 1} \ {Blank}
           most == CHOOSE x \in counts : \A y \in counts : y <= x
           final == IF counts = {} THEN 1 ELSE 1 + most
           ready == [s EXCEPT !.fs.maxErase = final]
           r == Repair(ready)
           t == [r EXCEPT !.fs.freeBlocks = Cardinality(FreeBlocksOf(r.flash)),
                          !.fs.allocated = Cardinality(Live(r.flash, Pages)),
                          !.fs.deleted = Cardinality(Dead(r.flash, Pages))]
<1>1. LuScan(s) = IF NoFileSystem(s.flash) THEN Fail(s, "NOT_A_FS") ELSE t
  BY Zenon DEF LuScan
<1>2. Cardinality(Unfinished(s.flash)) <= 1 /\ \A b \in Unfinished(s.flash) : OnlyOpen(s.flash, b)
  BY UnfinishedIs
<1>3. ~NoFileSystem(s.flash)
  <2>1. IsFiniteSet(Unfinished(s.flash))
    <3>1. IsFiniteSet(0 .. Blocks - 1)
      <4>1. 0 \in Int /\ Blocks - 1 \in Int
        BY GeometryAssumption
      <4> QED BY <4>1, FS_Interval
    <3>2. Unfinished(s.flash) \in SUBSET (0 .. Blocks - 1)
      BY DEF Unfinished
    <3> QED BY <3>1, <3>2, FS_Subset
  <2>2. Cardinality(Unfinished(s.flash)) \in Nat
    BY <2>1, FS_CardinalityType
  <2> QED BY <1>2, <2>2 DEF NoFileSystem
<1>4. final \in Nat
  <2>1. s.flash.count \in [Bixes -> Nat \cup {Blank}]
    BY DEF Recoverable
  <2>2. counts \in SUBSET Nat
    BY <2>1 DEF Bixes
  <2>3. PICK m \in Nat : \A b \in Bixes : s.flash.count[b] \in Nat => s.flash.count[b] <= m
    BY CountsBounded
  <2>4. \A x \in counts : x <= m
    BY <2>2, <2>3 DEF Bixes
  <2> HIDE DEF counts
  <2>5. counts # {} => most \in counts
    BY <2>2, <2>4, LastOf
  <2> HIDE DEF most
  <2>6. counts # {} => most \in Nat
    BY <2>2, <2>5
  <2>7. final = IF counts = {} THEN 1 ELSE 1 + most
    OBVIOUS
  <2> QED BY <2>6, <2>7
<1> HIDE DEF final
<1>5. Shaped(ready, FALSE) /\ ready.flash = s.flash /\ ready.res = s.res
  <2>1. DOMAIN s = Fields /\ DOMAIN s.fs = {"mounted", "cleaning", "freeBlocks", "allocated",
                                            "deleted", "maxErase", "freeCursor", "cursor"}
    BY FieldsAre
  <2>2. /\ DOMAIN ready = DOMAIN s /\ ready.flash = s.flash /\ ready.trail = s.trail
        /\ DOMAIN ready.fs = DOMAIN s.fs /\ ready.fs.maxErase = final
        /\ ready.fs.cleaning = s.fs.cleaning /\ ready.fs.freeCursor = s.fs.freeCursor
        /\ ready.fds = s.fds /\ ready.res = s.res
    BY <2>1 DEF Fields
  <2> HIDE DEF ready
  <2>3. Counters(s.fs, FALSE) /\ Numbered(s.fds)
    BY DEF Shaped
  <2>4. Counters(ready.fs, FALSE)
    BY <1>4, <2>2, <2>3 DEF Counters
  <2> QED BY <2>2, <2>3, <2>4, NothingWritten
<1> HIDE DEF ready
<1>6. Solid(r, FALSE) /\ r.res = s.res
  <2>1. CASE Unfinished(s.flash) = {}
    <3>1. r = ready
      BY <1>5, <2>1 DEF Repair
    <3>2. \A b \in Bixes : s.flash.magic[b]
      BY <2>1 DEF Unfinished, Bixes
    <3>3. Complete(s.flash)
      BY <3>2 DEF Complete
    <3> QED BY <1>5, <3>1, <3>3 DEF Solid
  <2>2. CASE Unfinished(s.flash) # {}
    <3> DEFINE b == CHOOSE x \in Unfinished(s.flash) : TRUE
    <3>1. b \in Unfinished(s.flash) /\ r = EraseBlock(ready, b)
      BY <1>5, <2>2 DEF Repair
    <3> HIDE DEF b, r
    <3>2. OnlyOpen(ready.flash, b) /\ Recoverable(ready.flash)
      BY <1>2, <1>5, <3>1
    <3>3. Solid(EraseBlock(ready, b), FALSE) /\ EraseBlock(ready, b).res = ready.res
      BY <1>5, <3>2, EraseBlockKeeps
    <3> QED BY <1>5, <3>1, <3>3
  <2> QED BY <2>1, <2>2
<1> HIDE DEF r
<1>7. Sound(t, FALSE) /\ t.res = r.res
  <2>1. DOMAIN r = Fields /\ DOMAIN r.fs = {"mounted", "cleaning", "freeBlocks", "allocated",
                                            "deleted", "maxErase", "freeCursor", "cursor"}
    BY <1>6, SolidIs, FieldsAre
  <2>2. /\ DOMAIN t = DOMAIN r /\ t.flash = r.flash /\ t.trail = r.trail
        /\ DOMAIN t.fs = DOMAIN r.fs /\ t.fs.maxErase = r.fs.maxErase
        /\ t.fs.cleaning = r.fs.cleaning /\ t.fs.freeCursor = r.fs.freeCursor
        /\ t.fds = r.fds /\ t.res = r.res
        /\ t.fs.allocated = Cardinality(Live(r.flash, Pages))
        /\ t.fs.deleted = Cardinality(Dead(r.flash, Pages))
    BY <2>1 DEF Fields
  <2> HIDE DEF t
  <2>3. Solid(t, FALSE)
    BY <1>6, <2>2, CountersSet
  <2>4. Within(t.fs, t.flash)
    BY <2>2, ScannedIs DEF Within
  <2> QED BY <2>2, <2>3, <2>4 DEF Sound
<1> QED BY <1>1, <1>3, <1>6, <1>7

-----------------------------------------------------------------------------
(* The actions.  Between two calls:                                        *)
Steady ==
    /\ Recoverable(flash)
    /\ fs.mounted => Complete(flash) /\ Within(fs, flash)
    /\ Counters(fs, FALSE)
    /\ Numbered(fds)

(* A call begins without a write, on what the last one left.               *)
LEMMA CallIs ==
    ASSUME Steady
    PROVE  Shaped(Call, FALSE) /\ Call.flash = flash /\ Call.fs = fs /\ Call.fds = fds
           /\ Call.res = "OK"
<1> DEFINE c == Call
<1>1. /\ DOMAIN c = Fields /\ c.flash = flash /\ c.fs = fs /\ c.fds = fds /\ c.trail = <<>>
      /\ c.res = "OK"
  BY DEF Call, Fields
<1> HIDE DEF c
<1>2. c.trail \in Seq({}) /\ \A e \in {} : Recoverable(e)
  BY <1>1
<1>3. \E S : c.trail \in Seq(S) /\ \A e \in S : Recoverable(e)
  BY <1>2
<1>4. Counters(c.fs, FALSE) /\ Numbered(c.fds)
  BY <1>1 DEF Steady
<1>5. Shaped(c, FALSE)
  BY <1>1, <1>3, <1>4 DEF Shaped
<1> QED BY <1>1, <1>5 DEF c

(* A call on a mounted file system begins on a complete flash.              *)
LEMMA CallSound ==
    ASSUME Steady, Ready
    PROVE  Sound(Call, FALSE)
  BY CallIs DEF Steady, Ready, Sound, Solid

(* What a call leaves when it returns.                                     *)
LEMMA SettledKeeps ==
    ASSUME NEW d, Numbered(d)
    PROVE  Numbered([f \in Descriptors |-> Settled(d[f])])
<1> DEFINE e == [f \in Descriptors |-> Settled(d[f])]
<1>1. ASSUME NEW f \in Descriptors
      PROVE  DOMAIN e[f] = DOMAIN ClosedFd /\ e[f].obj \in Int
  <2>1. DOMAIN d[f] = DOMAIN ClosedFd /\ d[f].obj \in Int
    BY DEF Numbered
  <2>2. e[f] = Settled(d[f])
    OBVIOUS
  <2> HIDE DEF e
  <2> QED BY <2>1, <2>2 DEF Settled, ClosedFd
<1>2. DOMAIN e = Descriptors
  OBVIOUS
<1> HIDE DEF e
<1> QED BY <1>1, <1>2 DEF Numbered, e

(* A call ends in this state, whatever it was; or acts: it may lose the power.*)
Ends(s) == \E call : Returned(call, s)
Acts(s) == \E call : Do(call, s)

(* Between calls it is steady when the call returned, whatever its result.  *)
LEMMA ReturnedKeeps ==
    ASSUME NEW s, Sound(s, FALSE), Ends(s)
    PROVE  Steady'
<1>1. /\ Complete(s.flash) /\ Counters(s.fs, FALSE) /\ Numbered(s.fds)
      /\ Within(s.fs, s.flash)
  BY DEF Sound, Solid, Shaped
<1>2. flash' = s.flash /\ fs' = s.fs /\ fds' = [f \in Descriptors |-> Settled(s.fds[f])]
  BY DEF Ends, Returned
<1>3. Numbered([f \in Descriptors |-> Settled(s.fds[f])])
  BY <1>1, SettledKeeps
<1> QED BY <1>1, <1>2, <1>3 DEF Steady, Complete

(* ... and when the power goes.                                            *)
LEMMA FreshIs == Counters(Fresh, FALSE) /\ Fresh.mounted = FALSE /\ Numbered(NoFds)
<1>1. Counters(Fresh, FALSE) /\ Fresh.mounted = FALSE
  BY DEF Counters, Fresh
<1>2. \A f \in Descriptors : NoFds[f] = ClosedFd
  BY DEF NoFds
<1>3. DOMAIN NoFds = Descriptors /\ ClosedFd.obj \in Int
  BY DEF NoFds, ClosedFd
<1> QED BY <1>1, <1>2, <1>3 DEF Numbered

(* And when the power went after any of its writes.                         *)
LEMMA LostKeeps ==
    ASSUME NEW s, Sound(s, FALSE), NEW call, Lost(call, s)
    PROVE  Steady'
<1>1. PICK i \in 1 .. Len(s.trail) : flash' = s.trail[i]
  BY DEF Lost
<1>2. PICK S : s.trail \in Seq(S) /\ \A e \in S : Recoverable(e)
  BY SoundIs DEF Shaped
<1>3. s.trail[i] \in S
  BY <1>1, <1>2
<1>4. fs' = Fresh /\ fds' = NoFds
  BY DEF Lost
<1>5. Recoverable(flash')
  BY <1>1, <1>2, <1>3
<1> QED BY <1>4, <1>5, FreshIs DEF Steady

(* One or the other happens.                                                *)
LEMMA DoKeeps ==
    ASSUME NEW s, Sound(s, FALSE), Acts(s)
    PROVE  Steady'
  BY ReturnedKeeps, LostKeeps DEF Acts, Ends, Do

(* Descriptors that can be taken are descriptors.                           *)
LEMMA TakeableIs ==
    ASSUME NEW name, NEW f \in Takeable(name), f # 0
    PROVE  f \in Descriptors
<1> DEFINE closed == {g \in Descriptors : ~fds[g].open}
           hits == {g \in closed : name # Blank /\ fds[g].name = name}
           unused == {g \in closed : ~fds[g].used}
           first(S) == {g \in S : \A h \in S : g <= h}
           a == first(hits)
           b == first(unused)
<1>1. Takeable(name) = CASE closed = {} -> {0}
                         [] hits # {} -> a
                         [] unused # {} -> b
                         [] OTHER -> closed
  BY DEF Takeable
<1>2. closed \subseteq Descriptors /\ a \subseteq Descriptors /\ b \subseteq Descriptors
  OBVIOUS
<1> HIDE DEF closed, hits, unused, a, b
<1>3. Takeable(name) \in {{0}, a, b, closed}
  BY <1>1
<1> QED BY <1>2, <1>3


(* The actions.                                                            *)
LEMMA CreatKeeps ==
    ASSUME Steady, NEW name, Creat(name)
    PROVE  Steady'
<1>1. Sound(Call, FALSE)
  BY CallSound DEF Creat
<1> DEFINE c == CreateObject(Call, FreeObjectId(flash), name)
<1>2. Sound(c, FALSE)
  BY <1>1, FreeObjectIdIs, CreateObjectKeeps
<1>3. Acts(Fail(Call, "CONFLICTING_NAME")) \/ Acts(c)
  BY DEF Creat, Acts
<1> HIDE DEF c
<1>4. Sound(Fail(Call, "CONFLICTING_NAME"), FALSE)
  BY <1>1, FailKeeps
<1> QED BY <1>2, <1>3, <1>4, DoKeeps

(* Forgetting the failure of a search.                                      *)
LEMMA ResultReset ==
    ASSUME NEW s, NEW c, Sound(s, c)
    PROVE  Sound([s EXCEPT !.res = "OK"], c)
<1> DEFINE t == [s EXCEPT !.res = "OK"]
<1>1. /\ DOMAIN t = DOMAIN s /\ t.flash = s.flash /\ t.trail = s.trail /\ t.fs = s.fs
      /\ t.fds = s.fds
  BY SoundIs, FieldsAre DEF Fields
<1> HIDE DEF t
<1>2. Sound(t, c)
  BY <1>1, RegistersSet
<1> QED BY <1>2 DEF t

(* SPIFFS_open: create, truncate, or fail and return the descriptor.        *)
LEMMA OpenKeeps ==
    ASSUME Steady, NEW f \in Descriptors, NEW name, NEW flags, Open(f, name, flags)
    PROVE  Steady'
<1> DEFINE took == TakeFd(Call, f, name)
           found == FindByName(took, name)
           make == ~Ok(found) /\ "creat" \in flags
           taken == {"creat", "excl"} \subseteq flags
           reset == [found EXCEPT !.res = "OK"]
           made == CreateObject(reset, FreeObjectId(flash), name)
           a == OpenFound(made, f, flags)
           m == IF taken THEN Fail(found, "FILE_EXISTS") ELSE found
           o == OpenFound(m, f, flags)
           b == Emptied(o, f, flags)
           result == IF make THEN a ELSE b
           off == [result EXCEPT !.fds[f].off = 0]
<1>1. Sound(took, FALSE)
  BY CallSound, TakeFdKeeps DEF Open
<1>2. Acts(OrReturn(off, f))
  BY DEF Open, Acts
<1> HIDE DEF took
<1>3. Sound(found, FALSE) /\ (Ok(found) => found.flash.lu[found.pix] \in Int)
  BY <1>1, FindByNameKeeps
<1> HIDE DEF found
<1>4. Sound(a, FALSE)
  <2>1. Sound(reset, FALSE)
    BY <1>3, ResultReset
  <2> HIDE DEF reset
  <2>2. Sound(made, FALSE) /\ (Ok(made) => made.flash.lu[made.pix] \in Int)
    BY <2>1, FreeObjectIdIs, CreateObjectKeeps
  <2> HIDE DEF made
  <2> QED BY <2>2, OpenByPageKeeps DEF OpenFound
<1>5. Sound(b, FALSE)
  <2>1. CASE taken
    <3>1. m = Fail(found, "FILE_EXISTS")
      BY <2>1
    <3> HIDE DEF m, taken
    <3>2. Sound(m, FALSE)
      BY <1>3, <3>1, FailKeeps
    <3>3. ~Ok(m)
      <4>1. DOMAIN found = Fields
        BY <1>3, SoundIs, FieldsAre
      <4>2. m.res = "FILE_EXISTS"
        BY <3>1, <4>1 DEF Fail, Fields
      <4> QED BY <4>2 DEF Ok
    <3>4. Sound(o, FALSE)
      BY <3>2, <3>3, OpenByPageKeeps DEF OpenFound
    <3> HIDE DEF o
    <3> QED BY <3>4, TruncateObjectKeeps DEF Emptied
  <2>2. CASE ~taken
    <3>1. m = found
      BY <2>2
    <3> HIDE DEF m, taken
    <3>2. Sound(o, FALSE)
      BY <1>3, <3>1, OpenByPageKeeps DEF OpenFound
    <3> HIDE DEF o
    <3> QED BY <3>2, TruncateObjectKeeps DEF Emptied
  <2> QED BY <2>1, <2>2
<1> HIDE DEF a, b, make
<1>6. Sound(result, FALSE)
  BY <1>4, <1>5
<1> HIDE DEF result
<1>7. Sound(off, FALSE)
  BY <1>6, OffSet
<1> HIDE DEF off
<1>8. Sound(OrReturn(off, f), FALSE)
  BY <1>7, OrReturnKeeps
<1> QED BY <1>2, <1>8, DoKeeps

(* SPIFFS_close.                                                            *)
LEMMA CloseKeeps ==
    ASSUME Steady, NEW f \in Descriptors, Close(f)
    PROVE  Steady'
<1>1. Sound(ReturnFd(Call, f), FALSE)
  BY CallSound, ReturnFdKeeps DEF Close
<1> QED BY <1>1, ReturnedKeeps DEF Close, Ends

(* SPIFFS_write.                                                            *)
LEMMA WriteKeeps ==
    ASSUME Steady, NEW f \in Descriptors, NEW data, Write(f, data)
    PROVE  Steady'
<1> DEFINE fd == fds[f]
           offset == IF "append" \in fd.flags THEN SizeOf(fd.size) ELSE fd.off
           started == [Call EXCEPT !.fds[f].off = offset]
           w == HydroWrite(started, f, offset, data)
           a == Advanced(w, f, Len(data))
<1>1. Sound(Call, FALSE)
  BY CallSound DEF Write
<1>2. Acts(Fail(Call, "NOT_WRITABLE")) \/ Acts(a)
  BY DEF Write, Acts
<1> HIDE DEF offset
<1>3. Sound(started, FALSE)
  BY <1>1, OffSet
<1> HIDE DEF started
<1>4. Sound(w, FALSE)
  BY <1>3, HydroWriteKeeps
<1> HIDE DEF w
<1>5. Sound(a, FALSE)
  BY <1>4, AdvancedKeeps
<1> HIDE DEF a
<1>6. Sound(Fail(Call, "NOT_WRITABLE"), FALSE)
  BY <1>1, FailKeeps
<1> QED BY <1>2, <1>5, <1>6, DoKeeps

(* SPIFFS_read.                                                             *)
LEMMA ReadKeeps ==
    ASSUME Steady, NEW f \in Descriptors, Read(f)
    PROVE  Steady'
<1> DEFINE fd == fds[f]
           avail == SizeOf(fd.size) - fd.off
           r == ReadObject(Call, f, fd.off, avail)
           a == Advanced(r, f, avail)
<1>1. Sound(Call, FALSE)
  BY CallSound DEF Read
<1>2. Ends(a)
  BY DEF Read, Ends
<1> HIDE DEF avail
<1>3. Sound(r, FALSE)
  BY <1>1, ReadObjectKeeps
<1> HIDE DEF r
<1>4. Sound(a, FALSE)
  BY <1>3, AdvancedKeeps
<1> HIDE DEF a
<1> QED BY <1>2, <1>4, ReturnedKeeps

(* Setting the index page a descriptor has cached.                          *)
LEMMA SpanSet ==
    ASSUME NEW s, NEW c, Sound(s, c), NEW f \in Descriptors, NEW span, NEW pix
    PROVE  Sound([s EXCEPT !.fds[f].cspan = span, !.fds[f].cpix = pix], c)
<1> DEFINE fd == [s.fds[f] EXCEPT !.cspan = span, !.cpix = pix]
<1>1. DOMAIN s = Fields /\ DOMAIN s.fds = Descriptors
  BY SoundIs, FieldsAre
<1>2. [s EXCEPT !.fds[f].cspan = span, !.fds[f].cpix = pix] = [s EXCEPT !.fds[f] = fd]
  BY <1>1 DEF Fields
<1>3. DOMAIN fd = FdFields /\ fd.obj \in Int
  BY ObjIs DEF FdFields
<1> HIDE DEF fd
<1> QED BY <1>2, <1>3, DescriptorSet

(* SPIFFS_lseek.                                                            *)
LEMMA SeekKeeps ==
    ASSUME Steady, NEW f \in Descriptors, NEW to, Seek(f, to)
    PROVE  Steady'
<1> DEFINE fd == fds[f]
           span == IxSpan(to \div PageLen)
           found == FindIdAndSpan(Call, Index(fd.obj), span)
           at == [found EXCEPT !.fds[f].cspan = span, !.fds[f].cpix = found.pix]
           moved == CASE fd.cspan = span -> Call [] Ok(found) -> at [] OTHER -> found
           end == [Call EXCEPT !.fds[f].off = SizeOf(fd.size)]
           sought == [moved EXCEPT !.fds[f].off = to]
<1>1. Sound(Call, FALSE)
  BY CallSound DEF Seek
<1>2. Ends(end) \/ Ends(sought) \/ Ends(moved)
  BY DEF Seek, Ends
<1>3. Sound(end, FALSE)
  BY <1>1, OffSet
<1> HIDE DEF end, span
<1>4. Sound(found, FALSE)
  BY <1>1, FindIdAndSpanKeeps
<1> HIDE DEF found
<1>5. Sound(at, FALSE)
  BY <1>4, SpanSet
<1> HIDE DEF at
<1>6. moved \in {Call, at, found}
  OBVIOUS
<1> HIDE DEF moved
<1>7. Sound(moved, FALSE)
  BY <1>1, <1>4, <1>5, <1>6
<1>8. Sound(sought, FALSE)
  BY <1>7, OffSet
<1> HIDE DEF sought
<1> QED BY <1>2, <1>3, <1>7, <1>8, ReturnedKeeps

(* SPIFFS_remove.                                                           *)
LEMMA RemoveKeeps ==
    ASSUME Steady, NEW f \in Descriptors, NEW name, Remove(f, name)
    PROVE  Steady'
<1> DEFINE took == TakeFd(Call, f, Blank)
           found == FindByName(took, name)
           o == OpenFound(found, f, {})
           t == TruncateObject(o, f, 0, TRUE)
           r == OrReturn(t, f)
<1>1. Sound(took, FALSE)
  BY CallSound, TakeFdKeeps DEF Remove
<1>2. Acts(r)
  BY DEF Remove, Acts
<1> HIDE DEF took
<1>3. Sound(found, FALSE) /\ (Ok(found) => found.flash.lu[found.pix] \in Int)
  BY <1>1, FindByNameKeeps
<1> HIDE DEF found
<1>4. Sound(o, FALSE)
  BY <1>3, OpenByPageKeeps DEF OpenFound
<1> HIDE DEF o
<1>5. Sound(t, FALSE)
  BY <1>4, TruncateObjectKeeps
<1> HIDE DEF t
<1>6. Sound(r, FALSE)
  BY <1>5, OrReturnKeeps
<1> HIDE DEF r
<1> QED BY <1>2, <1>6, DoKeeps

(* SPIFFS_fremove.                                                          *)
LEMMA FRemoveKeeps ==
    ASSUME Steady, NEW f \in Descriptors, FRemove(f)
    PROVE  Steady'
<1> DEFINE t == TruncateObject(Call, f, 0, TRUE)
<1>1. Sound(Call, FALSE)
  BY CallSound DEF FRemove
<1>2. Acts(t) \/ Acts(Fail(Call, "NOT_WRITABLE"))
  BY DEF FRemove, Acts
<1>3. Sound(t, FALSE)
  BY <1>1, TruncateObjectKeeps
<1> HIDE DEF t
<1>4. Sound(Fail(Call, "NOT_WRITABLE"), FALSE)
  BY <1>1, FailKeeps
<1> QED BY <1>2, <1>3, <1>4, DoKeeps

(* SPIFFS_rename, with or without a descriptor left to rename with.         *)
LEMMA RenameKeeps ==
    ASSUME Steady, NEW f \in Takeable(Blank), NEW old, NEW new, Rename(f, old, new)
    PROVE  Steady'
<1> DEFINE first == FindByName(Call, old)
           second == FindByName(first, new)
           conflict == Fail(second, "CONFLICTING_NAME")
           none == Fail(second, "OUT_OF_FILE_DESCS")
           reset == [second EXCEPT !.res = "OK"]
           head == Rehead(reset, f, first.pix, new)
           hash == Rehashed(head, old, new)
           done == ReturnFd(hash, f)
           s == CASE ~Ok(first) -> first [] Ok(second) -> conflict [] f = 0 -> none [] OTHER -> done
<1>1. Sound(Call, FALSE)
  BY CallSound DEF Rename
<1>2. Acts(s)
  BY DEF Rename, Acts
<1>3. Sound(first, FALSE) /\ (Ok(first) => first.flash.lu[first.pix] \in Int)
  BY <1>1, FindByNameKeeps
<1> HIDE DEF first
<1>4. Sound(second, FALSE) /\ second.flash = first.flash
  BY <1>3, FindByNameKeeps
<1> HIDE DEF second
<1>5. Sound(conflict, FALSE) /\ Sound(none, FALSE)
  BY <1>4, FailKeeps
<1> HIDE DEF conflict, none
<1>6. ASSUME Ok(first), f # 0 PROVE Sound(done, FALSE)
  <2>1. f \in Descriptors
    BY <1>6, TakeableIs
  <2>2. Sound(reset, FALSE)
    BY <1>4, ResultReset
  <2>3. reset.flash = second.flash
    OBVIOUS
  <2> HIDE DEF reset
  <2>4. reset.flash.lu[first.pix] \in Int
    BY <1>3, <1>4, <1>6, <2>3
  <2>5. Sound(head, FALSE)
    BY <2>1, <2>2, <2>4, ReheadKeeps
  <2> HIDE DEF head
  <2>6. Sound(hash, FALSE)
    BY <2>5, RehashedKeeps
  <2> HIDE DEF hash
  <2> QED BY <2>1, <2>6, ReturnFdKeeps
<1> HIDE DEF done
<1>7. \/ s \in {first, conflict, none}
      \/ s = done /\ Ok(first) /\ f # 0
  OBVIOUS
<1> HIDE DEF s
<1>8. Sound(s, FALSE)
  BY <1>3, <1>5, <1>6, <1>7
<1> QED BY <1>2, <1>8, DoKeeps

(* SPIFFS_update_meta.                                                      *)
LEMMA UpdateMetaKeeps ==
    ASSUME Steady, NEW f \in Takeable(Blank), NEW name, UpdateMeta(f, name)
    PROVE  Steady'
<1> DEFINE found == FindByName(Call, name)
           none == Fail(found, "OUT_OF_FILE_DESCS")
           head == Rehead(found, f, found.pix, Blank)
           done == ReturnFd(head, f)
           s == CASE ~Ok(found) -> found [] f = 0 -> none [] OTHER -> done
<1>1. Sound(Call, FALSE)
  BY CallSound DEF UpdateMeta
<1>2. Acts(s)
  BY DEF UpdateMeta, Acts
<1>3. Sound(found, FALSE) /\ (Ok(found) => found.flash.lu[found.pix] \in Int)
  BY <1>1, FindByNameKeeps
<1> HIDE DEF found
<1>4. Sound(none, FALSE)
  BY <1>3, FailKeeps
<1> HIDE DEF none
<1>5. ASSUME f # 0 PROVE Sound(done, FALSE)
  <2>1. f \in Descriptors
    BY <1>5, TakeableIs
  <2>2. Sound(head, FALSE)
    BY <1>3, <2>1, ReheadKeeps
  <2> HIDE DEF head
  <2> QED BY <2>1, <2>2, ReturnFdKeeps
<1> HIDE DEF done
<1>6. s \in {found, none} \/ (s = done /\ f # 0)
  OBVIOUS
<1> HIDE DEF s
<1>7. Sound(s, FALSE)
  BY <1>3, <1>4, <1>5, <1>6
<1> QED BY <1>2, <1>7, DoKeeps

(* SPIFFS_gc_quick and SPIFFS_gc.                                           *)
LEMMA CollectorKeeps ==
    ASSUME Steady, NEW n, QuickGc(n) \/ Gc(n)
    PROVE  Steady'
<1>1. Sound(Call, FALSE)
  BY CallSound DEF QuickGc, Gc
<1>2. Sound(GcQuick(Call, n), FALSE) /\ Sound(GcCheck(Call, n), FALSE)
  BY <1>1, GcQuickKeeps, GcCheckKeeps
<1> QED BY <1>2, DoKeeps DEF QuickGc, Gc, Acts

(* Mounting always finds the file system, so that spiffs_mount never       *)
(* formats.                                                                *)
LEMMA MountingIs ==
    ASSUME Steady
    PROVE  Sound(Mounting, FALSE) /\ Ok(Mounting)
<1> DEFINE s == [Call EXCEPT !.fs = Fresh, !.fds = NoFds]
<1>1. Shaped(Call, FALSE) /\ Recoverable(Call.flash) /\ Call.res = "OK" /\ DOMAIN Call = Fields
  BY CallIs, FieldsAre DEF Steady
<1>2. /\ DOMAIN s = DOMAIN Call /\ s.flash = Call.flash /\ s.trail = Call.trail
      /\ s.fs = Fresh /\ s.fds = NoFds /\ s.res = Call.res
  BY <1>1 DEF Fields
<1>3. Mounting = LuScan(s)
  BY DEF Mounting
<1> HIDE DEF s
<1>4. Shaped(s, FALSE) /\ Recoverable(s.flash)
  BY <1>1, <1>2, FreshIs, NothingWritten
<1>5. Sound(LuScan(s), FALSE) /\ LuScan(s).res = s.res
  BY <1>4, LuScanKeeps
<1> QED BY <1>1, <1>2, <1>3, <1>5 DEF Ok

(* SPIFFS_mount: the scan, the erasure it finishes, the counters.           *)
LEMMA MountKeeps ==
    ASSUME Steady, Mount
    PROVE  Steady'
<1> DEFINE m == Mounting
           t == [m EXCEPT !.fs.mounted = TRUE]
<1>1. Sound(m, FALSE) /\ Ok(m)
  BY MountingIs
<1>2. Acts(t)
  BY <1>1 DEF Mount, Acts
<1> HIDE DEF m
<1>3. DOMAIN m = Fields /\ DOMAIN m.fs = {"mounted", "cleaning", "freeBlocks", "allocated",
                                          "deleted", "maxErase", "freeCursor", "cursor"}
  BY <1>1, SoundIs, FieldsAre
<1>4. /\ DOMAIN t = DOMAIN m /\ t.flash = m.flash /\ t.trail = m.trail
      /\ DOMAIN t.fs = DOMAIN m.fs /\ t.fs.maxErase = m.fs.maxErase
      /\ t.fs.cleaning = m.fs.cleaning /\ t.fs.freeCursor = m.fs.freeCursor /\ t.fds = m.fds
      /\ t.fs.allocated = m.fs.allocated /\ t.fs.deleted = m.fs.deleted
  BY <1>3 DEF Fields
<1> HIDE DEF t
<1>5. Sound(t, FALSE)
  BY <1>1, <1>4, UncountedSet
<1> QED BY <1>2, <1>5, DoKeeps

(* SPIFFS_unmount.                                                          *)
LEMMA UnmountKeeps ==
    ASSUME Steady, Unmount
    PROVE  Steady'
<1> DEFINE c == Call
           d == [f \in Descriptors |-> [c.fds[f] EXCEPT !.open = FALSE]]
           u == [c EXCEPT !.fs.mounted = FALSE]
           t == [u EXCEPT !.fds = d]
<1>1. Sound(c, FALSE)
  BY CallSound DEF Unmount
<1>2. DOMAIN c = Fields /\ DOMAIN c.fs = {"mounted", "cleaning", "freeBlocks", "allocated",
                                          "deleted", "maxErase", "freeCursor", "cursor"}
  BY <1>1, SoundIs, FieldsAre
<1>3. Ends(t)
  <2>1. Ends([Call EXCEPT !.fs.mounted = FALSE,
                  !.fds = [f \in Descriptors |-> [@[f] EXCEPT !.open = FALSE]]])
    BY DEF Unmount, Ends
  <2>2. t = [Call EXCEPT !.fs.mounted = FALSE,
                  !.fds = [f \in Descriptors |-> [@[f] EXCEPT !.open = FALSE]]]
    BY <1>2 DEF Fields
  <2> QED BY <2>1, <2>2
<1> HIDE DEF c
<1>4. /\ DOMAIN u = DOMAIN c /\ u.flash = c.flash /\ u.trail = c.trail
      /\ DOMAIN u.fs = DOMAIN c.fs /\ u.fs.maxErase = c.fs.maxErase
      /\ u.fs.cleaning = c.fs.cleaning /\ u.fs.freeCursor = c.fs.freeCursor /\ u.fds = c.fds
      /\ u.fs.allocated = c.fs.allocated /\ u.fs.deleted = c.fs.deleted
  BY <1>2 DEF Fields
<1> HIDE DEF u
<1>5. Sound(u, FALSE)
  BY <1>1, <1>4, UncountedSet
<1>6. Numbered(d)
  <2>1. \A f \in Descriptors : c.fds[f].obj \in Int /\ DOMAIN c.fds[f] = FdFields
    BY <1>1, ObjIs
  <2>2. DOMAIN d = Descriptors /\ \A f \in Descriptors : d[f].obj \in Int /\ DOMAIN d[f] = FdFields
    BY <2>1 DEF FdFields
  <2> HIDE DEF d
  <2> QED BY <2>2 DEF Numbered, ClosedFd, FdFields
<1> HIDE DEF d
<1>7. Sound(t, FALSE)
  BY <1>5, <1>6, DescriptorsSet
<1> HIDE DEF t
<1> QED BY <1>3, <1>7, ReturnedKeeps

-----------------------------------------------------------------------------
(* The first format: of the flash, the blocks below k are erased.          *)
Erasing(fl, k) ==
    /\ DOMAIN fl = {"lu", "page", "count", "magic"}
    /\ fl.magic \in [Bixes -> BOOLEAN]
    /\ fl.count \in [Bixes -> Nat \cup {Blank}]
    /\ fl.lu \in [Pages -> {Blank}]
    /\ \A b \in Bixes : b < k => fl.magic[b] /\ fl.count[b] \in Nat

InitFields == {"flash", "fs", "trail", "res"}

Formatting(t, k) == DOMAIN t = InitFields /\ DOMAIN t.fs = DOMAIN Fresh /\ Erasing(t.flash, k)

(* What a write changes.                                                    *)
LEMMA WroteFlash ==
    ASSUME NEW s, DOMAIN s = InitFields, NEW fl
    PROVE  DOMAIN Wrote(s, fl) = InitFields /\ Wrote(s, fl).flash = fl /\ Wrote(s, fl).fs = s.fs
<1> DEFINE q == Append(s.trail, fl)
           t == Wrote(s, fl)
<1>1. t = [s EXCEPT !.flash = fl, !.trail = q]
  BY WroteAs
<1> HIDE DEF q, t
<1>2. DOMAIN t = InitFields /\ t.flash = fl /\ t.fs = s.fs
  BY <1>1 DEF InitFields
<1> QED BY <1>2 DEF t

(* What an erasure writes, field by field.                                 *)
LEMMA OpenedFields ==
    ASSUME NEW fl, NEW bix, DOMAIN fl = {"lu", "page", "count", "magic"},
           fl.lu \in [Pages -> {Blank}]
    PROVE  LET t == Opened(fl, bix)
           IN /\ DOMAIN t = {"lu", "page", "count", "magic"} /\ t.lu \in [Pages -> {Blank}]
              /\ t.count = [fl.count EXCEPT ![bix] = Blank]
              /\ t.magic = [fl.magic EXCEPT ![bix] = FALSE]
<1> DEFINE w == Wiped(fl, {PixOf(bix, e) : e \in 0 .. SectorEntries - 1})
           lu == [p \in Pages |-> IF BlockOf(p) = bix THEN Blank ELSE w.lu[p]]
           t == Opened(fl, bix)
<1>1. /\ DOMAIN w = {"lu", "page", "count", "magic"} /\ w.lu = fl.lu /\ w.count = fl.count
      /\ w.magic = fl.magic
  BY DEF Wiped
<1>2. t = [w EXCEPT !.lu = lu, !.count = [w.count EXCEPT ![bix] = Blank],
                    !.magic = [w.magic EXCEPT ![bix] = FALSE]]
  BY <1>1 DEF Opened
<1> HIDE DEF w
<1>3. lu \in [Pages -> {Blank}]
  BY <1>1
<1> HIDE DEF lu, t
<1>4. /\ DOMAIN t = {"lu", "page", "count", "magic"} /\ t.lu = lu
      /\ t.count = [w.count EXCEPT ![bix] = Blank] /\ t.magic = [w.magic EXCEPT ![bix] = FALSE]
  BY <1>1, <1>2
<1> QED BY <1>1, <1>3, <1>4 DEF t

(* Erasing block k - 1 of a flash whose blocks before it are erased.        *)
LEMMA FormattingStep ==
    ASSUME NEW t, NEW k \in 1 .. Blocks, Formatting(t, k - 1)
    PROVE  Formatting(EraseBlock([t EXCEPT !.fs.maxErase = 0], k - 1), k)
<1> DEFINE b == k - 1
           s == [t EXCEPT !.fs.maxErase = 0]
           s1 == First(s, b)
           s2 == Others(s1, b)
           s3 == Counted(s2, b)
           s4 == Marked(s3, b)
           e == EraseBlock(s, b)
<1>1. /\ DOMAIN s = InitFields /\ s.flash = t.flash /\ DOMAIN s.fs = DOMAIN Fresh
      /\ s.fs.maxErase = 0
  BY DEF Formatting, InitFields, Fresh
<1>2. e = [s4 EXCEPT !.fs.freeBlocks = @ + 1, !.fs.maxErase = @ + 1]
  BY EraseBlockIs
<1> HIDE DEF s, e
<1>3. /\ DOMAIN s.flash = {"lu", "page", "count", "magic"} /\ s.flash.lu \in [Pages -> {Blank}]
      /\ s.flash.magic \in [Bixes -> BOOLEAN] /\ s.flash.count \in [Bixes -> Nat \cup {Blank}]
      /\ \A a \in Bixes : a < b => s.flash.magic[a] /\ s.flash.count[a] \in Nat
  BY <1>1 DEF Formatting, Erasing
<1>4. /\ DOMAIN s1 = InitFields /\ s1.fs = s.fs
      /\ DOMAIN s1.flash = {"lu", "page", "count", "magic"} /\ s1.flash.lu \in [Pages -> {Blank}]
      /\ s1.flash.count = [s.flash.count EXCEPT ![b] = Blank]
      /\ s1.flash.magic = [s.flash.magic EXCEPT ![b] = FALSE]
  <2> DEFINE fl == Opened(s.flash, b)
  <2>1. DOMAIN s1 = InitFields /\ s1.flash = fl /\ s1.fs = s.fs
    BY <1>1, WroteFlash DEF First
  <2>2. /\ DOMAIN fl = {"lu", "page", "count", "magic"} /\ fl.lu \in [Pages -> {Blank}]
        /\ fl.count = [s.flash.count EXCEPT ![b] = Blank]
        /\ fl.magic = [s.flash.magic EXCEPT ![b] = FALSE]
    BY <1>3, OpenedFields
  <2> HIDE DEF fl, s1
  <2> QED BY <2>1, <2>2
<1> HIDE DEF s1
<1>5. /\ DOMAIN s2 = InitFields /\ s2.fs = s.fs
      /\ DOMAIN s2.flash = {"lu", "page", "count", "magic"} /\ s2.flash.lu = s1.flash.lu
      /\ s2.flash.count = s1.flash.count /\ s2.flash.magic = s1.flash.magic
  <2> DEFINE fl == Wiped(s1.flash, PagesOf(b))
  <2>1. s2 = s1 \/ s2 = Wrote(s1, fl)
    BY DEF Others
  <2>2. /\ DOMAIN fl = DOMAIN s1.flash /\ fl.lu = s1.flash.lu /\ fl.count = s1.flash.count
        /\ fl.magic = s1.flash.magic
    BY <1>4 DEF Wiped
  <2> HIDE DEF fl, s2
  <2>3. DOMAIN Wrote(s1, fl) = InitFields /\ Wrote(s1, fl).flash = fl /\ Wrote(s1, fl).fs = s1.fs
    BY <1>4, WroteFlash
  <2> QED BY <1>4, <2>1, <2>2, <2>3
<1> HIDE DEF s2
<1>6. /\ DOMAIN s3 = InitFields /\ s3.fs = s.fs
      /\ DOMAIN s3.flash = {"lu", "page", "count", "magic"} /\ s3.flash.lu = s1.flash.lu
      /\ s3.flash.count = [s1.flash.count EXCEPT ![b] = 0] /\ s3.flash.magic = s1.flash.magic
  <2> DEFINE fl == [s2.flash EXCEPT !.count[b] = s2.fs.maxErase]
  <2>1. /\ DOMAIN fl = DOMAIN s2.flash /\ fl.lu = s2.flash.lu /\ fl.magic = s2.flash.magic
        /\ fl.count = [s2.flash.count EXCEPT ![b] = s2.fs.maxErase]
    BY <1>5
  <2>2. s3 = Wrote(s2, fl)
    BY DEF Counted
  <2> HIDE DEF fl, s3
  <2>3. DOMAIN s3 = InitFields /\ s3.flash = fl /\ s3.fs = s2.fs
    BY <1>5, <2>2, WroteFlash
  <2> QED BY <1>1, <1>5, <2>1, <2>3
<1> HIDE DEF s3
<1>7. /\ DOMAIN s4 = InitFields /\ s4.fs = s.fs
      /\ DOMAIN s4.flash = {"lu", "page", "count", "magic"} /\ s4.flash.lu = s1.flash.lu
      /\ s4.flash.count = s3.flash.count /\ s4.flash.magic = [s1.flash.magic EXCEPT ![b] = TRUE]
  <2> DEFINE fl == [s3.flash EXCEPT !.magic[b] = TRUE]
  <2>1. /\ DOMAIN fl = DOMAIN s3.flash /\ fl.lu = s3.flash.lu /\ fl.count = s3.flash.count
        /\ fl.magic = [s3.flash.magic EXCEPT ![b] = TRUE]
    BY <1>6
  <2>2. s4 = Wrote(s3, fl)
    BY DEF Marked
  <2> HIDE DEF fl, s4
  <2>3. DOMAIN s4 = InitFields /\ s4.flash = fl /\ s4.fs = s3.fs
    BY <1>6, <2>2, WroteFlash
  <2> QED BY <1>6, <2>1, <2>3
<1> HIDE DEF s4
<1>8. DOMAIN e = InitFields /\ e.flash = s4.flash /\ DOMAIN e.fs = DOMAIN Fresh
  BY <1>1, <1>2, <1>7 DEF InitFields
<1>9. s4.flash.count = [[s.flash.count EXCEPT ![b] = Blank] EXCEPT ![b] = 0]
      /\ s4.flash.magic = [[s.flash.magic EXCEPT ![b] = FALSE] EXCEPT ![b] = TRUE]
  BY <1>4, <1>6, <1>7
<1>10. s4.flash.count \in [Bixes -> Nat \cup {Blank}] /\ s4.flash.magic \in [Bixes -> BOOLEAN]
  <2>1. [s.flash.count EXCEPT ![b] = Blank] \in [Bixes -> Nat \cup {Blank}]
        /\ [s.flash.magic EXCEPT ![b] = FALSE] \in [Bixes -> BOOLEAN]
    BY <1>3
  <2>2. \A c \in [Bixes -> Nat \cup {Blank}] : [c EXCEPT ![b] = 0] \in [Bixes -> Nat \cup {Blank}]
    OBVIOUS
  <2>3. \A m \in [Bixes -> BOOLEAN] : [m EXCEPT ![b] = TRUE] \in [Bixes -> BOOLEAN]
    OBVIOUS
  <2> HIDE DEF b
  <2> QED BY <1>9, <2>1, <2>2, <2>3
<1>11. ASSUME NEW a \in Bixes, a < k PROVE s4.flash.magic[a] /\ s4.flash.count[a] \in Nat
  <2>1. CASE a = b
    BY <1>3, <1>9, <2>1
  <2>2. CASE a # b
    <3>1. a < b
      BY <1>11, <2>2 DEF Bixes
    <3>2. s4.flash.magic[a] = s.flash.magic[a] /\ s4.flash.count[a] = s.flash.count[a]
      BY <1>3, <1>9, <2>2
    <3> QED BY <1>3, <3>1, <3>2
  <2> QED BY <2>1, <2>2
<1>12. Erasing(e.flash, k)
  BY <1>4, <1>7, <1>8, <1>10, <1>11 DEF Erasing
<1> QED BY <1>8, <1>12 DEF Formatting, e, s

Wiping(s) == Loop(Blocks, s, LAMBDA t, k : EraseBlock([t EXCEPT !.fs.maxErase = 0], k - 1))

(* After all blocks, every one has its magic and its count.                 *)
LEMMA WipingIs ==
    ASSUME NEW s, Formatting(s, 0)
    PROVE  Erasing(Wiping(s).flash, Blocks)
<1> DEFINE w == <<"wipe">>
           run == CHOOSE g : g = [k \in 0 .. Blocks |-> IF k = 0 THEN s ELSE
                                    EraseBlock([g[k - 1] EXCEPT !.fs.maxErase = 0], k - 1)]
           S == {k \in 0 .. Blocks : Formatting(run[k], k)}
<1>1. Wiping(s) = run[Blocks]
  BY DEF Loop, Wiping
<1>2. \A t, k : StepOf(w, t, k) = EraseBlock([t EXCEPT !.fs.maxErase = 0], k - 1)
  BY DEF StepOf
<1> HIDE DEF w
<1>3. PICK g : IsRun(g, w, s, Blocks)
  BY RunExists, GeometryAssumption
<1>4. g = [k \in 0 .. Blocks |-> IF k = 0 THEN s
                                 ELSE EraseBlock([g[k - 1] EXCEPT !.fs.maxErase = 0], k - 1)]
  BY <1>2, <1>3 DEF IsRun
<1>5. run = [k \in 0 .. Blocks |-> IF k = 0 THEN s
                                   ELSE EraseBlock([run[k - 1] EXCEPT !.fs.maxErase = 0], k - 1)]
  BY <1>4
<1> HIDE DEF run
<1>6. \A k \in 0 .. Blocks :
         run[k] = IF k = 0 THEN s ELSE EraseBlock([run[k - 1] EXCEPT !.fs.maxErase = 0], k - 1)
  BY <1>5
<1>7. 0 \in S
  <2>1. 0 \in 0 .. Blocks
    BY GeometryAssumption
  <2>2. run[0] = s
    BY <1>6, <2>1
  <2> QED BY <2>1, <2>2
<1>8. ASSUME NEW k \in 1 .. Blocks, k - 1 \in S PROVE k \in S
  <2>1. k \in 0 .. Blocks /\ k # 0 /\ Formatting(run[k - 1], k - 1)
    BY <1>8, GeometryAssumption
  <2>2. run[k] = EraseBlock([run[k - 1] EXCEPT !.fs.maxErase = 0], k - 1)
    BY <1>6, <2>1
  <2>3. Formatting(EraseBlock([run[k - 1] EXCEPT !.fs.maxErase = 0], k - 1), k)
    BY <2>1, FormattingStep
  <2> QED BY <2>1, <2>2, <2>3
<1> HIDE DEF S
<1>9. Blocks \in S
  BY <1>7, <1>8, Counting, GeometryAssumption
<1> QED BY <1>1, <1>9 DEF S, Formatting

(* The flash of Init, formatted, is complete.                               *)
LEMMA InitSteady == Init => Steady
<1> SUFFICES ASSUME Init PROVE Steady
  OBVIOUS
<1> DEFINE fl == [lu |-> [p \in Pages |-> Blank], page |-> [p \in Pages |-> Erased],
                  count |-> [b \in Bixes |-> Blank], magic |-> [b \in Bixes |-> FALSE]]
           blank == [flash |-> fl, fs |-> Fresh, trail |-> <<>>, res |-> "OK"]
<1>1. flash = Wiping(blank).flash /\ fs = Fresh /\ fds = NoFds
  BY DEF Init, Wiping, Bixes
<1>2. Erasing(fl, 0)
  BY DEF Erasing, Bixes
<1>3. Formatting(blank, 0)
  <2>1. DOMAIN blank = InitFields /\ blank.flash = fl /\ blank.fs = Fresh
    BY DEF InitFields
  <2> HIDE DEF blank
  <2> QED BY <1>2, <2>1 DEF Formatting
<1> HIDE DEF blank
<1>4. Erasing(flash, Blocks)
  BY <1>1, <1>3, WipingIs
<1>5. \A b \in Bixes : b < Blocks
  BY GeometryAssumption DEF Bixes
<1>6. Recoverable(flash)
  BY <1>4, <1>5 DEF Erasing, Recoverable
<1> QED BY <1>1, <1>6, FreshIs DEF Steady

-----------------------------------------------------------------------------
(* Every call, of whichever file, at whatever point the power goes, leaves *)
(* a flash that mounts.                                                    *)
LEMMA NextSteady == Steady /\ [Next]_vars => Steady'
<1> SUFFICES ASSUME Steady, [Next]_vars PROVE Steady'
  OBVIOUS
<1>1. CASE UNCHANGED vars
  BY <1>1 DEF vars, Steady
<1>2. CASE Life
  <2>1. CASE Mount
    BY <2>1, MountKeeps
  <2>2. CASE Gc(2 * PageLen)
    BY <2>2, CollectorKeeps
  <2>3. ASSUME NEW f \in Descriptors, Close(f) \/ FRemove(f) PROVE Steady'
    BY <2>3, CloseKeeps, FRemoveKeeps
  <2>4. ASSUME NEW f \in Descriptors, NEW data \in Data, Write(f, data) PROVE Steady'
    BY <2>4, WriteKeeps
  <2>5. ASSUME NEW f \in Descriptors, NEW name \in Names, Remove(f, name) PROVE Steady'
    BY <2>5, RemoveKeeps
  <2>6. ASSUME NEW f \in Descriptors, NEW name \in Names, NEW fl \in OpenFlags,
               Open(f, name, fl)
        PROVE  Steady'
    BY <2>6, OpenKeeps
  <2>7. ASSUME NEW f \in Takeable(Blank), NEW old \in Names, NEW new \in Names,
               Rename(f, old, new)
        PROVE  Steady'
    BY <2>7, RenameKeeps
  <2> QED BY <1>2, <2>1, <2>2, <2>3, <2>4, <2>5, <2>6, <2>7 DEF Life
<1>3. CASE Rest
  <2>1. CASE Unmount
    BY <2>1, UnmountKeeps
  <2>2. CASE QuickGc(0)
    BY <2>2, CollectorKeeps
  <2>3. ASSUME NEW f \in Descriptors, Read(f) \/ Seek(f, 2 * PageLen) PROVE Steady'
    BY <2>3, ReadKeeps, SeekKeeps
  <2>4. ASSUME NEW name \in Names, Creat(name) PROVE Steady'
    BY <2>4, CreatKeeps
  <2>5. ASSUME NEW name \in Names, NEW f \in Takeable(Blank), UpdateMeta(f, name) PROVE Steady'
    BY <2>5, UpdateMetaKeeps
  <2> QED BY <1>3, <2>1, <2>2, <2>3, <2>4, <2>5 DEF Rest
<1> QED BY <1>1, <1>2, <1>3 DEF Next

(* Between any two calls the flash is one that mounts: at most one block is *)
(* without its magic, it has nothing in use, every other has its erase      *)
(* count; while mounted there is no such block, and the counters count no   *)
(* more pages than are taken; the collector is not marked as running, and   *)
(* every lookup entry was written once.                                     *)
THEOREM StoreSteady == Spec => []Steady
  BY InitSteady, NextSteady, PTL DEF Spec

(* A flash on which at most one erasure is unfinished counts that way.     *)
LEMMA SteadyMounts == Steady => MountsAgain
<1> SUFFICES ASSUME Steady PROVE MountsAgain
  OBVIOUS
<1>1. Cardinality(Unfinished(flash)) <= 1
  BY UnfinishedIs DEF Steady
<1>2. fs.mounted => Cardinality(Unfinished(flash)) <= 0
  <2> SUFFICES ASSUME fs.mounted PROVE Cardinality(Unfinished(flash)) = 0
    OBVIOUS
  <2>1. Unfinished(flash) = {}
    BY DEF Steady, Complete, Unfinished, Bixes
  <2> QED BY <2>1, FS_EmptySet
<1>3. \A b \in Unfinished(flash), p \in Pages : BlockOf(p) = b => flash.lu[p] = Blank
  BY DEF Steady, Recoverable, Unfinished, Bixes
<1> QED BY <1>1, <1>2, <1>3 DEF MountsAgain

(* spiffs_mount never meets a second unfinished erasure, whichever calls    *)
(* ran and after whichever of their writes the power went, however often:   *)
(* at most one block is without its magic, none while mounted, and no page  *)
(* of it is in use (spiffs_obj_lu_scan, spiffs_erase_block).                *)
THEOREM Remounts == Spec => []MountsAgain
  BY StoreSteady, SteadyMounts, PTL

(* Mounting the flash as it is now would find the file system.             *)
NeverFormats == Ok(Mounting)

(* The mount scan of such a flash succeeds.                                 *)
LEMMA SteadyFinds == Steady => NeverFormats
  BY MountingIs DEF NeverFormats

(* So mounting never fails, and spiffs_mount never takes the branch that    *)
(* formats the flash, which would delete every file.                        *)
THEOREM MountFinds == Spec => []NeverFormats
  BY StoreSteady, SteadyFinds, PTL

(* While mounted, the collector counts at least the free pages there are,   *)
(* less the two blocks it holds back.                                       *)
SpaceSeen == fs.mounted => FreePages(fs) >= Cardinality(Free(flash, Pages)) - 2 * Entries

(* Pages are free or taken.                                                 *)
LEMMA FreeOrTaken ==
    ASSUME NEW fl
    PROVE  /\ Cardinality(Free(fl, Pages)) \in Nat
           /\ Cardinality(Free(fl, Pages)) + Cardinality(Taken(fl)) = Blocks * Entries
<1> DEFINE F == Free(fl, Pages)
           T == Taken(fl)
<1>1. F \cup T = Pages /\ F \cap T = {}
  BY DEF Free, Taken
<1> HIDE DEF F, T
<1>2. IsFiniteSet(Pages) /\ Cardinality(Pages) = Blocks * Entries
  BY FS_Interval, PagesAre DEF Pages
<1>3. IsFiniteSet(F) /\ IsFiniteSet(T)
  BY <1>1, <1>2, FS_Subset
<1>4. Cardinality(F) \in Nat /\ Cardinality(T) \in Nat
  BY <1>3, FS_CardinalityType
<1>5. Cardinality(F \cup T) = Cardinality(F) + Cardinality(T)
  BY <1>1, <1>3, <1>4, FS_Union, FS_EmptySet
<1> QED BY <1>1, <1>2, <1>4, <1>5 DEF F, T

(* What the invariant says of the counters, as the collector reads them.    *)
LEMMA SteadySpace == Steady => SpaceSeen
<1> SUFFICES ASSUME Steady, fs.mounted
             PROVE  FreePages(fs) >= Cardinality(Free(flash, Pages)) - 2 * Entries
  BY DEF SpaceSeen
<1> DEFINE F == Cardinality(Free(flash, Pages))
           T == Cardinality(Taken(flash))
<1>1. fs.allocated \in Int /\ fs.deleted \in Int /\ fs.allocated + fs.deleted <= T
  BY DEF Steady, Within
<1>2. F \in Nat /\ T \in Nat /\ F + T = Blocks * Entries
  BY FreeOrTaken, TakenIs
<1>3. Entries * (Blocks - 2) = Blocks * Entries - 2 * Entries
  BY GeometryAssumption
<1>4. Blocks * Entries \in Nat /\ Entries \in Nat
  BY PagesAre, EntriesAre
<1>5. FreePages(fs) = Entries * (Blocks - 2) - fs.allocated - fs.deleted
  BY DEF FreePages
<1> HIDE DEF F, T
<1> DEFINE n == Blocks * Entries
<1>6. FreePages(fs) = n - 2 * Entries - fs.allocated - fs.deleted
  BY <1>3, <1>5
<1>7. n \in Nat /\ F + T = n
  BY <1>2, <1>4
<1> HIDE DEF n
<1>8. FreePages(fs) >= F - 2 * Entries
  BY <1>1, <1>2, <1>4, <1>6, <1>7
<1> QED BY <1>8 DEF F

(* spiffs_gc_check never takes a flash with room for a full one because its *)
(* counters fell behind: through allocations, moves, deletions, erasures,   *)
(* mounts, failed calls and power losses, the pages it computes as free     *)
(* from stats_p_allocated and stats_p_deleted are at least the pages that   *)
(* are free, less the two blocks it holds back.                             *)
THEOREM SpaceIsSeen == Spec => []SpaceSeen
  BY StoreSteady, SteadySpace, PTL

(* No lookup entry was programmed with a second identifier while in use.   *)
EntriesOnce == \A p \in Pages : flash.lu[p] # Mixed

(* Every lookup entry of such a flash is free or a number.                  *)
LEMMA SteadyOnce == Steady => EntriesOnce
  BY CellAssumption DEF Steady, Recoverable, EntriesOnce

(* No page is given to two objects: the entry of a page in use is never     *)
(* programmed with another object before it is deleted or its block is      *)
(* erased, whatever a lost call left behind.                                *)
THEOREM TakenOnce == Spec => []EntriesOnce
  BY StoreSteady, SteadyOnce, PTL
=============================================================================
