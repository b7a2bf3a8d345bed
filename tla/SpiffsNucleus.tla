---------------------------- MODULE SpiffsNucleus ----------------------------
(***************************************************************************)
(* The storage layer of spiffs (spiffs_nucleus.c, spiffs_gc.c): pages on   *)
(* NOR flash, the object lookup, allocation, moving and deletion of pages, *)
(* garbage collection, and the objects (files) built from index pages and  *)
(* data pages.                                                             *)
(*                                                                         *)
(* Every function of the source is an operator from a context to a         *)
(* context.  It leaves a context that has failed alone, so calls nest and  *)
(* the first failure is the result: the early returns of the source.  A    *)
(* context s has the flash s.f, the spiffs structure s.r in RAM, the       *)
(* result code s.res, the returned value s.ret, the bytes read s.out, the  *)
(* local variables of a loop (s.n bytes written or left, s.ix the index    *)
(* page in the work buffer, s.pix the last data page, s.stop the code that *)
(* ended the loop), s.unsaved the descriptors whose cached bytes could not *)
(* be flushed, and s.hist, the flash as it was before each write of the    *)
(* call: a power loss leaves one of these behind.                          *)
(*                                                                         *)
(* A page index counts the pages behind the lookup entries: the pages that *)
(* hold the lookup itself are not numbered.  An erased cell has all bits   *)
(* set, and a write can only clear bits.                                   *)
(***************************************************************************)
EXTENDS Integers, Sequences, FiniteSets, TLC

CONSTANTS Blocks,        \* logical blocks of the file system
          Entries,       \* lookup entries, and so pages, of a block
          DataPageSize,  \* bytes of data in a page
          HdrIxLen,      \* data pages the object index header refers to
          IxLen,         \* data pages every further index page refers to
          FdCount,       \* file descriptors
          CacheCount,    \* cache pages
          LogPageSize    \* bytes of a cache page

ASSUME GeometryAssumption ==
  /\ {Blocks, Entries, DataPageSize, HdrIxLen, IxLen, FdCount, CacheCount}
        \subseteq Nat \ {0}
  /\ Blocks > 2 /\ Blocks * Entries < 512
  /\ LogPageSize \in Nat /\ LogPageSize > DataPageSize

ONES == 1023             \* the bits of an erased cell
FREE == ONES             \* SPIFFS_OBJ_ID_FREE, an unused reference or size
DELETED == 0             \* SPIFFS_OBJ_ID_DELETED
IX_FLAG == 512           \* SPIFFS_OBJ_ID_IX_FLAG
NONE == -1
GC_MAX_RUNS == 3

AsIx(id) == IF id >= IX_FLAG THEN id ELSE id + IX_FLAG
AsData(id) == IF id >= IX_FLAG THEN id - IX_FLAG ELSE id
IsIx(id) == id >= IX_FLAG
InUse(id) == id \notin {FREE, DELETED}

Smaller(a, b) == IF a < b THEN a ELSE b
Larger(a, b) == IF a < b THEN b ELSE a
Least(S) == CHOOSE x \in S : \A y \in S : x <= y

PageCount == Blocks * Entries
Pages == 0 .. PageCount - 1
BlockOf(pix) == pix \div Entries
EntryOf(pix) == pix % Entries
PagesOf(b) == b * Entries .. (b + 1) * Entries - 1

\* The index page and the entry in it that refer to a data page.
IxSpan(spix) == IF spix < HdrIxLen THEN 0 ELSE 1 + (spix - HdrIxLen) \div IxLen
IxEntry(spix) == IF spix < HdrIxLen THEN spix ELSE (spix - HdrIxLen) % IxLen

(***************************************************************************)
(* Flash.  lu is the page's lookup entry; flags is the set of flags whose  *)
(* bit is cleared.  A write is a page of bits to clear: Blank clears none. *)
(***************************************************************************)
Blank == [lu |-> FREE, id |-> ONES, span |-> ONES, flags |-> {},
          name |-> ONES, size |-> ONES,
          ix |-> [i \in 0 .. Larger(HdrIxLen, IxLen) - 1 |-> ONES],
          data |-> [i \in 0 .. DataPageSize - 1 |-> ONES]]

RECURSIVE Both(_, _)
Both(a, b) ==
  IF a = 0 THEN 0 ELSE 2 * Both(a \div 2, b \div 2) + (a % 2) * (b % 2)

Cleared(a, b) == IF b = ONES THEN a ELSE IF a = ONES THEN b ELSE Both(a, b)

Program(old, w) ==
  [lu |-> Cleared(old.lu, w.lu), id |-> Cleared(old.id, w.id),
   span |-> Cleared(old.span, w.span), flags |-> old.flags \cup w.flags,
   name |-> Cleared(old.name, w.name), size |-> Cleared(old.size, w.size),
   ix |-> [i \in DOMAIN old.ix |-> Cleared(old.ix[i], w.ix[i])],
   data |-> [i \in DOMAIN old.data |-> Cleared(old.data[i], w.data[i])]]

NoPage == [Blank EXCEPT !.lu = NONE]

\* Bytes written from position at of a page on.
Bytes(at, bytes) ==
  [Blank EXCEPT !.data =
     [i \in DOMAIN @ |-> IF i - at + 1 \in DOMAIN bytes
                         THEN bytes[i - at + 1] ELSE ONES]]

Fresh == [f |-> 0, r |-> 0, hist |-> <<>>, res |-> "OK", ret |-> NONE,
          stop |-> "OK", n |-> 0, ix |-> NONE, pix |-> NONE, out |-> <<>>, unsaved |-> {}]
Enter(f, r) == [Fresh EXCEPT !.f = f, !.r = r]

Go(s, t) == IF s.res = "OK" THEN t ELSE s
Fail(s, code) == [s EXCEPT !.res = code]
Check(s, code) == Go(s, Fail(s, code))

\* What lies outside the volume reads as erased and is not kept.
Wr(s, pix, w) ==
  IF pix \notin Pages THEN s
  ELSE Go(s, [s EXCEPT !.hist = Append(@, s.f), !.f.page[pix] = Program(@, w)])

Lu(id) == [Blank EXCEPT !.lu = id]
Flags(flags) == [Blank EXCEPT !.flags = flags]
SetFlags(s, pix, flags) == Wr(s, pix, Flags(flags))

\* Several writes to one page, in order; a blank one is not made.
RECURSIVE Writes(_, _, _)
Writes(s, pix, ws) ==
  IF ws = <<>> THEN s
  ELSE Writes(IF Head(ws) = Blank THEN s ELSE Wr(s, pix, Head(ws)), pix, Tail(ws))

PutWork(s, page) == Go(s, [s EXCEPT !.r.work = page])
Load(s, pix) == PutWork(s, IF pix \in Pages THEN s.f.page[pix] ELSE Blank)

\* Scratch data in the work buffer: no header check accepts it.
Scratch == Blank

(***************************************************************************)
(* Headers.                                                                *)
(***************************************************************************)
ValidateHeader(p, spix) ==
  CASE "USED" \notin p.flags -> "IS_FREE"
    [] "DELET" \in p.flags -> "DELETED"
    [] "FINAL" \notin p.flags -> "NOT_FINALIZED"
    [] p.span # spix -> "SPAN_MISMATCH"
    [] OTHER -> "OK"

ValidateObjix(p, spix) ==
  IF ValidateHeader(p, spix) \in {"OK", "SPAN_MISMATCH"} /\ "INDEX" \notin p.flags
  THEN "NOT_INDEX" ELSE ValidateHeader(p, spix)

ValidateData(p, spix) ==
  IF ValidateHeader(p, spix) \in {"OK", "SPAN_MISMATCH"} /\ "INDEX" \in p.flags
  THEN "IS_INDEX" ELSE ValidateHeader(p, spix)

PageDataCheck(s, pix, spix) ==
  CASE pix = FREE -> "INDEX_REF_FREE"
    [] pix # FREE /\ pix \notin Pages -> "INDEX_REF_INVALID"
    [] OTHER -> ValidateData(s.f.page[pix], spix)

PageIndexCheck(s, pix, spix) ==
  CASE pix = FREE -> "INDEX_FREE"
    [] pix # FREE /\ pix \notin Pages -> "INDEX_INVALID"
    [] OTHER -> ValidateObjix(s.f.page[pix], spix)

\* An index header by its flags: finished, not deleted, not being deleted.
IsHeader(p) == /\ p.span = 0
               /\ "FINAL" \in p.flags
               /\ p.flags \cap {"DELET", "IXDELE"} = {}

(***************************************************************************)
(* The object lookup.  A search starts at a block and an entry, skips a    *)
(* start at the last entry of a block, and wraps.                          *)
(***************************************************************************)
StartPix(b, e) ==
  IF e >= Entries - 1 THEN ((b + 1) % Blocks) * Entries ELSE b * Entries + e

FindFrom(b, e, sought) ==
  LET ahead(q) == (q - StartPix(b, e) + PageCount) % PageCount
  IN IF sought = {} THEN NONE
     ELSE CHOOSE q \in sought : \A p \in sought : ahead(q) <= ahead(p)

\* Found pages move the search cursor.
Found(s, pix) ==
  IF pix = NONE THEN Check(s, "NOT_FOUND")
  ELSE Go(s, [s EXCEPT !.r.cb = BlockOf(pix), !.r.ce = EntryOf(pix), !.ret = pix])

MatchesIdSpan(p, id, spix) ==
  /\ p.id = id /\ p.span = spix
  /\ {"FINAL", "USED"} \subseteq p.flags /\ "DELET" \notin p.flags
  /\ ~ (IsIx(id) /\ spix = 0 /\ "IXDELE" \in p.flags)

FindIdAndSpan(s, id, spix, except) ==
  Found(s, FindFrom(s.r.cb, s.r.ce,
    {q \in Pages \ {except} : s.f.page[q].lu = id
                               /\ MatchesIdSpan(s.f.page[q], id, spix)}))

\* By page headers only, whatever the lookup entry says.
FindIdAndSpanByPhdr(s, id, spix, except) ==
  Found(s, FindFrom(s.r.cb, s.r.ce,
    {q \in Pages \ {except} : MatchesIdSpan(s.f.page[q], id, spix)}))

FindHeaderByName(s, name) ==
  Found(s, FindFrom(s.r.cb, s.r.ce,
    {q \in Pages : /\ InUse(s.f.page[q].lu) /\ IsIx(s.f.page[q].lu)
                   /\ IsHeader(s.f.page[q]) /\ s.f.page[q].name = name}))

(***************************************************************************)
(* Mounting counts the lookup entries and looks for the largest erase      *)
(* count.                                                                  *)
(***************************************************************************)
CountLu(f, lus) == Cardinality({q \in Pages : f.page[q].lu \in lus})

FinalEraseCount(f) ==
  LET counts == {f.era[b] : b \in 0 .. Blocks - 1} \ {ONES}
      min == IF counts = {} THEN ONES ELSE Least(counts)
      max == CHOOSE x \in counts \cup {0} : \A y \in counts : y <= x
  IN IF max - min > ONES \div 2 THEN min + 1 ELSE max + 1

ObjLuScan(s) ==
  [s EXCEPT !.r.maxe = FinalEraseCount(s.f),
            !.r.freeb = Cardinality({b \in 0 .. Blocks - 1 :
                                       s.f.page[b * Entries].lu = FREE}),
            !.r.dele = CountLu(s.f, {DELETED}),
            !.r.alloc = PageCount - CountLu(s.f, {DELETED, FREE})]

(***************************************************************************)
(* Erasing.                                                                *)
(***************************************************************************)
SetEraseCount(s, b) ==
  [s EXCEPT !.hist = Append(@, s.f), !.f.era[b] = s.r.maxe,
            !.r.maxe = (@ + 1) % IX_FLAG]

EraseBlock(s, b) ==
  Go(s, SetEraseCount([s EXCEPT !.hist = Append(@, s.f),
                                !.f.page = [q \in PagesOf(b) |-> Blank] @@ @,
                                !.f.era[b] = ONES,
                                !.r.freeb = @ + 1], b))

\* Erases one block all of whose pages are deleted, if there is one.
GcQuick(s) ==
  LET full == {b \in 0 .. Blocks - 1 :
                 \A q \in PagesOf(b) : s.f.page[q].lu = DELETED}
  IN IF full = {} THEN s
     ELSE EraseBlock([s EXCEPT !.r.dele = @ - Entries], Least(full))

(***************************************************************************)
(* Allocation, deletion and moving of pages.                               *)
(***************************************************************************)
Scarce(s) == ~ s.r.cleaning /\ s.r.freeb < 2

Take(s, pix) ==
  IF pix = NONE THEN Fail(s, "NOT_FOUND")
  ELSE [s EXCEPT !.r.fcb = BlockOf(pix), !.r.fce = EntryOf(pix),
                 !.r.freeb = IF EntryOf(pix) = 0 THEN @ - 1 ELSE @, !.ret = pix]

TakeFree(s) ==
  IF Scarce(s) THEN Fail(s, "FULL")
  ELSE Take(s, FindFrom(s.r.fcb, s.r.fce, {q \in Pages : s.f.page[q].lu = FREE}))

FindFree(s) == Go(s, TakeFree(IF Scarce(s) THEN GcQuick(s) ELSE s))

Tally(s, alloc, dele) == Go(s, [s EXCEPT !.r.alloc = @ + alloc, !.r.dele = @ + dele])

\* The lookup entry first, then the header, the data and the final flag.
WriteNew(a, hdr, w, finalize) ==
  LET used == hdr.flags \cup {"USED"}
      final == IF finalize /\ "FINAL" \notin hdr.flags
               THEN Flags(used \cup {"FINAL"}) ELSE Blank
  IN Writes(Tally(a, 1, 0), a.ret,
            <<Lu(hdr.id), [Flags(used) EXCEPT !.id = hdr.id, !.span = hdr.span], w, final>>)

AllocateData(s, hdr, w, finalize) == WriteNew(FindFree(s), hdr, w, finalize)

PageDelete(s, pix) ==
  Writes(Tally(s, -1, 1), pix, <<Lu(DELETED), Flags({"DELET", "USED"})>>)

\* A given page is written unfinished and finished behind its lookup entry;
\* without one (NoPage) the source page is copied as it is.
MoveTo(a, page, id, src) ==
  LET given == page # NoPage
      image == IF given
               THEN [page EXCEPT !.lu = FREE, !.flags = (@ \ {"FINAL"}) \cup {"USED"}]
               ELSE [a.f.page[src] EXCEPT !.lu = FREE]
      final == IF given /\ "FINAL" \in page.flags
               THEN Flags(page.flags \cup {"USED"}) ELSE Blank
  IN PageDelete(Writes(Tally(a, 1, 0), a.ret, <<image, Lu(id), final>>), src)

PageMove(s, page, id, src) == MoveTo(FindFree(s), page, id, src)

(***************************************************************************)
(* File descriptors follow the index pages of their object.                *)
(***************************************************************************)
NoFd == [open |-> FALSE, obj |-> 0, size |-> 0, hdr |-> 0, cpix |-> 0,
         cspix |-> 0, fdoff |-> 0, flags |-> {}, cache |-> 0]

\* Wrong variant: only the descriptor's cursor follows, not its header.
ObjectEventCursor(s, ev, id, spix, pix, size) ==
  Go(s, [s EXCEPT !.r.fds = [f \in DOMAIN @ |->
     IF @[f].open /\ AsData(@[f].obj) = AsData(id) /\ @[f].cspix = spix
     THEN [@[f] EXCEPT !.cpix = IF ev = "DEL" THEN 0 ELSE pix] ELSE @[f]]])

ObjectEvent(s, ev, id, spix, pix, size) ==
  LET head(fd) ==
        CASE spix = 0 /\ ev = "DEL" -> [fd EXCEPT !.open = FALSE, !.obj = DELETED]
          [] spix = 0 /\ ev # "DEL" ->
               [fd EXCEPT !.hdr = pix, !.size = IF size # 0 THEN size ELSE @]
          [] OTHER -> fd
      cursor(fd) ==
        IF fd.cspix # spix THEN fd
        ELSE [fd EXCEPT !.cpix = IF ev = "DEL" THEN 0 ELSE pix]
      followers == {f \in DOMAIN s.r.fds : s.r.fds[f].open
                                           /\ AsData(s.r.fds[f].obj) = AsData(id)}
  IN Go(s, [s EXCEPT !.r.fds = [f \in followers |-> cursor(head(@[f]))] @@ @])

\* The index page in the work buffer moves to a new page.
Moved(m, id) == ObjectEvent(m, "UPD", id, m.r.work.span, m.ret, m.r.work.size)
MoveIndex(s, id, pix) == Moved(PageMove(s, s.r.work, AsIx(id), pix), id)

CheckWork(s, spix) == Check(s, ValidateObjix(s.r.work, spix))

\* Replaces an index header by a copy with another name, size or index.  The
\* page is given in the work buffer, or loaded into it.
Renewed(s, name, size) ==
  Go(s, [s EXCEPT !.r.work.name = IF name = NONE THEN @ ELSE name,
                  !.r.work.size = IF size = 0 THEN @ ELSE size])

PointHdr(m, f) == IF f = 0 THEN m ELSE Go(m, [m EXCEPT !.r.fds[f].hdr = m.ret])

UpdateIndexHdr(s, f, id, pix, loaded, name, size) ==
  PointHdr(MoveIndex(Renewed(CheckWork(IF loaded THEN s ELSE Load(s, pix), 0), name, size),
                     id, pix), f)

(***************************************************************************)
(* Garbage collection.                                                     *)
(***************************************************************************)
FreePages(s) == Entries * (Blocks - 2) - s.r.alloc - s.r.dele

\* The pages of a block before its first free one: the scan stops there.
Written(s, b) ==
  {q \in PagesOf(b) : \A p \in b * Entries .. q : s.f.page[p].lu # FREE}

DeletedIn(s, b) == {q \in Written(s, b) : s.f.page[q].lu = DELETED}

Score(s, b) ==
  LET age == IF s.r.maxe > s.f.era[b] THEN s.r.maxe - s.f.era[b]
             ELSE ONES - (s.f.era[b] - s.r.maxe)
  IN 5 * Cardinality(DeletedIn(s, b))
     - Cardinality(Written(s, b) \ DeletedIn(s, b)) + 50 * age

\* The first of the blocks with the highest score, NONE if no page is deleted.
FindCandidate(s) ==
  LET cands == {b \in 0 .. Blocks - 1 : DeletedIn(s, b) # {}}
  IN IF cands = {} THEN NONE
     ELSE Least({b \in cands : \A c \in cands : Score(s, c) <= Score(s, b)})

\* Moves the data pages of one index page out of the block, noting their new
\* place in the index page in the work buffer.
Noted(m, entry) == Go(m, [m EXCEPT !.r.work.ix[entry] = m.ret])

MoveObjPage(s, q, id) ==
  Noted(IF "DELET" \in s.f.page[q].flags THEN [PageDelete(s, q) EXCEPT !.ret = FREE]
        ELSE PageMove(s, NoPage, id, q),
        IxEntry(s.f.page[q].span))

RECURSIVE MoveObjData(_, _, _, _)
MoveObjData(s, pages, id, ixspan) ==
  LET here == {q \in pages : s.f.page[q].lu = id
                             /\ IxSpan(s.f.page[q].span) = ixspan}
  IN IF s.res # "OK" \/ here = {} THEN s
     ELSE MoveObjData(MoveObjPage(s, Least(here), id), {p \in pages : p > Least(here)},
                      id, ixspan)

\* Wrong variant: a header's new references are not stored.
StoreMovedFurther(s, id, ixspan, ixpix) ==
  IF ixspan = 0 THEN s ELSE MoveIndex(s, id, ixpix)

StoreMoved(s, id, ixspan, ixpix) ==
  IF ixspan = 0 THEN UpdateIndexHdr(s, 0, id, ixpix, TRUE, NONE, 0)
  ELSE MoveIndex(s, id, ixpix)

\* Object by object and index page by index page, from the given page on.
MoveReferred(i, id, ixspan, pages) ==
  StoreMoved(MoveObjData(CheckWork(Load(i, i.ret), ixspan), pages, id, ixspan),
             id, ixspan, i.ret)

MoveData(s, q) ==
  LET id == s.f.page[q].lu
      ixspan == IxSpan(s.f.page[q].span)
  IN MoveReferred(FindIdAndSpan(s, AsIx(id), ixspan, NONE), id, ixspan, PagesOf(BlockOf(q)))

RECURSIVE CleanData(_, _)
CleanData(s, pages) ==
  LET data == {q \in pages : InUse(s.f.page[q].lu) /\ ~ IsIx(s.f.page[q].lu)}
  IN IF s.res # "OK" \/ data = {} THEN s
     ELSE CleanData(MoveData(s, Least(data)), {p \in pages : p > Least(data)})

Follow(m, id, span) == ObjectEvent(m, "UPD", id, span, m.ret, 0)

MoveIndexPage(s, q) ==
  LET id == s.f.page[q].lu
      span == s.f.page[q].span
  IN IF "DELET" \in s.f.page[q].flags
     THEN ObjectEvent(PageDelete(s, q), "DEL", id, span, q, 0)
     ELSE Follow(PageMove(s, NoPage, id, q), id, span)

RECURSIVE CleanIndex(_, _)
CleanIndex(s, pages) ==
  LET index == {q \in pages : InUse(s.f.page[q].lu) /\ IsIx(s.f.page[q].lu)}
  IN IF s.res # "OK" \/ index = {} THEN s
     ELSE CleanIndex(MoveIndexPage(s, Least(index)), {p \in pages : p > Least(index)})

\* Wrong variant: index pages are left in the block to be erased.
GcCleanData(s, b) == CleanData(s, PagesOf(b))

GcClean(s, b) ==
  LET c == IF s.r.fcb = b
           THEN [s EXCEPT !.r.fcb = (b + 1) % Blocks, !.r.fce = 0] ELSE s
  IN CleanIndex(CleanData(c, PagesOf(b)), PagesOf(b))

\* Wrong variant: deleted pages that are erased stay counted.
GcErasePageStatsLive(s, b) ==
  Tally(s, -Cardinality({q \in PagesOf(b) : InUse(s.f.page[q].lu)}), 0)

\* The pages of a block that is about to be erased are no longer counted.
GcErasePageStats(s, b) ==
  Tally(s, -Cardinality({q \in PagesOf(b) : InUse(s.f.page[q].lu)}),
        -Cardinality({q \in PagesOf(b) : s.f.page[q].lu = DELETED}))

GcBlock(s, b) ==
  EraseBlock(GcErasePageStats([GcClean([s EXCEPT !.r.cleaning = TRUE, !.r.work = Scratch], b)
                                 EXCEPT !.r.cleaning = FALSE], b), b)

\* Block by block until there is enough room, GC_MAX_RUNS blocks at most.
RECURSIVE GcRun(_, _, _)
GcEnough(e, len, tries) ==
  LET short == len > FreePages(e) * DataPageSize
      again == tries + 1 < GC_MAX_RUNS /\ (e.r.freeb <= 2 \/ short)
  IN CASE again -> GcRun(e, len, tries + 1)
       [] ~ again /\ short -> Check(e, "FULL")
       [] OTHER -> e

GcOn(s, b, len, tries) ==
  IF b = NONE THEN PutWork(s, Scratch) ELSE GcEnough(GcBlock(s, b), len, tries)

GcRun(s, len, tries) == Go(s, GcOn(s, FindCandidate(s), len, tries))

GcCheck(s, len) ==
  LET needed == (len + DataPageSize - 1) \div DataPageSize
  IN CASE s.res # "OK" \/ (s.r.freeb > 3 /\ len < FreePages(s) * DataPageSize) -> s
       [] s.res = "OK" /\ s.r.freeb <= 2 /\ needed > FreePages(s) -> Fail(s, "FULL")
       [] OTHER -> GcRun(s, len, 0)
=============================================================================
