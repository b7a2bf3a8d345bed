---------------------------- MODULE SpiffsObjects ----------------------------
(***************************************************************************)
(* Objects of spiffs (spiffs_nucleus.c): an object index header page with  *)
(* the name, the size and the first data pages, further index pages, and   *)
(* data pages.  Creating, opening, appending to, modifying, truncating and *)
(* reading an object, and the file descriptors.                            *)
(*                                                                         *)
(* A loop that ends early with a code stops (s.stop) and its caller still  *)
(* stores the index page; any other failure returns at once (s.res).       *)
(***************************************************************************)
EXTENDS SpiffsNucleus

Stop(s) == [s EXCEPT !.stop = s.res, !.res = "OK"]

\* The index page whose copy is in the work buffer.
IxPix(s, f) == IF s.ix = 0 THEN s.r.fds[f].hdr ELSE s.r.fds[f].cpix

SetCursor(s, f, pix, ixspan) ==
  Go(s, [s EXCEPT !.r.fds[f].cpix = pix, !.r.fds[f].cspix = ixspan])

SetSize(s, f, size) == Go(s, [s EXCEPT !.r.fds[f].size = size])

\* The work buffer now holds this index page.
AtIndex(s, ixspan) == Go(s, [s EXCEPT !.ix = ixspan])

\* The header of an open file is replaced.
UpdateHdrOf(s, f, loaded, name, size) ==
  UpdateIndexHdr(s, f, s.r.fds[f].obj, s.r.fds[f].hdr, loaded, name, size)

\* Loads an index page into the work buffer and checks it.
LoadIndex(s, pix, ixspan) == CheckWork(Load(s, pix), ixspan)

FindIndex(s, f, ixspan) ==
  IF ixspan = 0 THEN Go(s, [s EXCEPT !.ret = s.r.fds[f].hdr])
  ELSE FindIdAndSpan(s, AsIx(s.r.fds[f].obj), ixspan, NONE)

\* The descriptor remembers the last index page it used.
FindIndexCached(s, f, ixspan) ==
  IF ixspan # 0 /\ s.r.fds[f].cspix = ixspan
  THEN Go(s, [s EXCEPT !.ret = s.r.fds[f].cpix]) ELSE FindIndex(s, f, ixspan)

\* Loads the index page that was found.
OpenIndex(found, f, ixspan) ==
  SetCursor(LoadIndex(found, found.ret, ixspan), f, found.ret, ixspan)

DataHeader(s, f, spix, flags) ==
  [id |-> AsData(s.r.fds[f].obj), span |-> spix, flags |-> flags]

(***************************************************************************)
(* Creating and opening.  A free id is the lowest one no lookup entry has; *)
(* the search refuses the name of an existing file and uses the work       *)
(* buffer as its bitmap.                                                   *)
(***************************************************************************)
\* Wrong variant: existing names are not looked for.
FindFreeObjIdAnyName(s, name) ==
  LET taken == {AsData(s.f.page[q].lu) : q \in {p \in Pages : InUse(s.f.page[p].lu)}}
  IN [s EXCEPT !.r.work = Scratch, !.ret = Least((1 .. PageCount + 1) \ taken)]

FindFreeObjId(s, name) ==
  LET scratch == [s EXCEPT !.r.work = Scratch]
      taken == {AsData(s.f.page[q].lu) : q \in {p \in Pages : InUse(s.f.page[p].lu)}}
      clash == \E q \in Pages : /\ InUse(s.f.page[q].lu) /\ IsIx(s.f.page[q].lu)
                                /\ IsHeader(s.f.page[q]) /\ s.f.page[q].name = name
  IN IF clash THEN Fail(scratch, "CONFLICTING_NAME")
     ELSE [scratch EXCEPT !.ret = Least((1 .. PageCount + 1) \ taken)]

CreateAt(a, id, name) ==
  LET head == [Blank EXCEPT !.id = AsIx(id), !.span = 0, !.name = name,
                            !.flags = {"FINAL", "INDEX", "USED"}]
  IN ObjectEvent(Writes(Tally(a, 1, 0), a.ret, <<Lu(AsIx(id)), head>>),
                 "NEW", id, 0, a.ret, FREE)

ObjectCreate(s, id, name) == CreateAt(FindFree(GcCheck(s, DataPageSize)), id, name)

OpenByPage(s, f, pix, flags) ==
  LET page == s.f.page[pix]
  IN Go(s, Check([s EXCEPT !.r.fds[f] = [@ EXCEPT !.obj = page.lu, !.hdr = pix,
                                                  !.size = page.size, !.cpix = pix,
                                                  !.cspix = 0, !.flags = flags]],
                 ValidateObjix(page, 0)))

FreeFds(s) == {f \in DOMAIN s.r.fds : ~ s.r.fds[f].open}

FdFindNew(s) ==
  IF FreeFds(s) = {} THEN Fail(s, "OUT_OF_FILE_DESCS")
  ELSE [s EXCEPT !.ret = Least(FreeFds(s)), !.r.fds[Least(FreeFds(s))].open = TRUE]

FdReturn(s, f) == [s EXCEPT !.r.fds[f].open = FALSE]

(***************************************************************************)
(* Appending.  The first write of an empty object (offset 0) completes the *)
(* index header in place; otherwise the header moves to a new page.        *)
(***************************************************************************)
StoreInPlace(s, f, size) ==
  LET image == IF s.ix = 0 THEN [s.r.work EXCEPT !.size = size] ELSE s.r.work
  IN Wr(Check(PutWork(s, image), PageIndexCheck(s, IxPix(s, f), s.ix)), IxPix(s, f), image)

Announce(s, f, size) ==
  ObjectEvent(s, "UPD", s.r.fds[f].obj, s.r.work.span, IxPix(s, f), size)

\* A further index page is announced and the header takes the new size.
StoreAppended(s, f, offset) ==
  LET size == offset + s.n
  IN IF s.ix = 0 /\ offset = 0 THEN StoreInPlace(s, f, size)
     ELSE UpdateHdrOf(IF s.ix = 0 THEN s ELSE Announce(StoreInPlace(s, f, size), f, 0),
                      f, s.ix = 0, NONE, size)

NewIndexAt(a, f, hdr) ==
  SetCursor(PutWork(ObjectEvent(a, "NEW", hdr.id, hdr.span, a.ret, 0),
                    [Flags({"FINAL", "INDEX", "USED"}) EXCEPT !.id = hdr.id,
                                                              !.span = hdr.span]),
            f, a.ret, hdr.span)

NewIndex(s, f, ixspan) ==
  LET hdr == [id |-> AsIx(s.r.fds[f].obj), span |-> ixspan, flags |-> {"FINAL", "INDEX"}]
  IN NewIndexAt(AllocateData(s, hdr, Blank, TRUE), f, hdr)

\* The next index page is a new one, or one the file already has.
FurtherIndex(s, f, ixspan) ==
  IF s.n > 0 \/ ixspan > IxSpan((s.r.fds[f].size - 1) \div DataPageSize)
  THEN NewIndex(s, f, ixspan) ELSE OpenIndex(FindIndexCached(s, f, ixspan), f, ixspan)

AppendOpen(s, f, ixspan, size) ==
  AtIndex(IF ixspan = 0 THEN LoadIndex(s, s.r.fds[f].hdr, 0)
          ELSE SetSize(FurtherIndex(s, f, ixspan), f, size), ixspan)

AppendIndex(s, f, offset, ixspan) ==
  LET size == offset + s.n
  IN IF ixspan = s.ix THEN s
     ELSE AppendOpen(IF s.n = 0 THEN s ELSE SetSize(StoreAppended(s, f, offset), f, size),
                     f, ixspan, size)

\* The index page in the work buffer refers to the page now.
Refer(s, entry, pix, len) ==
  Go(s, [s EXCEPT !.r.work.ix[entry] = pix, !.pix = pix, !.n = @ + len])

ReferNew(a, entry, len) == IF a.res = "OK" THEN Refer(a, entry, a.ret, len) ELSE Stop(a)

\* A new page, or the free rest of the last one.
AppendPage(s, f, spix, at, piece, len) ==
  LET entry == IxEntry(spix)
      last == s.r.work.ix[entry]
  IN Go(s, IF at = 0
           THEN ReferNew(AllocateData(s, DataHeader(s, f, spix, {"FINAL"}), piece, TRUE),
                         entry, len)
           ELSE Refer(Wr(Check(s, PageDataCheck(s, last, spix)), last, piece),
                      entry, last, len))

RECURSIVE AppendPages(_, _, _, _)
AppendPages(s, f, offset, bytes) ==
  LET spix == (offset + s.n) \div DataPageSize
      at == (offset + s.n) % DataPageSize
      len == Smaller(Len(bytes) - s.n, DataPageSize - at)
      piece == Bytes(at, SubSeq(bytes, s.n + 1, s.n + len))
  IN IF {s.res, s.stop} # {"OK"} \/ s.n >= Len(bytes) THEN s
     ELSE AppendPages(AppendPage(AppendIndex(s, f, offset, IxSpan(spix)), f, spix, at,
                                 piece, len), f, offset, bytes)

AnnounceFirst(s, f, offset, size) ==
  IF s.ix = 0 /\ offset = 0 THEN Announce(s, f, size) ELSE s

FinishAppend(s, f, offset) ==
  LET size == offset + s.n
      sized == SetCursor(SetSize(s, f, size), f, IxPix(s, f), s.ix)
  IN Go(s, AnnounceFirst(StoreAppended(sized, f, offset), f, offset, size))

\* What a loop that stopped returns once the index is stored.
Result(s) == Check(s, s.stop)

ObjectAppend(s, f, at, bytes) ==
  LET offset == Smaller(at, s.r.fds[f].size)
      start == [s EXCEPT !.n = 0, !.ix = NONE, !.stop = "OK"]
  IN Result(FinishAppend(AppendPages(GcCheck(start, Len(bytes) + DataPageSize),
                                     f, offset, bytes), f, offset))

(***************************************************************************)
(* Modifying.  Every touched data page and index page moves to a new page. *)
(***************************************************************************)
ModifiedAt(m, f) == SetCursor(m, f, m.ret, m.ix)

StoreModified(s, f) ==
  IF s.ix = 0 THEN UpdateHdrOf(s, f, TRUE, NONE, 0)
  ELSE ModifiedAt(MoveIndex(Check(s, PageIndexCheck(s, IxPix(s, f), s.ix)),
                            s.r.fds[f].obj, IxPix(s, f)), f)

ModifyIndex(s, f, ixspan) ==
  IF ixspan = s.ix THEN s
  ELSE AtIndex(OpenIndex(FindIndexCached(IF s.n = 0 THEN s ELSE StoreModified(s, f),
                                         f, ixspan), f, ixspan), ixspan)

\* A page of which a part is rewritten: the rest is copied from the old page.
RewriteIn(a, bytes, at, piece, len) ==
  LET copy(from, to) ==
        [Blank EXCEPT !.data = [i \in DOMAIN @ |-> IF i \in from .. to THEN bytes[i] ELSE ONES]]
  IN Writes(a, a.ret, <<copy(0, at - 1), copy(at + len, DataPageSize - 1), piece,
                        Flags({"FINAL", "USED"})>>)

Rewritten(s, f, spix, old, at, piece, len) ==
  RewriteIn(AllocateData(s, DataHeader(s, f, spix, {}), Blank, FALSE),
            s.f.page[old].data, at, piece, len)

\* A full page whose allocation failed is not noticed: the old page is
\* deleted and the index gets whatever page the local variable (s.pix) held.
Replace(a, old, whole, entry, len) ==
  IF a.res = "OK" \/ whole
  THEN Refer(PageDelete([a EXCEPT !.res = "OK"], old), entry,
             IF a.res = "OK" THEN a.ret ELSE a.pix, len)
  ELSE Stop(a)

ModifyPage(s, f, spix, old, at, piece, len) ==
  LET whole == at = 0 /\ len = DataPageSize
      found == IF whole THEN "OK" ELSE PageDataCheck(s, old, spix)
  IN CASE s.res # "OK" -> s
       [] s.res = "OK" /\ found # "OK" -> Fail(s, found)
       [] OTHER -> Replace(IF whole THEN AllocateData(s, DataHeader(s, f, spix, {}), piece, TRUE)
                            ELSE Rewritten(s, f, spix, old, at, piece, len),
                            old, whole, IxEntry(spix), len)

ModifyIn(s, f, spix, at, piece, len) ==
  ModifyPage(s, f, spix, s.r.work.ix[IxEntry(spix)], at, piece, len)

RECURSIVE ModifyPages(_, _, _, _)
ModifyPages(s, f, offset, bytes) ==
  LET spix == (offset + s.n) \div DataPageSize
      at == (offset + s.n) % DataPageSize
      len == Smaller(Len(bytes) - s.n, DataPageSize - at)
      piece == Bytes(at, SubSeq(bytes, s.n + 1, s.n + len))
  IN IF {s.res, s.stop} # {"OK"} \/ s.n >= Len(bytes) THEN s
     ELSE ModifyPages(ModifyIn(ModifyIndex(s, f, IxSpan(spix)), f, spix, at, piece, len),
                      f, offset, bytes)

\* Without a page for the last index page the cursor gets a variable not set.
LeaveCursor(m, f, local) ==
  IF m.ix # 0 /\ m.res \in {"FULL", "NOT_FOUND"}
  THEN [m EXCEPT !.r.fds[f].cpix = local, !.r.fds[f].cspix = m.ix] ELSE m

FinishModify(s, f, local) ==
  Go(s, LeaveCursor(StoreModified(SetCursor(s, f, IxPix(s, f), s.ix), f), f, local))

ObjectModify(s, f, offset, bytes, local) ==
  LET start == [s EXCEPT !.n = 0, !.ix = NONE, !.pix = local, !.stop = "OK"]
  IN Result(FinishModify(ModifyPages(GcCheck(start, Len(bytes) + DataPageSize),
                                     f, offset, bytes), f, local))

(***************************************************************************)
(* Truncating to nothing, or removing, from the end.  s.n is what is left. *)
(***************************************************************************)
\* An index page is deleted; the descriptors of the file are told.
Removed(s, f, pix, ixspan) ==
  ObjectEvent(PageDelete(Check(s, PageIndexCheck(s, pix, ixspan)), pix),
              "DEL", s.r.fds[f].obj, ixspan, pix, 0)

DropIndex(s, f) ==
  LET pix == IxPix(s, f)
  IN SetSize(UpdateHdrOf(Removed(s, f, pix, s.ix), f, FALSE, NONE, s.n), f, s.n)

TruncateIndex(s, f, ixspan) ==
  IF ixspan = s.ix THEN s
  ELSE AtIndex(OpenIndex(FindIndex(IF s.ix = NONE THEN s ELSE DropIndex(s, f), f, ixspan),
                         f, ixspan), ixspan)

\* A page that is deleted already, or no page, is passed over.
TruncatePage(s, f, spix) ==
  LET entry == IxEntry(spix)
      pix == s.r.work.ix[entry]
      found == PageDataCheck(s, pix, spix)
      left == spix * DataPageSize
  IN CASE s.res # "OK" -> s
       [] s.res = "OK" /\ found \notin {"OK", "DELETED", "INDEX_REF_FREE"} ->
            [s EXCEPT !.r.work.ix[entry] = FREE, !.stop = found]
       [] OTHER -> [IF found = "OK" THEN PageDelete(s, pix) ELSE s
                      EXCEPT !.r.work.ix[entry] = FREE, !.n = left, !.r.fds[f].size = left]

RECURSIVE TruncatePages(_, _)
TruncatePages(s, f) ==
  LET spix == (s.n - 1) \div DataPageSize
  IN IF {s.res, s.stop} # {"OK"} \/ s.n = 0 THEN s
     ELSE TruncatePages(TruncatePage(TruncateIndex(s, f, IxSpan(spix)), f, spix), f)

StoreTruncated(s, f) ==
  CASE s.ix > 0 -> StoreModified(s, f)
    [] s.ix <= 0 /\ s.n = 0 -> [s EXCEPT !.r.work.ix = [i \in DOMAIN @ |-> FREE]]
    [] OTHER -> s

FinishTruncate(s, f, remove) ==
  LET empty == s.ix <= 0 /\ s.n = 0
  IN Go(s, SetSize(IF empty /\ remove THEN Removed(s, f, s.r.fds[f].hdr, 0)
                   ELSE UpdateHdrOf(StoreTruncated(s, f), f, s.ix <= 0, NONE,
                                    IF empty THEN FREE ELSE s.n), f, s.n))

Marked(s, f, remove) ==
  IF remove THEN SetFlags(s, s.r.fds[f].hdr, {"USED", "INDEX", "FINAL", "IXDELE"}) ELSE s

ObjectTruncate(s, f, remove) ==
  LET left == IF s.r.fds[f].size = FREE THEN 0 ELSE s.r.fds[f].size
      start == [s EXCEPT !.n = left, !.ix = NONE, !.stop = "OK"]
  IN FinishTruncate(
       TruncatePages(Marked(GcCheck(start, IF remove THEN 0 ELSE DataPageSize), f, remove), f),
       f, remove)

(***************************************************************************)
(* Reading.                                                                *)
(***************************************************************************)
ReadIndex(s, f, ixspan) ==
  IF ixspan = s.ix THEN s
  ELSE AtIndex(OpenIndex(FindIndex(s, f, ixspan), f, ixspan), ixspan)

ReadFrom(s, pix, spix, at, len) ==
  LET read == [k \in 1 .. len |-> s.f.page[pix].data[at + k - 1]]
      found == IF len = 0 THEN "END_OF_OBJECT" ELSE PageDataCheck(s, pix, spix)
  IN Go(s, IF found = "OK" THEN [s EXCEPT !.out = @ \o read] ELSE Fail(s, found))

ReadPage(s, spix, at, len) == ReadFrom(s, s.r.work.ix[IxEntry(spix)], spix, at, len)

RECURSIVE ReadPages(_, _, _, _)
ReadPages(s, f, offset, len) ==
  LET spix == offset \div DataPageSize
      at == offset % DataPageSize
      now == Smaller(Smaller(len, DataPageSize - at), s.r.fds[f].size)
  IN IF s.res # "OK" \/ len = 0 THEN s
     ELSE ReadPages(ReadPage(ReadIndex(s, f, IxSpan(spix)), spix, at, now),
                    f, offset + now, len - now)

ObjectRead(s, f, offset, len) ==
  ReadPages([s EXCEPT !.ix = NONE, !.out = <<>>], f, offset, len)
=============================================================================
