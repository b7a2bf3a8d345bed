------------------------------- MODULE SpiffsApi -------------------------------
(***************************************************************************)
(* The file API of spiffs (spiffs_hydrogen.c) with its write cache         *)
(* (spiffs_cache.c), call by call, over the storage layer.                 *)
(*                                                                         *)
(* A cache page keeps a write shorter than a page until another call       *)
(* flushes it.  Pages are read from the flash: the copies the read cache   *)
(* keeps are left out.                                                     *)
(***************************************************************************)
EXTENDS SpiffsCheck

(***************************************************************************)
(* Mounting.                                                               *)
(***************************************************************************)
NoCache == [used |-> FALSE, obj |-> 0, off |-> 0, bytes |-> <<>>]

Unmounted == [mounted |-> FALSE, work |-> Scratch, cb |-> 0, ce |-> 0, fcb |-> 0,
              fce |-> 0, freeb |-> 0, dele |-> 0, alloc |-> 0, maxe |-> 0,
              cleaning |-> FALSE, fds |-> [f \in 1 .. FdCount |-> NoFd],
              cps |-> [c \in 1 .. CacheCount |-> NoCache]]

Mount(f) == ObjLuScan(Enter(f, [Unmounted EXCEPT !.mounted = TRUE]))

\* Every block is erased, each with erase count 0.
RECURSIVE Format(_, _)
Format(s, b) ==
  IF b >= Blocks THEN s
  ELSE Format(EraseBlock([s EXCEPT !.r.maxe = 0], b), b + 1)

Formatted == [page |-> [q \in Pages |-> Blank], era |-> [b \in 0 .. Blocks - 1 |-> 0]]

(***************************************************************************)
(* The write cache: a page per object, found by its id.                    *)
(***************************************************************************)
PageOf(s, f) ==
  LET mine == {c \in DOMAIN s.r.cps : s.r.cps[c].used /\ s.r.cps[c].obj = s.r.fds[f].obj}
  IN CASE s.r.fds[f].cache # 0 -> s.r.fds[f].cache
       [] s.r.fds[f].cache = 0 /\ mine # {} -> Least(mine)
       [] OTHER -> 0

Release(s, c) ==
  [s EXCEPT !.r.fds = [f \in {g \in DOMAIN @ : @[g].open /\ @[g].cache = c} |->
                        [@[f] EXCEPT !.cache = 0]] @@ @,
            !.r.cps[c] = [@ EXCEPT !.used = FALSE, !.obj = 0]]

AppendRest(s, f, offset, bytes) ==
  IF bytes = <<>> THEN s ELSE ObjectAppend(s, f, offset, bytes)

HydroWrite(s, f, bytes, offset, local) ==
  LET size == s.r.fds[f].size
      inside == IF size # FREE /\ offset < size THEN Smaller(size - offset, Len(bytes)) ELSE 0
  IN AppendRest(IF inside = 0 THEN s
                ELSE ObjectModify(s, f, offset, SubSeq(bytes, 1, inside), local),
                f, offset + inside, SubSeq(bytes, inside + 1, Len(bytes)))

\* The cached write is dropped whether or not writing it back succeeded.
WriteBack(s, f, c, local) ==
  Release(HydroWrite(s, f, s.r.cps[c].bytes, s.r.cps[c].off, local), c)

FlushCache(s, f, local) ==
  LET c == PageOf(s, f)
  IN IF "DIRECT" \in s.r.fds[f].flags \/ c = 0 THEN s
     ELSE WriteBack([s EXCEPT !.r.fds[f].cache = c], f, c, local)

\* Callers but fflush ignore how the flush went.
Unsaved(t, f) ==
  IF t.res = "OK" THEN t ELSE [t EXCEPT !.res = "OK", !.unsaved = @ \cup {f}]

Flushed(s, f, local) == Unsaved(FlushCache(s, f, local), f)

Allocate(s, f, offset) ==
  LET free == {c \in DOMAIN s.r.cps : ~ s.r.cps[c].used}
      c == Least(free)
  IN IF free = {} THEN [s EXCEPT !.r.fds[f].cache = 0]
     ELSE [s EXCEPT !.r.fds[f].cache = c,
                    !.r.cps[c] = [used |-> TRUE, obj |-> s.r.fds[f].obj, off |-> offset,
                                  bytes |-> <<>>]]

Overlay(old, at, bytes) ==
  [i \in 1 .. Larger(Len(old), at + Len(bytes)) |->
     IF i - at \in DOMAIN bytes THEN bytes[i - at] ELSE old[i]]

(***************************************************************************)
(* The calls on an open file.                                              *)
(***************************************************************************)
Advance(s, f, n) == Go(s, [s EXCEPT !.r.fds[f].fdoff = @ + n])

WriteOffset(s, f) ==
  LET fd == s.r.fds[f]
      end == IF fd.size = FREE THEN 0 ELSE fd.size
      cp == s.r.cps[fd.cache]
  IN CASE "APPEND" \notin fd.flags -> fd.fdoff
       [] "APPEND" \in fd.flags /\ fd.cache = 0 -> end
       [] OTHER -> Larger(end, cp.off + Len(cp.bytes))

\* A write straight to the flash.
RECURSIVE WriteStraight(_, _, _, _, _, _)
WriteStraight(s, f, bytes, offset, times, local) ==
  IF times = 0 THEN s
  ELSE WriteStraight(HydroWrite(s, f, bytes, offset, local), f, bytes, offset, times - 1, local)

PutBytes(s, f, bytes, offset, small, times, local) ==
  LET d == s.r.fds[f].cache
  IN IF small /\ d # 0
     THEN [s EXCEPT !.r.cps[d].bytes = Overlay(@, offset - s.r.cps[d].off, bytes)]
     ELSE WriteStraight(s, f, bytes, offset, times, local)

WriteInto(s, f, bytes, offset, small, fits, times, local) ==
  Go(s, PutBytes(IF small /\ ~ fits THEN Allocate(s, f, offset) ELSE s,
                 f, bytes, offset, small, times, local))

\* A write behind or before the cached bytes, and a long one, flushes them; the
\* long one is then done twice.
WriteAt(s, f, bytes, offset, local) ==
  LET c == s.r.fds[f].cache
      cp == s.r.cps[c]
      direct == "DIRECT" \in s.r.fds[f].flags
      small == Len(bytes) < LogPageSize /\ ~ direct
      fits == /\ small /\ c # 0 /\ cp.off <= offset /\ offset <= cp.off + Len(cp.bytes)
              /\ offset + Len(bytes) <= cp.off + LogPageSize
      flush == c # 0 /\ ~ direct /\ ~ fits
  IN WriteInto(IF flush THEN WriteBack(s, f, c, local) ELSE s, f, bytes, offset, small, fits,
               IF flush /\ ~ small THEN 2 ELSE 1, local)

Write(s, f, bytes, local) ==
  LET t == [s EXCEPT !.r.fds[f].cache = PageOf(s, f)]
  IN IF "WRONLY" \notin s.r.fds[f].flags THEN Fail(s, "NOT_WRITABLE")
     ELSE Advance(WriteAt(t, f, bytes, WriteOffset(t, f), local), f, Len(bytes))

ReadFile(s, f, len) ==
  LET fd == s.r.fds[f]
      n == Smaller(len, fd.size - fd.fdoff)
  IN IF n <= 0 THEN Fail(s, "END_OF_OBJECT")
     ELSE Advance(ObjectRead(s, f, fd.fdoff, n), f, n)

Read(s, f, len, local) ==
  IF "RDONLY" \notin s.r.fds[f].flags THEN Fail(s, "NOT_READABLE")
  ELSE ReadFile(Flushed(s, f, local), f, len)

CursorTo(i, f, ixspan) == SetCursor(i, f, i.ret, ixspan)

SeekIndex(s, f, offset) ==
  LET ixspan == IxSpan(offset \div DataPageSize)
      fd == s.r.fds[f]
      behind == fd.size = FREE \/ offset > fd.size
  IN CASE behind -> Fail(s, "END_OF_OBJECT")
       [] ~ behind /\ fd.cspix = ixspan -> s
       [] OTHER -> CursorTo(FindIdAndSpan(s, AsIx(fd.obj), ixspan, NONE), f, ixspan)

SetOffset(s, f, offset) == Go(s, [s EXCEPT !.r.fds[f].fdoff = offset])

Seek(s, f, offset, local) ==
  SetOffset(SeekIndex(Flushed(s, f, local), f, offset), f, offset)

Close(s, f, local) == FdReturn(Flushed(s, f, local), f)

FRemove(s, f) ==
  LET c == s.r.fds[f].cache
  IN IF "WRONLY" \notin s.r.fds[f].flags THEN Fail(s, "NOT_WRITABLE")
     ELSE ObjectTruncate(IF c = 0 THEN s ELSE Release(s, c), f, TRUE)

FStat(s, f, local) == Flushed(s, f, local)

\* The open descriptors from f to last are closed in order.
RECURSIVE CloseAll(_, _, _, _)
CloseAll(s, f, last, local) ==
  IF f > last THEN s
  ELSE CloseAll(IF s.r.fds[f].open THEN Close(s, f, local) ELSE s, f + 1, last, local)

Unmount(s, local) == [CloseAll(s, 1, FdCount, local) EXCEPT !.r.mounted = FALSE]

(***************************************************************************)
(* The calls on a name.                                                    *)
(***************************************************************************)
\* A call that took a descriptor and failed gives it back.
GiveBack(s, f) == IF s.res = "OK" THEN s ELSE FdReturn(s, f)

CreateFree(i, name) == ObjectCreate(i, i.ret, name)
Creat(s, name) == CreateFree(FindFreeObjId(s, name), name)

\* The page found is opened.
OpenFound(s, f, flags) == OpenByPage(s, f, s.ret, flags)

Cut(s, f, truncate) == IF truncate THEN ObjectTruncate(s, f, FALSE) ELSE s
AtStart(s, f) == Go(s, [s EXCEPT !.r.fds[f].fdoff = 0, !.ret = f])

OpenOn(d, f, name, flags) ==
  LET found == FindHeaderByName(d, name)
      create == "CREAT" \in flags /\ found.res = "NOT_FOUND"
  IN Go(d, GiveBack(AtStart(
       Cut(OpenFound(IF create THEN CreateFree(FindFreeObjId(d, NONE), name) ELSE found,
                     f, flags), f, "TRUNC" \in flags /\ ~ create), f), f))

OpenNew(d, name, flags) == OpenOn(d, d.ret, name, flags)
Open(s, name, flags) == OpenNew(FdFindNew(s), name, flags)

RemoveOn(d, name) ==
  Go(d, GiveBack(ObjectTruncate(OpenFound(FindHeaderByName(d, name), d.ret, {}), d.ret, TRUE),
                 d.ret))

Remove(s, name) == RemoveOn(FdFindNew(s), name)

\* On success the descriptor is not given back.
RenameOn(d, pix, new) ==
  Go(d, GiveBack(UpdateHdrOf(OpenByPage(d, d.ret, pix, {}), d.ret, FALSE, new, 0), d.ret))

RenameFound(h, new) ==
  LET clash == FindHeaderByName(h, new)
  IN Go(h, IF clash.res = "OK" THEN Fail(clash, "CONFLICTING_NAME")
           ELSE RenameOn(FdFindNew(h), h.ret, new))

Rename(s, old, new) == RenameFound(FindHeaderByName(s, old), new)

(***************************************************************************)
(* Directory listing and space.                                            *)
(***************************************************************************)
IsListed(p) == InUse(p.lu) /\ IsIx(p.lu) /\ IsHeader(p)

\* A walk goes on behind the header it met last.  Where that is the last entry
\* of a block it goes on in the next block, behind the last block in the first.
RECURSIVE Listed(_, _, _)
Listed(s, b, e) ==
  LET rest == {q \in StartPix(b, e) .. PageCount - 1 : IsListed(s.f.page[q])}
      pix == Least(rest)
  IN CASE rest = {} -> {}
       [] rest # {} /\ pix < b * Entries + e -> {NONE}
       [] OTHER -> {pix} \cup Listed(s, BlockOf(pix), EntryOf(pix) + 1)

TotalPages == (Blocks - 2) * Entries + 1

\* What is read back of a name on a volume, through a new descriptor.
NoFile == [kind |-> "none", bytes |-> <<>>]
File(bytes) == [kind |-> "file", bytes |-> bytes]
Unknown == [kind |-> "unknown", bytes |-> <<>>]

AsFile(r) == IF r.res = "OK" THEN File(r.out) ELSE [kind |-> "broken", bytes |-> r.out]

FileAt(h) ==
  LET size == h.f.page[h.ret].size
  IN IF h.res # "OK" THEN NoFile
     ELSE AsFile(ObjectRead(OpenByPage(h, 1, h.ret, {}), 1, 0, IF size = FREE THEN 0 ELSE size))

FileOf(s, name) == FileAt(FindHeaderByName(s, name))
=============================================================================
