----------------------------- MODULE SpiffsCheck -----------------------------
(***************************************************************************)
(* The consistency check of spiffs (spiffs_check.c), which is to be run    *)
(* after a power loss: the lookup entries against the page headers, the    *)
(* index pages against their headers, and the data pages against the index *)
(* pages that refer to them.                                               *)
(***************************************************************************)
EXTENDS SpiffsObjects

CONSTANT CheckRounds     \* bound on the restarts of the page check

MendFailures == {"OBJ_ID_MISM", "SPIX_MISM", "FLAGS_BAD"}

(***************************************************************************)
(* Repairs.                                                                *)
(***************************************************************************)
\* The index page that should refer to a data page is returned.
DataReference(s, id, spix) == FindIdAndSpan(s, AsIx(id), IxSpan(spix), NONE)

Referred(s, ixpix, spix) == s.f.page[ixpix].ix[IxEntry(spix)]

CopyInto(a, p) ==
  Wr(a, a.ret, [p EXCEPT !.lu = FREE, !.id = ONES, !.span = ONES, !.flags = {}])

RewritePage(s, pix, hdr) == CopyInto(AllocateData(s, hdr, Blank, FALSE), s.f.page[pix])

\* What keeps an index page from being copied.
IndexFault(p, id, spix) ==
  CASE p.id # AsIx(id) -> "OBJ_ID_MISM"
    [] p.id = AsIx(id) /\ p.span # IxSpan(spix) -> "SPIX_MISM"
    [] p.id = AsIx(id) /\ p.span = IxSpan(spix)
       /\ ~ ({"USED", "INDEX", "FINAL"} \subseteq p.flags
             /\ p.flags \cap {"IXDELE", "DELET"} = {}) -> "FLAGS_BAD"
    [] OTHER -> "OK"

\* A copy of the index page that refers to another data page.
RewriteAt(a, id, spix, new, ixpix) ==
  LET p == a.f.page[ixpix]
      fault == IndexFault(p, id, spix)
      image == [p EXCEPT !.lu = FREE, !.ix[IxEntry(spix)] = new]
  IN Go(a, IF fault # "OK" THEN Fail(PageDelete(a, a.ret), fault)
           ELSE PageDelete(Writes(a, a.ret, <<image, Lu(AsIx(id))>>), ixpix))

RewriteIndex(s, id, spix, new, ixpix) == RewriteAt(FindFree(s), id, spix, new, ixpix)

\* An object is deleted by marking its index header.
MarkDeleted(s, h) ==
  IF h.res = "NOT_FOUND" THEN s ELSE SetFlags(h, h.ret, {"IXDELE"})

\* Wrong variant: the object stays.
DeleteObjNever(s, id) == FindIdAndSpan(s, id, 0, NONE)

DeleteObjLazy(s, id) == MarkDeleted(s, FindIdAndSpan(s, id, 0, NONE))

\* An index page that cannot be copied costs the page that needs it, and the object.
GiveUp(m, id, worthless) ==
  IF m.res \in MendFailures
  THEN DeleteObjLazy(PageDelete([m EXCEPT !.res = "OK"], worthless), id) ELSE m

MendReference(s, id, spix, new, ixpix, worthless) ==
  GiveUp(RewriteIndex(s, id, spix, new, ixpix), id, worthless)

(***************************************************************************)
(* Lookup entries.                                                         *)
(***************************************************************************)
\* The page is written anew and its index page made to refer to the copy.
MendCopy(w, p, ixpix) == MendReference(w, p.id, p.span, w.ret, ixpix, w.ret)
MendData(s, pix, ixpix) == MendCopy(RewritePage(s, pix, s.f.page[pix]), s.f.page[pix], ixpix)

\* A data page without, or with a deleted, lookup entry is kept if its index
\* page refers to it; an index page, if it is the only one of its object.
RescueBy(s, i, pix) ==
  CASE i.res = "NOT_FOUND" -> s
    [] i.res = "OK" /\ Referred(i, i.ret, s.f.page[pix].span) = pix -> MendData(i, pix, i.ret)
    [] OTHER -> i

RescueData(s, pix) ==
  RescueBy(s, DataReference(s, s.f.page[pix].id, s.f.page[pix].span), pix)

RescueIndex(s, pix) ==
  LET p == s.f.page[pix]
      twin == FindIdAndSpan(s, AsIx(p.id), p.span, pix)
      head == FindIdAndSpanByPhdr(s, AsIx(p.id), 0, NONE)
  IN CASE twin.res = "OK" -> twin
       [] twin.res = "NOT_FOUND" /\ head.res = "OK" -> RewritePage(head, pix, p)
       [] OTHER -> s

\* Looks for pages of objects, one after the other; none is no failure, and ret
\* tells.  The contexts after each look are returned behind the first.
Look(s, id, span, except) ==
  [FindIdAndSpan([s EXCEPT !.ret = NONE], id, span, except) EXCEPT !.res = "OK"]

RECURSIVE Looks(_, _, _)
Looks(seen, sought, except) ==
  IF sought = <<>> THEN seen
  ELSE Looks(Append(seen, Look(seen[Len(seen)], Head(sought).id, Head(sought).span, except)),
             Tail(sought), except)

AsIndex(id, span) == [id |-> AsIx(id), span |-> span, flags |-> {"FINAL", "INDEX"}]
AsPlain(id, span) == [id |-> AsData(id), span |-> span, flags |-> {"FINAL"}]

\* An index page under the lookup entry of another object goes to the object
\* that misses one and has a first data page.  Where that page is not found,
\* the variable that tells so is not set (local): the index page is forgotten
\* instead.
GiveIndex(lu, ph, dataLu, dataPh, pix, local) ==
  LET p == lu.f.page[pix]
      told(d) == d.ret # NONE \/ local # 0
      both(a, b) == a.ret # NONE /\ b.ret # NONE
      heir == CASE both(lu, ph) -> NONE
                [] ~ both(lu, ph) /\ ~ both(ph, dataPh) /\ told(dataPh) -> p.id
                [] ~ both(lu, ph) /\ (both(ph, dataPh) \/ ~ told(dataPh))
                   /\ ~ both(lu, dataLu) /\ told(dataLu) -> p.lu
                [] OTHER -> NONE
  IN CASE both(lu, ph) -> ph
       [] ~ both(lu, ph) /\ heir = NONE -> dataPh
       [] OTHER -> RewritePage(dataPh, pix, AsIndex(heir, p.span))

MendSeen(seen, pix, local) == GiveIndex(seen[2], seen[3], seen[4], seen[5], pix, local)

MendIndex(s, pix, local) ==
  LET p == s.f.page[pix]
  IN MendSeen(Looks(<<s>>, <<AsIndex(p.lu, p.span), AsIndex(p.id, p.span),
                             AsPlain(p.lu, 0), AsPlain(p.id, 0)>>, NONE), pix, local)

\* An index page under a data page's lookup entry, or the other way round, is
\* written anew as what the object misses.
GiveKind(data, index, pix) ==
  LET p == data.f.page[pix]
  IN IF (data.ret = NONE) = (index.ret = NONE) THEN index
     ELSE RewritePage(index, pix, IF index.ret = NONE THEN AsIndex(p.lu, p.span)
                                  ELSE AsPlain(p.lu, p.span))

KindSeen(seen, pix) == GiveKind(seen[2], seen[3], pix)

MendKind(s, pix) ==
  LET p == s.f.page[pix]
  IN KindSeen(Looks(<<s>>, <<AsPlain(p.lu, p.span), AsIndex(p.lu, p.span)>>, pix), pix)

\* An unfinished page is finished if it is the one referred to.
FinalizeBy(s, i, pix) ==
  LET referred == i.res = "OK" /\ Referred(i, i.ret, s.f.page[pix].span) = pix
  IN CASE i.res = "NOT_FOUND" -> PageDelete(s, pix)
       [] referred -> SetFlags(i, pix, {"FINAL"})
       [] OTHER -> PageDelete(i, pix)

Finalize(s, pix) ==
  FinalizeBy(s, DataReference(s, s.f.page[pix].lu, s.f.page[pix].span), pix)

Lost(p) == \/ p.lu = DELETED /\ "DELET" \notin p.flags
           \/ p.lu = FREE /\ "USED" \in p.flags
OtherId(p) == InUse(p.lu) /\ AsIx(p.id) # AsIx(p.lu)
OtherKind(p) == InUse(p.lu) /\ AsIx(p.id) = AsIx(p.lu) /\ (IsIx(p.lu) # ("INDEX" \in p.flags))
Worthless(p) == "DELET" \in p.flags \/ "FINAL" \notin p.flags
                \/ {"INDEX", "IXDELE"} \subseteq p.flags

Saved(s, p, pix, local) ==
  LET index == "INDEX" \in p.flags
      other == OtherId(p) /\ ~ Worthless(p)
  IN CASE index /\ Lost(p) -> RescueIndex(s, pix)
       [] index /\ other -> MendIndex(s, pix, local)
       [] ~ index /\ (Lost(p) \/ other) -> RescueData(s, pix)
       [] OtherKind(p) -> MendKind(s, pix)
       [] OTHER -> s

LookupValidate(s, pix, local) ==
  LET p == s.f.page[pix]
      agree == InUse(p.lu) /\ ~ OtherId(p) /\ ~ OtherKind(p)
  IN CASE Lost(p) \/ OtherId(p) \/ OtherKind(p) \/ (agree /\ "DELET" \in p.flags) ->
            PageDelete(Saved(s, p, pix, local), pix)
       [] agree /\ p.flags \cap {"DELET", "FINAL"} = {} -> Finalize(s, pix)
       [] OTHER -> s

RECURSIVE LookupCheck(_, _, _)
LookupCheck(s, pix, local) ==
  IF s.res # "OK" \/ pix \notin Pages THEN s
  ELSE LookupCheck(LookupValidate(s, pix, local), pix + 1, local)

(***************************************************************************)
(* Index pages.  known is the table of the objects met: TRUE if reachable. *)
(* A page that is finished and not marked deleted is passed over.          *)
(***************************************************************************)
IndexValidate(s, pix, known) ==
  LET p == s.f.page[pix]
      id == AsData(p.lu)
      head == FindIdAndSpan(s, AsIx(p.lu), 0, NONE)
      note(reachable) == [i \in DOMAIN known \cup {id} |-> IF i = id THEN reachable ELSE known[i]]
      half == p.span = 0 /\ {"INDEX", "FINAL", "IXDELE"} \subseteq p.flags
              /\ "DELET" \notin p.flags
      sound == {"INDEX", "FINAL"} \subseteq p.flags
               /\ p.flags \cap {"DELET", "IXDELE"} = {}
      seen == id \in DOMAIN known
      orphan == IF seen THEN ~ known[id] ELSE head.res # "OK"
  IN CASE ~ (InUse(p.lu) /\ IsIx(p.lu)) \/ sound -> [s |-> s, known |-> known]
       [] InUse(p.lu) /\ IsIx(p.lu) /\ half -> [s |-> PageDelete(s, pix), known |-> known]
       [] InUse(p.lu) /\ IsIx(p.lu) /\ ~ half /\ ~ sound /\ p.span = 0 ->
            [s |-> s, known |-> IF seen THEN known ELSE note(TRUE)]
       [] OTHER -> [s |-> CASE orphan -> PageDelete(s, pix) [] ~ orphan /\ ~ seen -> head [] OTHER -> s,
                    known |-> IF seen THEN known ELSE note(~ orphan)]

RECURSIVE IndexCheck(_, _)
IndexCheck(c, pix) ==
  IF pix \notin Pages THEN c.s ELSE IndexCheck(IndexValidate(c.s, pix, c.known), pix + 1)

(***************************************************************************)
(* Data pages.  The work buffer is a bitmap of pages: here the sets of the *)
(* pages seen in use, seen as an index, and referred to.  Any repair but a *)
(* deletion starts over.                                                   *)
(***************************************************************************)
IsIndexPage(p) == {"INDEX", "USED"} \subseteq p.flags /\ p.flags \cap {"DELET", "IXDELE"} = {}
IsUsedPage(p) == "USED" \in p.flags /\ "DELET" \notin p.flags

SpanOf(p, i) == IF p.span = 0 THEN i ELSE HdrIxLen + IxLen * (p.span - 1) + i
EntriesOf(p) == 0 .. (IF p.span = 0 THEN HdrIxLen ELSE IxLen) - 1

\* Wrong variant: what an index page refers to is not looked at.
CheckReferenceTrusting(s, pix, i, refs) == [s |-> s, go |-> "next", refs |-> refs]

\* Another page that fits takes the place of a reference, a blank one that of
\* a reference outside the volume.
Remapped(m, p, pix, ref) ==
  CASE m.res \notin MendFailures -> m
    [] m.res \in MendFailures /\ ref \in Pages -> DeleteObjLazy([m EXCEPT !.res = "OK"], p.id)
    [] OTHER -> PageDelete([m EXCEPT !.res = "OK"], pix)

RemapTo(t, p, spix, pix, ref) ==
  Remapped(RewriteIndex(t, p.id, spix, t.ret, pix), p, pix, ref)

Remap(s, e, p, spix, pix, ref, refs) ==
  LET plain == [id |-> AsData(p.id), span |-> spix, flags |-> {"FINAL"}]
  IN IF e.res = "NOT_FOUND" /\ ref \in Pages
     THEN [s |-> DeleteObjLazy(s, p.id), go |-> "leave", refs |-> refs]
     ELSE [s |-> RemapTo(IF e.res = "NOT_FOUND" THEN AllocateData(s, plain, Blank, TRUE) ELSE e,
                         p, spix, pix, ref), go |-> "restart", refs |-> refs]

\* One reference: the state afterwards, and "next", "restart" or "leave" the
\* index page.
CheckReference(s, pix, i, refs) ==
  LET p == s.f.page[pix]
      spix == SpanOf(p, i)
      ref == p.ix[i]
      r == s.f.page[ref]
      fits == /\ r.id = AsData(p.id) /\ r.span = spix /\ "USED" \in r.flags
              /\ r.flags \cap {"DELET", "INDEX"} = {}
      elsewhere == FindIdAndSpan(s, AsData(p.id), spix, IF ref \in Pages THEN ref ELSE NONE)
  IN CASE ref = FREE \/ (ref \in Pages /\ fits /\ ref \notin refs) ->
            [s |-> s, go |-> "next", refs |-> refs \cup ({ref} \ {FREE})]
       [] ref \in Pages /\ fits /\ ref \in refs ->
            [s |-> PageDelete(DeleteObjLazy(s, p.id), pix), go |-> "restart", refs |-> refs]
       [] OTHER -> Remap(s, elsewhere, p, spix, pix, ref, refs)

RECURSIVE CheckIndexPage(_, _, _)
CheckIndexPage(c, pix, i) ==
  IF c.go # "next" \/ c.s.res # "OK" \/ i \notin EntriesOf(c.s.f.page[pix]) THEN c
  ELSE CheckIndexPage(CheckReference(c.s, pix, i, c.refs), pix, i + 1)

\* The bitmap over all pages in order, or a restart.
Mapped(c, m, pix, used) ==
  IF c.go = "restart" \/ c.s.res # "OK" THEN [m EXCEPT !.s = c.s, !.go = "restart"]
  ELSE [m EXCEPT !.s = c.s, !.used = used, !.index = @ \cup {pix}, !.refs = c.refs]

MapPage(m, pix) ==
  LET p == m.s.f.page[pix]
      used == IF IsUsedPage(p) THEN m.used \cup {pix} ELSE m.used
  IN IF ~ IsIndexPage(p) THEN [m EXCEPT !.used = used]
     ELSE Mapped(CheckIndexPage([s |-> m.s, go |-> "next", refs |-> m.refs], pix, 0),
                 m, pix, used)

RECURSIVE BuildMap(_, _)
BuildMap(m, pix) ==
  IF m.go = "restart" \/ pix \notin Pages THEN m ELSE BuildMap(MapPage(m, pix), pix + 1)

\* A page in use that no index page refers to: its index page is made to
\* refer to it if what it refers to is no good, else the page is deleted.
ReferTo(s, i, pix) ==
  LET p == s.f.page[pix]
      ref == Referred(i, i.ret, p.span)
      good(r) == /\ AsData(p.id) = r.id
                 /\ {"USED", "FINAL"} \subseteq r.flags /\ r.flags \cap {"INDEX", "DELET"} = {}
      better == ref \in Pages /\ good(i.f.page[ref])
  IN CASE i.res = "NOT_FOUND" -> [s |-> PageDelete(s, pix), go |-> "next"]
       [] i.res = "OK" /\ better -> [s |-> PageDelete(i, pix), go |-> "next"]
       [] i.res = "OK" /\ ~ better /\ ref # pix ->
            [s |-> MendReference(i, p.id, p.span, pix, i.ret, pix), go |-> "restart"]
       [] OTHER -> [s |-> i, go |-> "next"]

Unreferenced(s, pix) ==
  ReferTo(s, DataReference(s, s.f.page[pix].id, s.f.page[pix].span), pix)

Judged(c, m) == [m EXCEPT !.s = c.s, !.go = IF c.s.res = "OK" THEN c.go ELSE "restart"]

RECURSIVE CheckMap(_, _)
CheckMap(m, pix) ==
  IF m.go = "restart" \/ pix \notin Pages THEN m
  ELSE CheckMap(IF pix \in m.used \ (m.index \cup m.refs)
                THEN Judged(Unreferenced(m.s, pix), m) ELSE m, pix + 1)

RECURSIVE PageCheck(_, _)
PageAgain(m, rounds) ==
  CASE m.s.res # "OK" \/ m.go = "next" -> m.s
    [] m.s.res = "OK" /\ m.go # "next" /\ rounds = 0 -> Fail(m.s, "ENDLESS")
    [] OTHER -> PageCheck(m.s, rounds - 1)

PageCheck(s, rounds) ==
  PageAgain(CheckMap(BuildMap([s |-> s, go |-> "next", used |-> {}, index |-> {}, refs |-> {}],
                              0), 0), rounds)

(***************************************************************************)
(* The three checks, whatever each returns, and a new count.  s.stop is    *)
(* the last failure, which the code drops.                                 *)
(***************************************************************************)
Again(t) ==
  IF t.res \in {"OK", "ENDLESS"} THEN t ELSE [t EXCEPT !.stop = t.res, !.res = "OK"]

Rescan(s) == Go(s, ObjLuScan(s))

IndexesChecked(s) == IndexCheck([s |-> s, known |-> <<>>], 0)

Checked(s, local) ==
  Rescan(Again(PageCheck(Again(IndexesChecked(Again(LookupCheck(s, 0, local)))), CheckRounds)))
=============================================================================
