-------------------------------- MODULE Spiffs --------------------------------
(***************************************************************************)
(* A program that uses spiffs: files are created, opened, written, read,   *)
(* renamed and removed, the file system is unmounted, mounted, checked and *)
(* formatted, and the power may go before any write of a call, after which *)
(* the file system is mounted and checked.                                 *)
(*                                                                         *)
(* files is what the callers may expect to read back, by name; after a     *)
(* call that failed, or was cut off by a power loss, the file it was       *)
(* changing is unknown until the volume is mounted again.                  *)
(***************************************************************************)
EXTENDS SpiffsApi

CONSTANTS Names,         \* file names
          Modes,         \* the sets of open flags callers use
          Lengths,       \* the lengths of the writes
          Volumes,       \* the flash images the system starts with
          Calls,         \* the calls made
          Careful,       \* callers keep to what CarefulOpen and Alone ask
          MaxCalls,      \* bound on the calls
          MaxLosses      \* bound on the power losses

ASSUME SpiffsAssumption ==
  /\ Modes \subseteq SUBSET {"RDONLY", "WRONLY", "APPEND", "TRUNC", "CREAT", "DIRECT"}
  /\ Lengths \subseteq Nat \ {0} /\ MaxCalls \in Nat /\ MaxLosses \in Nat
  /\ Names \subseteq 1 .. ONES - 1 /\ CacheCount > FdCount /\ Careful \in BOOLEAN

VARIABLES flash,         \* page contents and erase counts
          ram,           \* the spiffs structure
          files,         \* what callers may expect a file to hold
          owner,         \* the file a descriptor was opened for, 0 if none
          code,          \* the result of the last call
          calls, losses
vars == <<flash, ram, files, owner, code, calls, losses>>

Garbage == {0, PageCount}      \* values of an uninitialised page variable

Now == Enter(flash, ram)
OpenFds == {f \in DOMAIN ram.fds : ram.fds[f].open}
OpenFor(name) == {f \in OpenFds : owner[f] = name}
\* What is known of a file in an unknown state stays unknown.
Becomes(name, what) == [files EXCEPT ![name] = IF @ = Unknown THEN @ ELSE what]
Forget(names) == [n \in Names |-> IF n \in names THEN Unknown ELSE files[n]]

\* Files with bytes in the write cache.
Pending == {owner[f] : f \in {g \in OpenFds : PageOf(Now, g) # 0}}

Init ==
  /\ flash \in Volumes
  /\ ram = Mount(flash).r
  /\ files = [n \in Names |-> FileOf(Mount(flash), n)]
  /\ owner = [f \in 1 .. FdCount |-> 0]
  /\ code = "OK" /\ calls = 0 /\ losses = 0

Returns(r, fs, own) ==
  /\ flash' = r.f /\ ram' = r.r /\ code' = r.res
  /\ files' = fs /\ owner' = own
  /\ UNCHANGED losses

\* The power goes before one of the writes of the call.
PowerLoss(r, touched) ==
  /\ losses < MaxLosses
  /\ \E i \in DOMAIN r.hist : flash' = r.hist[i]
  /\ ram' = Unmounted /\ code' = "LOST"
  /\ files' = Forget(touched \cup Pending)
  /\ owner' = [f \in DOMAIN owner |-> 0]
  /\ losses' = losses + 1

May(call) == ram.mounted /\ call \in Calls /\ calls < MaxCalls
MayOn(f, call) == May(call) /\ f \in OpenFds /\ owner[f] \in Names

\* A file is unknown once its cached bytes could not be flushed.
Kept(r) == Forget({owner[f] : f \in r.unsaved})

\* A call that fails leaves the files it was to change in an unknown state.
Call(r, fs, own, touched) ==
  /\ calls' = calls + 1
  /\ \/ r.res \in {"OK", "CHECKED"} /\ Returns(r, fs, own)
     \/ r.res \notin {"OK", "CHECKED"} /\ Returns(r, IF r.f = flash /\ r.r.cps = ram.cps THEN files
                                 ELSE Forget(touched), owner)
     \/ PowerLoss(r, touched)

(***************************************************************************)
(* Calls on a name.                                                        *)
(***************************************************************************)
\* A file is not truncated under an open descriptor nor when it is empty, and
\* its descriptors are either all cached or all direct.
CarefulOpen(name, flags) ==
  /\ "TRUNC" \in flags => OpenFor(name) = {} /\ files[name] \notin {File(<<>>), Unknown}
  /\ \A f \in OpenFor(name) : ("DIRECT" \in flags) = ("DIRECT" \in ram.fds[f].flags)

SPIFFS_open(name, flags) ==
  /\ May("open")
  /\ Careful => CarefulOpen(name, flags)
  /\ \E r \in {Open(Now, name, flags)} :
       LET fresh == files[name].kind = "none" \/ "TRUNC" \in flags
       IN Call(r, IF fresh THEN Becomes(name, File(<<>>)) ELSE files,
               [f \in DOMAIN owner |-> IF f = r.ret THEN name ELSE owner[f]],
               IF fresh THEN {name} ELSE {})

SPIFFS_creat(name) ==
  /\ May("creat")
  /\ \E r \in {Creat(Now, name)} :
       Call(r, Becomes(name, File(<<>>)), owner,
            IF files[name].kind = "none" THEN {name} ELSE {})

\* A file is not removed under an open descriptor.
Alone(name, f) == OpenFor(name) \subseteq {f}

SPIFFS_remove(name) ==
  /\ May("remove")
  /\ Careful => Alone(name, 0)
  /\ \E r \in {Remove(Now, name)} :
       Call(r, Becomes(name, NoFile),
            [f \in DOMAIN owner |-> IF owner[f] = name THEN 0 ELSE owner[f]], {name})

SPIFFS_rename(old, new) ==
  /\ May("rename")
  /\ \E r \in {Rename(Now, old, new)} :
       Call(r, [Becomes(old, NoFile) EXCEPT ![new] = IF @ = Unknown THEN @ ELSE files[old]],
            [f \in DOMAIN owner |-> IF owner[f] = old THEN new ELSE owner[f]], {old, new})

(***************************************************************************)
(* Calls on an open file.                                                  *)
(***************************************************************************)
OnFile(f, r, fs, own) == Call(r, fs, own, {owner[f]})

Fill(len) == [i \in 1 .. len |-> calls + 1]

SPIFFS_write(f, len) ==
  LET name == owner[f]
      end == Len(files[name].bytes)
      at == IF "APPEND" \in ram.fds[f].flags THEN end ELSE ram.fds[f].fdoff
      written == IF files[name].kind # "file" THEN files
                 ELSE [files EXCEPT ![name].bytes = Overlay(@, Smaller(at, end), Fill(len))]
  IN /\ MayOn(f, "write")
     /\ \E r \in {Write(Now, f, Fill(len), local) : local \in Garbage} :
          OnFile(f, r, written, owner)

SPIFFS_read(f, len) ==
  /\ MayOn(f, "read")
  /\ \E r \in {Read(Now, f, len, local) : local \in Garbage} :
       OnFile(f, r, Kept(r), owner)

SPIFFS_lseek(f, offset) ==
  /\ MayOn(f, "lseek")
  /\ \E r \in {Seek(Now, f, offset, local) : local \in Garbage} :
       OnFile(f, r, Kept(r), owner)

SPIFFS_fflush(f) ==
  /\ MayOn(f, "fflush")
  /\ \E r \in {FlushCache(Now, f, local) : local \in Garbage} :
       OnFile(f, r, files, owner)

SPIFFS_fstat(f) ==
  /\ MayOn(f, "fstat")
  /\ \E r \in {FStat(Now, f, local) : local \in Garbage} :
       OnFile(f, r, Kept(r), owner)

SPIFFS_close(f) ==
  /\ MayOn(f, "close")
  /\ \E r \in {Close(Now, f, local) : local \in Garbage} :
       OnFile(f, r, Kept(r), [owner EXCEPT ![f] = 0])

SPIFFS_fremove(f) ==
  /\ MayOn(f, "fremove")
  /\ Careful => Alone(owner[f], f)
  /\ \E r \in {FRemove(Now, f)} :
       OnFile(f, r, Becomes(owner[f], NoFile),
              [g \in DOMAIN owner |-> IF owner[g] = owner[f] THEN 0 ELSE owner[g]])

(***************************************************************************)
(* The volume.                                                             *)
(***************************************************************************)
Closed == [f \in DOMAIN owner |-> 0]

SPIFFS_unmount ==
  /\ May("unmount")
  /\ \E r \in {Unmount(Now, local) : local \in Garbage} :
       Call(r, Kept(r), Closed, Pending)

SPIFFS_mount ==
  /\ ~ ram.mounted /\ code # "LOST"
  /\ Returns(Mount(flash), files, owner) /\ UNCHANGED calls

\* A format that a power loss cuts off is repeated before the volume is used.
SPIFFS_format ==
  /\ ~ ram.mounted /\ code # "LOST"
  /\ "format" \in Calls /\ calls < MaxCalls /\ calls' = calls + 1
  /\ \E r \in {Format(Now, 0)} : Returns(r, [n \in Names |-> NoFile], owner)

\* A check that met no failure leaves the code CHECKED.
Verdict(c) == [c EXCEPT !.res = IF @ = "OK" /\ c.stop = "OK" THEN "CHECKED" ELSE @]
Inspected(s, local) == Verdict(Checked(s, local))

\* Callers do not check under open descriptors.
SPIFFS_check ==
  /\ May("check") /\ OpenFds = {}
  /\ \E r \in {Inspected(Now, local) : local \in Garbage} : Call(r, files, owner, {})

\* After a power loss the file system is mounted and checked.
Recover ==
  /\ ~ ram.mounted /\ code = "LOST"
  /\ \E r \in {Inspected(Mount(flash), local) : local \in Garbage} :
       \/ Returns(r, Forget({n \in Names : FileOf(r, n) = NoFile /\ files[n] # NoFile}), owner)
       \/ PowerLoss(r, {})
  /\ UNCHANGED calls

Next ==
  \/ \E name \in Names :
       \/ \E flags \in Modes : SPIFFS_open(name, flags)
       \/ SPIFFS_creat(name)
       \/ SPIFFS_remove(name)
       \/ \E new \in Names : SPIFFS_rename(name, new)
  \/ \E f \in 1 .. FdCount :
       \/ \E len \in Lengths : SPIFFS_write(f, len) \/ SPIFFS_read(f, len)
       \/ \E offset \in {0} \cup Lengths : SPIFFS_lseek(f, offset)
       \/ SPIFFS_fflush(f) \/ SPIFFS_fstat(f) \/ SPIFFS_close(f) \/ SPIFFS_fremove(f)
  \/ SPIFFS_unmount \/ SPIFFS_mount \/ SPIFFS_format \/ SPIFFS_check \/ Recover

Spec == Init /\ [][Next]_vars
-----------------------------------------------------------------------------
TypeOK ==
  /\ DOMAIN flash.page = Pages /\ DOMAIN flash.era = 0 .. Blocks - 1
  /\ \A q \in Pages : /\ flash.page[q].lu \in 0 .. ONES /\ flash.page[q].size \in 0 .. ONES
                      /\ \A i \in DOMAIN flash.page[q].ix : flash.page[q].ix[i] \in 0 .. ONES
  /\ ram.mounted \in BOOLEAN
  /\ ram.mounted => /\ ram.freeb \in 0 .. Blocks
                    /\ ram.alloc \in 0 .. PageCount /\ ram.dele \in 0 .. PageCount
  /\ ram.cb \in 0 .. Blocks - 1 /\ ram.fcb \in 0 .. Blocks - 1
  /\ \A f \in OpenFds : IsIx(ram.fds[f].obj) /\ AsData(ram.fds[f].obj) \in 1 .. PageCount + 1
  /\ DOMAIN ram.fds = 1 .. FdCount /\ DOMAIN ram.cps = 1 .. CacheCount
  /\ \A n \in Names : files[n].kind \in {"none", "file", "unknown"}
  /\ \A f \in 1 .. FdCount : owner[f] \in Names \cup {0}
  /\ calls \in 0 .. MaxCalls /\ losses \in 0 .. MaxLosses

\* The volume once the cached bytes of a name are flushed.
Writers(name) == {f \in OpenFor(name) : PageOf(Now, f) # 0}
Settled(name) ==
  IF Writers(name) = {} THEN Now ELSE Flushed(Now, Least(Writers(name)), 0)

SavedAs(s, name) == s.unsaved # {} \/ FileOf(s, name) = files[name]
ReadAs(r, bytes) == r.unsaved # {} \/ (r.res = "OK" /\ r.out = bytes)

\* Every file holds the bytes that were written to it, in whatever order the
\* files were opened, written, renamed, flushed and removed, wherever garbage
\* collection moved their pages, and whether or not the bytes are still in the
\* write cache, as long as they fit (spiffs_hydrogen.c, spiffs_nucleus.c,
\* spiffs_gc.c).
FilesKept ==
  ram.mounted => \A n \in Names : files[n].kind # "unknown" => SavedAs(Settled(n), n)

\* A read through any open descriptor, also one that was opened before another
\* descriptor moved the pages of the file, returns the bytes of the file
\* (spiffs_cb_object_event keeps descriptors up to date).
DescriptorsRead ==
  LET rewound(f) == [Now EXCEPT !.r.fds[f].fdoff = 0, !.r.fds[f].flags = @ \cup {"RDONLY"}]
      known == {n \in Names : files[n].kind = "file" /\ files[n].bytes # <<>>}
  IN \A f \in OpenFds : owner[f] \in known =>
       ReadAs(Read(rewound(f), f, Len(files[owner[f]].bytes), 0), files[owner[f]].bytes)

\* The counters of allocated and deleted pages and of free blocks, on which
\* garbage collection and the test for a full volume rest, are what a count of
\* the lookup entries gives, after every call (spiffs_obj_lu_scan).
CountersAgree ==
  ram.mounted => LET c == ObjLuScan(Now).r
                 IN ram.alloc = c.alloc /\ ram.dele = c.dele /\ ram.freeb = c.freeb

\* The index headers of files that are not deleted.
Headers == {q \in Pages : IsListed(flash.page[q])}

\* A directory walk meets every file but one whose header is in the last entry
\* of a block, behind another header (SPIFFS_readdir).
ListingMeets ==
  ram.mounted => \A q \in Headers : \/ q \in Listed(Now, 0, 0)
                                    \/ EntryOf(q) = Entries - 1 /\ q - 1 \in Headers

\* The volume is sound after every call.  "If used number of bytes exceeds total
\* bytes ... this indicates a power loss": without one the pages in use never
\* exceed the total SPIFFS_info tells.  No two files have the same name: creating
\* and renaming look for the name first, and a moved header leaves no second one
\* behind; and a directory walk meets them.
Sound ==
  /\ TypeOK /\ ListingMeets
  /\ ram.mounted =>
       /\ ram.alloc <= TotalPages
       /\ \A p, q \in Headers : p # q => flash.page[p].name # flash.page[q].name

(***************************************************************************)
(* Power losses.                                                           *)
(***************************************************************************)
\* The check after a power loss ends: its repairs do not make it start over for
\* ever.  One that met no failure leaves no file that cannot be read in full: what
\* the interrupted call left half done is completed or undone.
Mended ==
  /\ code # "ENDLESS"
  /\ code = "CHECKED" => \A n \in Names : FileOf(Now, n).kind # "broken"

Recovered == code = "LOST" /\ code' = "CHECKED"
Gone == {n \in Names : files[n].kind = "file" /\ FileOf(Enter(flash', ram'), n) = NoFile}

\* The check never leaves a file that the interrupted call was not changing with
\* other bytes: it keeps them, or loses the file.
LostNotCorrupted ==
  [][Recovered => \A n \in Names \ Gone : files[n].kind # "unknown" =>
                    FileOf(Enter(flash', ram'), n) = files[n]]_vars

\* A power loss costs one such file at most.
LosesOneAtMost == [][Recovered => Cardinality(Gone) <= losses]_vars
=============================================================================
