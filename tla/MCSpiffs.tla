------------------------------ MODULE MCSpiffs ------------------------------
(***************************************************************************)
(* Small volumes for TLC: an empty one, and one made nearly full of live   *)
(* and deleted pages by writing three files, one of them twice.            *)
(***************************************************************************)
EXTENDS Spiffs

RDWR == {"RDONLY", "WRONLY"}
MCModes == {RDWR \cup {"CREAT"}, RDWR \cup {"CREAT", "APPEND"}, {"WRONLY", "TRUNC", "DIRECT"}}
PowerModes == {RDWR \cup {"CREAT"}}

Start == Enter(Formatted, Mount(Formatted).r)

\* A file is opened, written and closed.
Put(s, name, bytes) ==
  LET o == Open(s, name, RDWR \cup {"CREAT"})
      w == Write(o, o.ret, bytes, 0)
  IN Close(w, o.ret, 0)

One == Put(Start, 1, <<7, 7, 7>>)
Two == Put(Put(Put(Start, 1, <<7, 7>>), 2, <<8>>), 1, <<9>>)
Volumes0 == {Formatted, One.f, Two.f}
\* Two headers in one block with deleted pages.
Three == Put(Put(Put(Creat(Creat(Creat(Start, 1), 2), 3), 1, <<7>>), 2, <<8>>), 1, <<9>>)
Volumes1 == {One.f, Two.f, Three.f}

AllCalls == {"open", "creat", "remove", "rename", "write", "read", "lseek", "fflush",
             "fstat", "close", "fremove", "unmount", "format", "check"}
=============================================================================
