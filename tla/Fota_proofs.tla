---------------------------- MODULE Fota_proofs ----------------------------
(* For all addresses and versions: the updater's status tells which          *)
(* connection is outstanding, nothing is leaked or freed twice but by failed *)
(* lookups, the SDK's updater keeps its connection, and upgrades only go     *)
(* forward.                                                                  *)
EXTENDS Fota, TLAPS

(* A connection has a block exactly while something is going on with it.     *)
BlockPerConn(c) == c.at = NoAddr <=> c.tcp = "none"

(* A connection the updater uses was opened before; what is being downloaded *)
(* is newer.                                                                 *)
FotaInv == /\ TypeOK /\ StatusMatches /\ UpdaterHasConnection /\ OwnedBlocks
           /\ BlockPerConn(poll) /\ BlockPerConn(fw)
           /\ updater => fw.tcp \in {"open", "closing", "closed"}
           /\ fw # NoConn => target \in Versions /\ target > installed
           /\ poll = NoConn \/ fw = NoConn

USE AddrAssumption, VersionAssumption

(* The type invariant in three parts.                                        *)
ConnsOK == /\ poll \in Conn /\ fw \in Conn
           /\ upServer \in Addr \cup {NoAddr}
           /\ requestTimeout \in Addr \cup {NoAddr}
           /\ heap \subseteq Addr

NumbersOK == /\ body \in {0} \cup Versions /\ bodyLen \in -1 .. 2
             /\ answer \in {0} \cup Versions /\ target \in {0} \cup Versions
             /\ installed \in {0} \cup Versions

FlagsOK == /\ isRunning \in BOOLEAN /\ updater \in BOOLEAN
           /\ status \in {"POLLING", "GETTING_FIRMWARE", "IDLE"}

(* The type in the parts a callback can disturb.                             *)
LEMMA TypeParts == TypeOK <=> ConnsOK /\ NumbersOK /\ FlagsOK
BY DEF TypeOK, ConnsOK, NumbersOK, FlagsOK

(* The same in the next state.                                               *)
LEMMA TypePartsPrimed == TypeOK' <=> ConnsOK' /\ NumbersOK' /\ FlagsOK'
BY DEF TypeOK, ConnsOK, NumbersOK, FlagsOK

(* The null connection, the states of an opening one, and a changed state.   *)
LEMMA ConnFacts ==
  /\ NoConn \in Conn /\ NoConn.at = NoAddr /\ NoConn.tcp = "none"
  /\ Opening \subseteq {"resolving", "connecting", "refused"}
  /\ start_esp_connect \subseteq {"connecting", "refused"}
  /\ \A c \in Conn : c = [at |-> c.at, tcp |-> c.tcp]
  /\ \A a \in Addr, t \in TcpStates :
       [at |-> a, tcp |-> t] \in Conn /\ [at |-> a, tcp |-> t] # NoConn
  /\ \A c \in Conn, t \in TcpStates :
       /\ [c EXCEPT !.tcp = t] = [at |-> c.at, tcp |-> t]
       /\ [c EXCEPT !.tcp = t] \in Conn
BY DEF Conn, NoConn, TcpStates, Opening, start_esp_connect

(* Versions are compared as numbers.                                         *)
LEMMA VersionFacts == /\ 1 \in Versions /\ Versions \subseteq Nat
                      /\ 0 \notin Versions
BY DEF Versions

(* The freshly started device satisfies the invariant.                       *)
LEMMA FotaInvInit == Init => FotaInv
<1> SUFFICES ASSUME Init PROVE FotaInv
  OBVIOUS
<1>1. ConnsOK BY ConnFacts DEF Init, ConnsOK
<1>2. NumbersOK BY VersionFacts DEF Init, NumbersOK
<1>3. FlagsOK BY DEF Init, FlagsOK
<1>4. OwnedBlocks BY ConnFacts DEF Init, OwnedBlocks
<1> QED BY <1>1, <1>2, <1>3, <1>4, TypeParts, ConnFacts
        DEF Init, FotaInv, StatusMatches, Started, UpdaterHasConnection, BlockPerConn

(* The allocated blocks, named.                                              *)
LEMMA Owned == OwnedBlocks <=> heap = {poll.at, fw.at} \ {NoAddr}
BY DEF OwnedBlocks

(* The heap has the blocks in use and no others, in the next state.          *)
LEMMA OwnedPrimed == OwnedBlocks' <=> heap' = {poll'.at, fw'.at} \ {NoAddr}
BY DEF OwnedBlocks

(* What the invariant says of the two connections.                           *)
LEMMA InvFacts ==
  ASSUME FotaInv
  PROVE  /\ ConnsOK /\ NumbersOK /\ FlagsOK
         /\ heap = {poll.at, fw.at} \ {NoAddr}
         /\ poll.tcp # "none" => poll.at \in Addr /\ fw = NoConn /\ Started
                                 /\ status = "POLLING" /\ ~updater
         /\ fw.tcp # "none" => /\ fw.at \in Addr /\ poll = NoConn /\ Started
                               /\ status = "GETTING_FIRMWARE"
                               /\ target \in Versions /\ target > installed
         /\ poll.tcp = "none" => poll = NoConn
         /\ fw.tcp = "none" => fw = NoConn
<1>1. ConnsOK /\ NumbersOK /\ FlagsOK BY TypeParts DEF FotaInv
<1>2. heap = {poll.at, fw.at} \ {NoAddr} BY Owned DEF FotaInv
<1>3. ASSUME poll.tcp # "none"
      PROVE  poll.at \in Addr /\ fw = NoConn /\ Started /\ status = "POLLING"
             /\ ~updater
  BY <1>1, <1>3, ConnFacts
  DEF FotaInv, ConnsOK, Conn, BlockPerConn, StatusMatches, Started, FlagsOK
<1>4. ASSUME fw.tcp # "none"
      PROVE  /\ fw.at \in Addr /\ poll = NoConn /\ Started
             /\ status = "GETTING_FIRMWARE"
             /\ target \in Versions /\ target > installed
  BY <1>1, <1>4, ConnFacts
  DEF FotaInv, ConnsOK, Conn, BlockPerConn, StatusMatches, Started, FlagsOK
<1>5. /\ poll.tcp = "none" => poll = NoConn
      /\ fw.tcp = "none" => fw = NoConn
  BY <1>1, ConnFacts DEF FotaInv, ConnsOK, BlockPerConn, NoConn
<1> QED BY <1>1, <1>2, <1>3, <1>4, <1>5
----------------------------------------------------------------------------
(* The timers of the client.                                                 *)
LEMMA StartInv == ASSUME FotaInv, start_fota PROVE FotaInv'
<1>1. ConnsOK' /\ NumbersOK' /\ FlagsOK'
  BY InvFacts DEF start_fota, pollVars, fwVars, ConnsOK, NumbersOK, FlagsOK
<1>2. poll = NoConn /\ fw = NoConn BY DEF FotaInv, StatusMatches, Started, start_fota
<1> QED BY <1>1, <1>2, TypePartsPrimed, ConnFacts
        DEF start_fota, pollVars, fwVars, FotaInv, StatusMatches, Started,
            BlockPerConn, UpdaterHasConnection, OwnedBlocks

(* fota_ticktock starts a poll.                                              *)
LEMMA TickInv == ASSUME FotaInv, fota_ticktock PROVE FotaInv'
<1>1. poll = NoConn /\ fw = NoConn /\ Started /\ heap = {}
  BY InvFacts, ConnFacts DEF FotaInv, StatusMatches, Started, fota_ticktock
<1>2. PICK a \in Addr, t \in {"resolving", "connecting", "refused"} :
        poll' = [at |-> a, tcp |-> t] /\ heap' = heap \cup {a}
  BY ConnFacts DEF fota_ticktock
<1>3. /\ status' = "POLLING"
      /\ UNCHANGED <<isRunning, requestTimeout, body, bodyLen, answer, fw,
                     upServer, updater, target, installed>>
  BY DEF fota_ticktock, fwVars
<1>4. poll' \in Conn /\ poll' # NoConn /\ poll'.at = a /\ poll'.tcp = t
  BY <1>2, ConnFacts DEF TcpStates
<1>5. ConnsOK' BY <1>1, <1>2, <1>3, <1>4, InvFacts DEF ConnsOK
<1>6. NumbersOK' /\ FlagsOK' BY <1>3, InvFacts DEF NumbersOK, FlagsOK
<1>7. OwnedBlocks' BY <1>1, <1>2, <1>3, <1>4, ConnFacts, OwnedPrimed, AddrAssumption
<1>8. ~updater BY <1>1, ConnFacts DEF FotaInv
<1> QED BY <1>1, <1>3, <1>4, <1>5, <1>6, <1>7, <1>8, TypePartsPrimed, ConnFacts
        DEF FotaInv, StatusMatches, Started, BlockPerConn, UpdaterHasConnection

(* A request timer hits at most one connection, whose block stays.           *)
LEMMA TimeoutInv == ASSUME FotaInv, get_version_timeout PROVE FotaInv'
<1>1. \A c \in Conn : LET d == Disconnected(c, requestTimeout)
                      IN /\ d \in Conn /\ d.at = c.at
                         /\ d = c \/ (c.tcp = "open" /\ d.tcp = "closing")
  <2> SUFFICES ASSUME NEW c \in Conn
               PROVE  LET d == Disconnected(c, requestTimeout)
                      IN /\ d \in Conn /\ d.at = c.at
                         /\ d = c \/ (c.tcp = "open" /\ d.tcp = "closing")
    OBVIOUS
  <2>1. "closing" \in TcpStates BY DEF TcpStates
  <2>2. [c EXCEPT !.tcp = "closing"] = [at |-> c.at, tcp |-> "closing"]
        /\ [c EXCEPT !.tcp = "closing"] \in Conn
    BY <2>1, ConnFacts
  <2> QED BY <2>2 DEF Disconnected
<1>2. /\ poll' \in Conn /\ fw' \in Conn /\ poll'.at = poll.at /\ fw'.at = fw.at
      /\ poll' = poll \/ (poll.tcp = "open" /\ poll'.tcp = "closing")
      /\ fw' = fw \/ (fw.tcp = "open" /\ fw'.tcp = "closing")
  BY <1>1, InvFacts DEF get_version_timeout, ConnsOK
<1>3. /\ requestTimeout' = NoAddr
      /\ UNCHANGED <<isRunning, status, body, bodyLen, answer, upServer, updater,
                     target, installed, heap>>
  BY DEF get_version_timeout
<1>4. ConnsOK' /\ NumbersOK' /\ FlagsOK'
  BY <1>2, <1>3, InvFacts DEF ConnsOK, NumbersOK, FlagsOK
<1>5. OwnedBlocks' BY <1>2, <1>3, Owned, OwnedPrimed DEF FotaInv
<1> QED BY <1>2, <1>3, <1>4, <1>5, TypePartsPrimed, ConnFacts, InvFacts
        DEF FotaInv, StatusMatches, Started, BlockPerConn, UpdaterHasConnection

(* Steps of the poll that change neither connection's block nor the status.  *)
LEMMA PollingInv ==
  ASSUME FotaInv,
         \/ get_version_connect_cb \/ get_version_sent_cb \/ RecvTooLong
         \/ \E n \in 0 .. 2 : get_version_recv(n)
  PROVE  FotaInv'
<1>1. /\ poll'.at = poll.at /\ poll' \in Conn
      /\ poll.tcp \in {"connecting", "open"} /\ poll'.tcp = "open"
      /\ UNCHANGED <<isRunning, status, fw, upServer, updater, target, installed,
                     heap>>
  <2>1. poll \in Conn /\ "open" \in TcpStates
    BY InvFacts DEF ConnsOK, TcpStates
  <2>2. [poll EXCEPT !.tcp = "open"] = [at |-> poll.at, tcp |-> "open"]
        /\ [poll EXCEPT !.tcp = "open"] \in Conn
    BY <2>1, ConnFacts
  <2> QED BY <2>1, <2>2 DEF get_version_connect_cb, get_version_sent_cb,
                            RecvTooLong, get_version_recv, fwVars
<1>2. requestTimeout' \in Addr \cup {NoAddr}
  BY InvFacts DEF get_version_connect_cb, get_version_sent_cb, RecvTooLong,
                  get_version_recv, ConnsOK, Conn
<1>3. NumbersOK'
  <2>1. body \in {0} \cup Versions /\ bodyLen \in -1 .. 2
        /\ answer \in {0} \cup Versions
    BY InvFacts DEF NumbersOK
  <2>2. body' \in {0} \cup Versions /\ answer' \in {0} \cup Versions
    BY <2>1 DEF get_version_connect_cb, get_version_sent_cb, RecvTooLong,
                get_version_recv
  <2>3. bodyLen' \in -1 .. 2
    BY <2>1 DEF get_version_connect_cb, get_version_sent_cb, RecvTooLong,
                get_version_recv, Received
  <2> QED BY <1>1, <2>2, <2>3, InvFacts DEF NumbersOK
<1>4. ConnsOK' /\ FlagsOK' BY <1>1, <1>2, InvFacts DEF ConnsOK, FlagsOK
<1>5. OwnedBlocks' BY <1>1, Owned, OwnedPrimed DEF FotaInv
<1>6. poll' # NoConn BY <1>1, ConnFacts
<1> QED BY <1>1, <1>3, <1>4, <1>5, <1>6, TypePartsPrimed, ConnFacts, InvFacts
        DEF FotaInv, StatusMatches, Started, BlockPerConn, UpdaterHasConnection

(* The poll's name is looked up.                                             *)
LEMMA PollDnsInv == ASSUME FotaInv, fota_dns_found PROVE FotaInv'
<1>1. /\ poll.at \in Addr /\ fw = NoConn /\ Started /\ ~updater
      /\ heap = {poll.at} /\ poll \in Conn
  BY InvFacts, ConnFacts, AddrAssumption DEF fota_dns_found, ConnsOK
<1>2. /\ UNCHANGED <<isRunning, requestTimeout, body, bodyLen, answer, fw,
                     upServer, updater, target, installed>>
  BY DEF fota_dns_found, fwVars
<1>3. CASE status' = "IDLE" /\ poll' = NoConn /\ heap' = heap \ {poll.at}
  <2>1. ConnsOK' /\ NumbersOK' /\ FlagsOK'
    BY <1>1, <1>2, <1>3, InvFacts, ConnFacts DEF ConnsOK, NumbersOK, FlagsOK
  <2>2. OwnedBlocks' BY <1>1, <1>2, <1>3, ConnFacts, OwnedPrimed
  <2> QED BY <1>1, <1>2, <1>3, <2>1, <2>2, TypePartsPrimed, ConnFacts
          DEF FotaInv, StatusMatches, Started, BlockPerConn, UpdaterHasConnection
<1>4. CASE /\ \E t \in start_esp_connect : poll' = [poll EXCEPT !.tcp = t]
           /\ UNCHANGED <<status, heap>>
  <2>1. PICK t \in {"connecting", "refused"} : poll' = [at |-> poll.at, tcp |-> t]
    BY <1>1, <1>4, ConnFacts DEF TcpStates
  <2>2. poll' \in Conn /\ poll'.at = poll.at /\ poll'.tcp = t /\ poll' # NoConn
    BY <1>1, <2>1, ConnFacts DEF TcpStates
  <2>3. ConnsOK' /\ NumbersOK' /\ FlagsOK'
    BY <1>2, <1>4, <2>2, InvFacts DEF ConnsOK, NumbersOK, FlagsOK
  <2>4. OwnedBlocks' BY <1>2, <1>4, <2>2, Owned, OwnedPrimed DEF FotaInv
  <2>5. status = "POLLING" BY InvFacts DEF fota_dns_found
  <2> QED BY <1>1, <1>2, <1>4, <2>2, <2>3, <2>4, <2>5, TypePartsPrimed, ConnFacts
          DEF FotaInv, StatusMatches, Started, BlockPerConn, UpdaterHasConnection
<1> QED BY <1>3, <1>4 DEF fota_dns_found

(* The poll's connection fails.                                              *)
LEMMA PollFailsInv == ASSUME FotaInv, get_version_recon_cb PROVE FotaInv'
<1>1. /\ fw = NoConn /\ Started /\ ~updater /\ heap = {poll.at}
      /\ status = "POLLING"
  BY InvFacts, ConnFacts, AddrAssumption DEF get_version_recon_cb
<1>2. /\ UNCHANGED <<isRunning, requestTimeout, body, bodyLen, answer, fw,
                     upServer, updater, target, installed>>
      /\ status' = "IDLE" /\ poll' = NoConn /\ heap' = {}
  BY <1>1 DEF get_version_recon_cb, fwVars, clear_espconn
<1>3. ConnsOK' /\ NumbersOK' /\ FlagsOK'
  BY <1>2, InvFacts, ConnFacts DEF ConnsOK, NumbersOK, FlagsOK
<1>4. OwnedBlocks' BY <1>1, <1>2, ConnFacts, OwnedPrimed
<1> QED BY <1>1, <1>2, <1>3, <1>4, TypePartsPrimed, ConnFacts
        DEF FotaInv, StatusMatches, Started, BlockPerConn, UpdaterHasConnection

(* The poll's connection was closed: idle, or the download begins.           *)
LEMMA PollClosedInv == ASSUME FotaInv, get_version_disconnect_cb PROVE FotaInv'
<1>1. /\ fw = NoConn /\ Started /\ ~updater /\ heap = {poll.at}
      /\ clear_espconn(poll) = {}
  BY InvFacts, ConnFacts, AddrAssumption
  DEF get_version_disconnect_cb, clear_espconn
<1>2. /\ poll' = NoConn /\ bodyLen' = -1
      /\ UNCHANGED <<isRunning, requestTimeout, body, answer, upServer, updater,
                     installed>>
  BY DEF get_version_disconnect_cb
<1>3. body \in {0} \cup Versions /\ installed \in {0} \cup Versions
      /\ (Offer # 0 => Offer \in Versions /\ Offer > installed)
  BY InvFacts DEF NumbersOK, Offer
<1>4. CASE Offer = 0
  <2>1. status' = "IDLE" /\ heap' = {} /\ UNCHANGED <<fw, target>>
    BY <1>1, <1>4 DEF get_version_disconnect_cb, handle_response
  <2>2. ConnsOK' /\ FlagsOK'
    BY <1>2, <2>1, InvFacts, ConnFacts DEF ConnsOK, FlagsOK
  <2>3. NumbersOK' BY <1>2, <2>1, InvFacts DEF NumbersOK
  <2>4. OwnedBlocks' BY <1>1, <1>2, <2>1, ConnFacts, OwnedPrimed
  <2> QED BY <1>1, <1>2, <2>1, <2>2, <2>3, <2>4, TypePartsPrimed, ConnFacts
          DEF FotaInv, StatusMatches, Started, BlockPerConn, UpdaterHasConnection
<1>5. CASE Offer # 0
  <2>1. /\ status' = "GETTING_FIRMWARE" /\ target' = Offer
        /\ \E a \in Addr, t \in {"resolving", "connecting", "refused"} :
             fw' = [at |-> a, tcp |-> t] /\ heap' = {a}
    BY <1>1, <1>5, ConnFacts DEF get_version_disconnect_cb, handle_response
  <2>2. PICK a \in Addr, t \in {"resolving", "connecting", "refused"} :
             fw' = [at |-> a, tcp |-> t] /\ heap' = {a}
    BY <2>1
  <2>3. fw' \in Conn /\ fw'.at = a /\ fw'.tcp = t /\ fw' # NoConn
    BY <2>2, ConnFacts DEF TcpStates
  <2>4. ConnsOK' /\ FlagsOK'
    BY <1>2, <2>1, <2>2, <2>3, InvFacts, ConnFacts DEF ConnsOK, FlagsOK
  <2>5. NumbersOK' BY <1>2, <1>3, <1>5, <2>1, InvFacts DEF NumbersOK
  <2>6. OwnedBlocks' BY <1>2, <2>2, <2>3, ConnFacts, OwnedPrimed, AddrAssumption
  <2>7. target' \in Versions /\ target' > installed' BY <1>2, <1>3, <1>5, <2>1
  <2> QED BY <1>1, <1>2, <2>1, <2>3, <2>4, <2>5, <2>6, <2>7, TypePartsPrimed,
             ConnFacts, AddrAssumption
          DEF FotaInv, StatusMatches, Started, BlockPerConn, UpdaterHasConnection
<1> QED BY <1>4, <1>5
----------------------------------------------------------------------------
(* The download's name is looked up.                                         *)
LEMMA FwDnsInv == ASSUME FotaInv, upgrade_dns_found PROVE FotaInv'
<1>1. /\ fw.at \in Addr /\ poll = NoConn /\ Started
      /\ heap = {fw.at} /\ fw \in Conn /\ status = "GETTING_FIRMWARE"
      /\ target \in Versions /\ target > installed
  BY InvFacts, ConnFacts, AddrAssumption DEF upgrade_dns_found, ConnsOK
<1>2. /\ UNCHANGED <<isRunning, poll, requestTimeout, body, bodyLen, answer,
                     upServer, updater, target, installed>>
  BY DEF upgrade_dns_found, pollVars
<1>0. ~updater BY DEF upgrade_dns_found, FotaInv
<1>3. CASE status' = "IDLE" /\ fw' = NoConn /\ heap' = heap \ {fw.at}
  <2>1. ConnsOK' /\ NumbersOK' /\ FlagsOK'
    BY <1>1, <1>2, <1>3, InvFacts, ConnFacts DEF ConnsOK, NumbersOK, FlagsOK
  <2>2. OwnedBlocks' BY <1>1, <1>2, <1>3, ConnFacts, OwnedPrimed
  <2> QED BY <1>0, <1>1, <1>2, <1>3, <2>1, <2>2, TypePartsPrimed, ConnFacts
          DEF FotaInv, StatusMatches, Started, BlockPerConn, UpdaterHasConnection
<1>4. CASE /\ \E t \in start_esp_connect : fw' = [fw EXCEPT !.tcp = t]
           /\ UNCHANGED <<status, heap>>
  <2>1. PICK t \in {"connecting", "refused"} : fw' = [at |-> fw.at, tcp |-> t]
    BY <1>1, <1>4, ConnFacts DEF TcpStates
  <2>2. fw' \in Conn /\ fw'.at = fw.at /\ fw'.tcp = t /\ fw' # NoConn
    BY <1>1, <2>1, ConnFacts DEF TcpStates
  <2>3. ConnsOK' /\ NumbersOK' /\ FlagsOK'
    BY <1>2, <1>4, <2>2, InvFacts DEF ConnsOK, NumbersOK, FlagsOK
  <2>4. OwnedBlocks' BY <1>2, <1>4, <2>2, Owned, OwnedPrimed DEF FotaInv
  <2> QED BY <1>0, <1>1, <1>2, <1>4, <2>2, <2>3, <2>4, TypePartsPrimed, ConnFacts
          DEF FotaInv, StatusMatches, Started, BlockPerConn, UpdaterHasConnection
<1> QED BY <1>3, <1>4 DEF upgrade_dns_found

(* Steps of the download that keep its block: it is reached, fails, or is    *)
(* closed while the updater runs.                                            *)
LEMMA FwKeptInv ==
  ASSUME FotaInv,
         \/ upgrade_connect_cb \/ upgrade_recon_cb
         \/ upgrade_discon_cb /\ upServer # NoAddr
  PROVE  FotaInv'
<1>1. /\ fw.at \in Addr /\ poll = NoConn /\ Started /\ fw.tcp # "none"
      /\ fw \in Conn /\ status = "GETTING_FIRMWARE"
      /\ target \in Versions /\ target > installed
  BY InvFacts DEF upgrade_connect_cb, upgrade_recon_cb, upgrade_discon_cb, ConnsOK
<1>2. UNCHANGED <<isRunning, status, poll, requestTimeout, body, bodyLen, answer,
                  target, installed, heap>>
  BY DEF upgrade_connect_cb, upgrade_recon_cb, upgrade_discon_cb, pollVars
<1>3. PICK t \in {"open", "closed"} : fw' = [fw EXCEPT !.tcp = t]
  BY DEF upgrade_connect_cb, upgrade_recon_cb, upgrade_discon_cb
<1>4. fw' = [at |-> fw.at, tcp |-> t] /\ fw' \in Conn
  BY <1>1, <1>3, ConnFacts DEF TcpStates
<1>5. fw'.at = fw.at /\ fw'.tcp = t /\ fw' # NoConn BY <1>4, ConnFacts
<1>6. /\ upServer' = fw.at \/ UNCHANGED <<upServer, updater>>
      /\ updater' \in BOOLEAN
  BY InvFacts
  DEF upgrade_connect_cb, upgrade_recon_cb, upgrade_discon_cb, FlagsOK
<1>7. ConnsOK' /\ NumbersOK' /\ FlagsOK'
  BY <1>1, <1>2, <1>4, <1>6, InvFacts DEF ConnsOK, NumbersOK, FlagsOK
<1>8. OwnedBlocks' BY <1>2, <1>5, Owned, OwnedPrimed DEF FotaInv
<1>9. UpdaterHasConnection'
  <2>1. fw.at \in heap BY <1>1, Owned, AddrAssumption DEF FotaInv
  <2> QED BY <1>1, <1>2, <1>5, <1>6, <2>1 DEF FotaInv, UpdaterHasConnection
<1> QED BY <1>1, <1>2, <1>5, <1>7, <1>8, <1>9, TypePartsPrimed, ConnFacts,
           AddrAssumption
        DEF FotaInv, StatusMatches, Started, BlockPerConn

(* The download's block is freed: no updater was started, or it gave up.     *)
LEMMA FwFreedInv ==
  ASSUME FotaInv,
         \/ upgrade_discon_cb /\ upServer = NoAddr
         \/ upgrade_response /\ ~system_upgrade_reboot(target)
  PROVE  FotaInv'
<1>1. /\ fw.tcp # "none" /\ (updater => upServer = fw.at)
  BY DEF FotaInv, UpdaterHasConnection, upgrade_discon_cb, upgrade_response
<1>2. /\ fw.at \in Addr /\ poll = NoConn /\ Started /\ heap = {fw.at}
  BY <1>1, InvFacts, ConnFacts, AddrAssumption
<1>3. /\ UNCHANGED <<isRunning, poll, requestTimeout, body, bodyLen, answer,
                     upServer, target, installed>>
      /\ status' = "IDLE" /\ fw' = NoConn /\ heap' = {} /\ ~updater'
  <2>1. CASE upgrade_discon_cb /\ upServer = NoAddr
    BY <1>1, <1>2, <2>1, AddrAssumption DEF upgrade_discon_cb, clear_espconn, pollVars
  <2>2. CASE upgrade_response /\ ~system_upgrade_reboot(target)
    BY <1>1, <1>2, <2>2 DEF upgrade_response, pollVars
  <2> QED BY <2>1, <2>2
<1>4. updater' \in BOOLEAN
  BY InvFacts DEF upgrade_discon_cb, upgrade_response, FlagsOK
<1>5. ConnsOK' /\ NumbersOK' /\ FlagsOK'
  BY <1>3, <1>4, InvFacts, ConnFacts DEF ConnsOK, NumbersOK, FlagsOK
<1>6. OwnedBlocks' BY <1>2, <1>3, ConnFacts, OwnedPrimed
<1> QED BY <1>2, <1>3, <1>5, <1>6, TypePartsPrimed, ConnFacts
        DEF FotaInv, StatusMatches, Started, BlockPerConn, UpdaterHasConnection

(* A running updater has something newer to install.                         *)
LEMMA TargetNewer ==
  ASSUME FotaInv, updater PROVE target \in Versions /\ target > installed
BY InvFacts DEF FotaInv

(* The reboot starts over with the new firmware.                             *)
LEMMA RebootInv ==
  ASSUME FotaInv, upgrade_response, system_upgrade_reboot(target) PROVE FotaInv'
<1>1. target \in Versions BY TargetNewer DEF upgrade_response
<1>2. ConnsOK' BY ConnFacts DEF system_upgrade_reboot, ConnsOK
<1>3. NumbersOK' BY <1>1 DEF system_upgrade_reboot, NumbersOK
<1>4. FlagsOK' BY DEF system_upgrade_reboot, FlagsOK
<1>5. OwnedBlocks' BY ConnFacts, OwnedPrimed DEF system_upgrade_reboot
<1> QED BY <1>2, <1>3, <1>4, <1>5, TypePartsPrimed, ConnFacts
        DEF system_upgrade_reboot, FotaInv, StatusMatches, Started,
            UpdaterHasConnection, BlockPerConn

(* Every step keeps the invariant.                                           *)
LEMMA FotaInvNext == FotaInv /\ [Next]_vars => FotaInv'
<1> SUFFICES ASSUME FotaInv, [Next]_vars PROVE FotaInv'
  OBVIOUS
<1>1. CASE UNCHANGED vars
  BY <1>1 DEF vars, FotaInv, TypeOK, StatusMatches, Started, UpdaterHasConnection,
              OwnedBlocks, BlockPerConn
<1>2. CASE start_fota \/ fota_ticktock BY <1>2, StartInv, TickInv
<1>3. CASE GetVersion
  BY <1>3, PollDnsInv, PollingInv, TimeoutInv, PollClosedInv, PollFailsInv
  DEF GetVersion
<1>4. CASE GetFirmware
  BY <1>4, FwDnsInv, FwKeptInv, FwFreedInv, RebootInv DEF GetFirmware
<1> QED BY <1>1, <1>2, <1>3, <1>4 DEF Next
----------------------------------------------------------------------------
(* Every variable of the updater stays in its range.                         *)
THEOREM FotaTypeCorrect == Spec => []TypeOK
<1>1. FotaInv => TypeOK BY DEF FotaInv
<1> QED BY FotaInvInit, FotaInvNext, <1>1, PTL DEF Spec

(* The status tells which of the two connections is outstanding, once the    *)
(* updater is started; before, and with a malformed VERSION, none is.        *)
THEOREM FotaStatusMatches == Spec => []StatusMatches
<1>1. FotaInv => StatusMatches BY DEF FotaInv
<1> QED BY FotaInvInit, FotaInvNext, <1>1, PTL DEF Spec

(* No callback frees the connection under the running updater.               *)
THEOREM FotaUpdaterHasConnection == Spec => []UpdaterHasConnection
<1>1. FotaInv => UpdaterHasConnection BY DEF FotaInv
<1> QED BY FotaInvInit, FotaInvNext, <1>1, PTL DEF Spec

(* Nothing is leaked, but by failed lookups, and nothing freed twice.        *)
THEOREM FotaOwnedBlocks == Spec => []OwnedBlocks
<1>1. FotaInv => OwnedBlocks BY DEF FotaInv
<1> QED BY FotaInvInit, FotaInvNext, <1>1, PTL DEF Spec

(* The device only reboots into a newer version.                             *)
THEOREM FotaUpgradesForward == Spec => UpgradesOnlyForward
<1>1. FotaInv /\ [Next]_vars => [installed' # installed => installed' > installed]_vars
  <2> SUFFICES ASSUME FotaInv, Next, installed' # installed
               PROVE  installed' > installed
    BY DEF vars
  <2>1. upgrade_response /\ system_upgrade_reboot(target)
    BY DEF Next, start_fota, fota_ticktock, GetVersion, fota_dns_found,
           get_version_connect_cb, get_version_sent_cb, get_version_recv,
           RecvTooLong, get_version_timeout, get_version_disconnect_cb,
           get_version_recon_cb, GetFirmware, upgrade_dns_found,
           upgrade_connect_cb, upgrade_recon_cb, upgrade_discon_cb,
           upgrade_response
  <2>2. target > installed BY <2>1, TargetNewer DEF upgrade_response
  <2> QED BY <2>1, <2>2 DEF system_upgrade_reboot
<1> QED BY FotaInvInit, FotaInvNext, <1>1, PTL DEF Spec, UpgradesOnlyForward
=============================================================================
