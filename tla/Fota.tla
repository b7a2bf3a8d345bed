-------------------------------- MODULE Fota --------------------------------
(* The over-the-air updater: src/apps/fota/fota.c, fota-info.c and           *)
(* fota-firmware.c.  A periodic tick asks the version server over one        *)
(* connection (poll); when it closes and its answer names a newer version, a *)
(* second connection (fw) is opened to the download server and the SDK's     *)
(* updater started.  Each callback runs to completion and is one action.     *)
(*                                                                           *)
(* espconn blocks are freed by the code while the SDK and a timer may still  *)
(* hold their address, so blocks have addresses.  External, as the code uses *)
(* it: the SDK's TCP and DNS, the two servers (answer), the SDK's updater.   *)
(* A read of a freed block that nobody reused gives what the block held, and *)
(* the SDK makes no callback for a block once it is freed.                   *)
EXTENDS Integers

CONSTANTS Addr,        \* addresses of espconn blocks
          NoAddr,      \* the null pointer
          MaxVersion,  \* bound: versions are 1 .. MaxVersion
          MayRefuse    \* espconn_connect or system_upgrade_start may fail

ASSUME AddrAssumption == NoAddr \notin Addr
ASSUME VersionAssumption == MaxVersion \in Nat \ {0} /\ MayRefuse \in BOOLEAN

VARIABLES isRunning,       \* is_running
          status,          \* fota_client->status
          poll, fw,        \* the connections: address and what the SDK does
          upServer,        \* fw_server.up_server: the pespconn it points to
          updater,         \* the SDK's updater runs and will call check_cb
          requestTimeout,  \* request_timeout: the espconn it is armed for
          body,            \* the version get_version_body parses to, 0 if none
          bodyLen,         \* get_version_body_len, a whole answer being 2
          answer,          \* what the version server answers this time
          target,          \* the version offered by the download server
          installed,       \* VERSION of the running firmware, 0 if malformed
          heap             \* the espconn blocks allocated

vars == <<isRunning, status, poll, fw, upServer, updater, requestTimeout, body,
          bodyLen, answer, target, installed, heap>>

Versions == 1 .. MaxVersion
NoConn == [at |-> NoAddr, tcp |-> "none"]
TcpStates == {"none", "refused", "resolving", "connecting", "open", "closing",
              "closed"}
Conn == [at : Addr \cup {NoAddr}, tcp : TcpStates]

TypeOK == /\ isRunning \in BOOLEAN
          /\ status \in {"POLLING", "GETTING_FIRMWARE", "IDLE"}
          /\ poll \in Conn /\ fw \in Conn
          /\ upServer \in Addr \cup {NoAddr} /\ updater \in BOOLEAN
          /\ requestTimeout \in Addr \cup {NoAddr}
          /\ body \in {0} \cup Versions /\ bodyLen \in -1 .. 2
          /\ answer \in {0} \cup Versions /\ target \in {0} \cup Versions
          /\ installed \in {0} \cup Versions
          /\ heap \subseteq Addr

(* Power on: the client's memory is zero, and 0 is FOTA_POLLING.  The build  *)
(* takes VERSION from a file, so it may be one convert_version refuses.      *)
Init == /\ isRunning = FALSE /\ status = "POLLING"
        /\ poll = NoConn /\ fw = NoConn
        /\ upServer = NoAddr /\ updater = FALSE /\ requestTimeout = NoAddr
        /\ body = 0 /\ bodyLen = -1 /\ answer = 0 /\ target = 0
        /\ installed \in {0, 1} /\ heap = {}

(* system_upgrade_reboot: the same, with firmware v.                         *)
system_upgrade_reboot(v) ==
  /\ isRunning' = FALSE /\ status' = "POLLING"
  /\ poll' = NoConn /\ fw' = NoConn
  /\ upServer' = NoAddr /\ updater' = FALSE /\ requestTimeout' = NoAddr
  /\ body' = 0 /\ bodyLen' = -1 /\ answer' = 0 /\ target' = 0
  /\ installed' = v /\ heap' = {}
----------------------------------------------------------------------------
pollVars == <<poll, requestTimeout, body, bodyLen, answer>>
fwVars == <<fw, upServer, updater, target>>

(* start_esp_connect ignores that espconn_connect refuses.                   *)
start_esp_connect == {"connecting"} \cup IF MayRefuse THEN {"refused"} ELSE {}

(* A host given by its address is connected to, a name is looked up first,   *)
(* which may be refused just as well.                                        *)
Opening == {"resolving"} \cup start_esp_connect

(* clear_espconn frees the block.                                            *)
clear_espconn(c) == heap \ {c.at}

(* Wrong variant: the guard against a second start is missing.               *)
StartAgain ==
  /\ isRunning' = TRUE
  /\ status' = IF installed = 0 THEN status ELSE "IDLE"
  /\ UNCHANGED <<pollVars, fwVars, installed, heap>>

(* start_fota, the first time it is called, makes the client idle and arms   *)
(* the periodic timer; with a malformed VERSION it does neither, but counts  *)
(* as called.                                                                *)
start_fota ==
  /\ ~isRunning
  /\ isRunning' = TRUE
  /\ status' = IF installed = 0 THEN status ELSE "IDLE"
  /\ UNCHANGED <<pollVars, fwVars, installed, heap>>

(* The periodic timer is armed.                                              *)
Started == isRunning /\ installed # 0

fota_ticktock ==
  /\ Started /\ status = "IDLE"
  /\ status' = "POLLING"
  /\ \E a \in Addr \ heap, s \in Opening : /\ poll' = [at |-> a, tcp |-> s]
                                           /\ heap' = heap \cup {a}
  /\ UNCHANGED <<isRunning, requestTimeout, body, bodyLen, answer, fwVars,
                 installed>>

(* A failed lookup leaves the block allocated for good and forgets it: its   *)
(* name is free for another block.                                           *)
fota_dns_found ==
  /\ poll.tcp = "resolving"
  /\ \/ /\ status' = "IDLE" /\ poll' = NoConn
        /\ heap' = heap \ {poll.at}
     \/ /\ \E s \in start_esp_connect : poll' = [poll EXCEPT !.tcp = s]
        /\ UNCHANGED <<status, heap>>
  /\ UNCHANGED <<isRunning, requestTimeout, body, bodyLen, answer, fwVars,
                 installed>>

(* The request is sent; what the server will answer is settled.              *)
get_version_connect_cb ==
  /\ poll.tcp = "connecting"
  /\ poll' = [poll EXCEPT !.tcp = "open"]
  /\ bodyLen' = -1
  /\ answer' \in {0} \cup Versions
  /\ UNCHANGED <<isRunning, status, requestTimeout, body, fwVars, installed, heap>>

(* Wrong variant: the answer's timeout is not armed.                         *)
SentCbWithoutTimer ==
  /\ poll.tcp = "open"
  /\ requestTimeout' = NoAddr
  /\ UNCHANGED <<isRunning, status, poll, body, bodyLen, answer, fwVars,
                 installed, heap>>

get_version_sent_cb ==
  /\ poll.tcp = "open"
  /\ requestTimeout' = poll.at
  /\ UNCHANGED <<isRunning, status, poll, body, bodyLen, answer, fwVars,
                 installed, heap>>

(* How much of the body is there once the headers have gone by.              *)
Received == IF bodyLen < 0 THEN 0 ELSE bodyLen

(* get_version_recv with the end of the headers, if they were still coming,  *)
(* and n halves of the body.  Half an answer does not parse.                 *)
get_version_recv(n) ==
  /\ poll.tcp = "open" /\ Received + n <= 2
  /\ bodyLen' = Received + n
  /\ body' = IF bodyLen' = 2 THEN answer ELSE 0
  /\ UNCHANGED <<isRunning, status, poll, requestTimeout, answer, fwVars,
                 installed, heap>>

(* get_version_recv of more than get_version_body can hold: this part is     *)
(* dropped, and what is still to come will not parse.                        *)
RecvTooLong ==
  /\ poll.tcp = "open"
  /\ bodyLen' = Received
  /\ answer' = 0
  /\ UNCHANGED <<isRunning, status, poll, requestTimeout, body, fwVars,
                 installed, heap>>

(* espconn_disconnect(at), wherever that address points to by now.           *)
Disconnected(c, at) == IF c.at = at /\ c.tcp = "open"
                       THEN [c EXCEPT !.tcp = "closing"] ELSE c

get_version_timeout ==
  /\ requestTimeout # NoAddr
  /\ requestTimeout' = NoAddr
  /\ poll' = Disconnected(poll, requestTimeout)
  /\ fw' = Disconnected(fw, requestTimeout)
  /\ UNCHANGED <<isRunning, status, body, bodyLen, answer, upServer, updater,
                 target, installed, heap>>

(* What handle_response finds worth getting, 0 if nothing: parse_fota reads  *)
(* bodyLen bytes, which as an unsigned number is all of the text if -1.      *)
Offer == IF bodyLen # 0 /\ body > installed THEN body ELSE 0

(* handle_response once the poll connection is freed; start_cdn opens the    *)
(* other one, keeping up_server.                                             *)
handle_response ==
  IF Offer = 0
  THEN /\ status' = "IDLE" /\ heap' = clear_espconn(poll)
       /\ UNCHANGED <<fw, target>>
  ELSE /\ status' = "GETTING_FIRMWARE"
       /\ target' = Offer
       /\ \E a \in Addr \ clear_espconn(poll), s \in Opening :
            fw' = [at |-> a, tcp |-> s] /\ heap' = clear_espconn(poll) \cup {a}

(* The connection was closed, by the server or by get_version_timeout.  The  *)
(* timer is not disarmed.                                                    *)
get_version_disconnect_cb ==
  /\ poll.tcp \in {"open", "closing"}
  /\ poll' = NoConn
  /\ handle_response
  /\ bodyLen' = -1
  /\ UNCHANGED <<isRunning, requestTimeout, body, answer, upServer, updater,
                 installed>>

(* Wrong variant: the connection is not cleaned up.                          *)
ReconCbLeaking ==
  /\ poll.tcp \in {"connecting", "open", "closing"}
  /\ poll' = NoConn
  /\ status' = IF status # "GETTING_FIRMWARE" THEN "IDLE" ELSE status
  /\ UNCHANGED <<isRunning, requestTimeout, body, bodyLen, answer, fwVars,
                 installed, heap>>

(* The connection failed; the timer is not disarmed here either.             *)
get_version_recon_cb ==
  /\ poll.tcp \in {"connecting", "open", "closing"}
  /\ poll' = NoConn
  /\ status' = IF status # "GETTING_FIRMWARE" THEN "IDLE" ELSE status
  /\ heap' = clear_espconn(poll)
  /\ UNCHANGED <<isRunning, requestTimeout, body, bodyLen, answer, fwVars,
                 installed>>
----------------------------------------------------------------------------
upgrade_dns_found ==
  /\ fw.tcp = "resolving"
  /\ \/ /\ status' = "IDLE" /\ fw' = NoConn
        /\ heap' = heap \ {fw.at}
     \/ /\ \E s \in start_esp_connect : fw' = [fw EXCEPT !.tcp = s]
        /\ UNCHANGED <<status, heap>>
  /\ UNCHANGED <<isRunning, pollVars, upServer, updater, target, installed>>

(* The SDK's updater is started for this connection; a refusal is ignored.   *)
upgrade_connect_cb ==
  /\ fw.tcp = "connecting"
  /\ fw' = [fw EXCEPT !.tcp = "open"]
  /\ upServer' = fw.at
  /\ updater' \in {TRUE} \cup IF MayRefuse THEN {FALSE} ELSE {}
  /\ UNCHANGED <<isRunning, status, pollVars, target, installed, heap>>

(* The connection failed: nothing is cleaned up.                             *)
upgrade_recon_cb ==
  /\ fw.tcp \in {"connecting", "open", "closing"}
  /\ fw' = [fw EXCEPT !.tcp = "closed"]
  /\ UNCHANGED <<isRunning, status, pollVars, upServer, updater, target,
                 installed, heap>>

(* The connection was closed: cleaned up only if no updater was started.     *)
upgrade_discon_cb ==
  /\ fw.tcp \in {"open", "closing"}
  /\ IF upServer = NoAddr
     THEN status' = "IDLE" /\ fw' = NoConn /\ heap' = clear_espconn(fw)
     ELSE /\ fw' = [fw EXCEPT !.tcp = "closed"]
          /\ UNCHANGED <<status, heap>>
  /\ UNCHANGED <<isRunning, pollVars, upServer, updater, target, installed>>

(* Wrong variant: the status is left to the disconnect callback.             *)
ResponseKeepingStatus ==
  /\ updater
  /\ \/ system_upgrade_reboot(target)
     \/ /\ updater' = FALSE
        /\ fw' = NoConn
        /\ heap' = heap \ {upServer}
        /\ UNCHANGED <<isRunning, status, pollVars, upServer, target, installed>>

(* The updater is done, or gave up after check_times: reboot into the new    *)
(* firmware, or clean up.  up_server is freed, but the pointer stays.        *)
upgrade_response ==
  /\ updater
  /\ \/ system_upgrade_reboot(target)
     \/ /\ updater' = FALSE
        /\ status' = "IDLE"
        /\ fw' = NoConn
        /\ heap' = heap \ {upServer}
        /\ UNCHANGED <<isRunning, pollVars, upServer, target, installed>>
----------------------------------------------------------------------------
GetVersion == \/ fota_dns_found \/ get_version_connect_cb \/ get_version_sent_cb
              \/ \E n \in 0 .. 2 : get_version_recv(n)
              \/ RecvTooLong \/ get_version_timeout
              \/ get_version_disconnect_cb \/ get_version_recon_cb

GetFirmware == \/ upgrade_dns_found \/ upgrade_connect_cb \/ upgrade_recon_cb
               \/ upgrade_discon_cb \/ upgrade_response

Next == start_fota \/ fota_ticktock \/ GetVersion \/ GetFirmware

Spec == Init /\ [][Next]_vars

(* The SDK answers every lookup, settles every connection attempt, gets      *)
(* every request acknowledged or fails the connection, fires every timer,    *)
(* closes what it was told to close, and calls check_cb after check_times.   *)
(* No server has to answer or to close.                                      *)
Fairness ==
  /\ WF_vars(fota_dns_found) /\ WF_vars(upgrade_dns_found)
  /\ WF_vars(get_version_connect_cb) /\ WF_vars(upgrade_connect_cb)
  /\ WF_vars(requestTimeout # poll.at /\ get_version_sent_cb)
  /\ WF_vars(get_version_timeout)
  /\ WF_vars(poll.tcp = "closing" /\ get_version_disconnect_cb)
  /\ WF_vars(upgrade_response)

LiveSpec == Spec /\ Fairness
----------------------------------------------------------------------------
(* The status tells which connection is outstanding, and there is never more *)
(* than one: a tick during a poll or a download starts nothing, and every    *)
(* callback that ends a connection, in whatever order the timer, the server  *)
(* and a second start_fota come, leaves the status at IDLE.  With a          *)
(* malformed VERSION (fota.c:110) nothing is ever opened and the status says *)
(* POLLING for good.                                                         *)
StatusMatches ==
  /\ Started => /\ status = "POLLING" <=> poll.tcp # "none"
                /\ status = "GETTING_FIRMWARE" <=> fw.tcp # "none"
  /\ ~Started => status = "POLLING" /\ poll = NoConn /\ fw = NoConn

(* While the SDK's updater runs, the espconn it will call back with is       *)
(* allocated and still the download's: no callback cleans it up under the    *)
(* updater.                                                                  *)
UpdaterHasConnection ==
  updater => /\ status = "GETTING_FIRMWARE"
             /\ upServer = fw.at /\ upServer \in heap

(* Except after failed lookups no espconn is leaked, and none is freed that  *)
(* is still in use or was freed before.                                      *)
OwnedBlocks == heap = {c.at : c \in {poll, fw}} \ {NoAddr}

(* The device only ever reboots into a newer version, although the offer     *)
(* travels from one connection to the next and may be an old one.            *)
UpgradesOnlyForward == [][installed' # installed => installed' > installed]_vars

(* A poll comes to an end even if the version server neither answers nor     *)
(* closes the connection.  A refused espconn_connect is the exception: its   *)
(* result is only logged, and no callback will come.  (With a malformed      *)
(* VERSION no poll begins, and the status stays POLLING: not Started.)       *)
PollEnds ==
  Started /\ status = "POLLING" ~> (status # "POLLING" \/ poll.tcp = "refused")

(* Once the SDK's updater runs, the client is back to polling or rebooted    *)
(* after a while, whatever becomes of the connection.                        *)
DownloadEnds == updater ~> status # "GETTING_FIRMWARE"

(* A download comes to an end, also if the server was never reached.         *)
GettingEnds == status = "GETTING_FIRMWARE" ~> status # "GETTING_FIRMWARE"
=============================================================================
