---------------------------- MODULE TelnetServer ----------------------------
(* The telnet server of examples/esp_iot (modules/telnet_server.c) once it   *)
(* listens: any number of clients and the one connData they share.  Every    *)
(* callback of the SDK runs to completion, so each is one action.            *)
(*                                                                           *)
(* A reply is a number of pieces, one for each call of espbuffsent; pieces   *)
(* are numbered in the order in which they enter the buffer, and the buffer  *)
(* counts pieces, not bytes.  Two calls are abstracted: a line longer than   *)
(* rxbuffer, and a formatted piece that does not fit (espbuffsentprintf      *)
(* does not look), do not happen.                                            *)
EXTENDS Integers, Sequences

CONSTANTS Clients,        \* the connections there can be at a time
          Capacity,       \* MAX_TXBUFFER, in pieces
          MaySendFail,    \* espconn_sent may refuse on an open connection
          ReplyBound,     \* bound: pieces in the answer to one command
          PieceBound,     \* bound: pieces accepted per connection
          InFlightBound   \* bound: packets the SDK takes unacknowledged

ASSUME ServerAssumption == /\ Capacity \in Nat \ {0}
                           /\ MaySendFail \in BOOLEAN
                           /\ ReplyBound \in Nat
                           /\ PieceBound \in Nat
                           /\ InFlightBound \in Nat \ {0}

NoClient == "NULL"
ASSUME ClientAssumption == NoClient \notin Clients

VARIABLES config_status,
          conn,         \* connData->conn
          txbuffer,     \* the pieces in connData->txbuffer
          readytosend,
          rxfrom,       \* the connections whose bytes are in rxbuffer
          linked,       \* SDK: the open connections
          outstanding,  \* SDK: per connection, packets not yet acknowledged
          shared,       \* history: another client was there when conn came
          said,         \* history: pieces accepted since the last connect
          wire          \* history: of these, the ones given to the SDK

serverVars == <<config_status, conn, txbuffer, readytosend, rxfrom, linked,
                outstanding, shared, said, wire>>
conversation == <<txbuffer, readytosend, outstanding, shared, said, wire>>

Statuses == {"NOTHING", "WIFI_CONNECTED", "TELNET_CONNNECTED"}

ServerTypeOK == /\ config_status \in Statuses
                /\ conn \in Clients \cup {NoClient}
                /\ txbuffer \in Seq(1 .. PieceBound) /\ Len(txbuffer) <= Capacity
                /\ readytosend \in BOOLEAN
                /\ rxfrom \subseteq Clients
                /\ linked \subseteq Clients
                /\ outstanding \in [Clients -> 0 .. InFlightBound]
                /\ shared \in BOOLEAN
                /\ said \in 0 .. PieceBound
                /\ wire \in Seq(1 .. PieceBound) /\ Len(wire) <= PieceBound

(* serverInit: nobody connected, an empty buffer, ready to send; and the same *)
(* as the effect of a step.                                                  *)
ServerInit == /\ conn = NoClient
              /\ txbuffer = <<>> /\ readytosend = TRUE
              /\ rxfrom = {}
              /\ linked = {} /\ outstanding = [c \in Clients |-> 0]
              /\ shared = FALSE /\ said = 0 /\ wire = <<>>
ServerReset == /\ conn' = NoClient
               /\ txbuffer' = <<>> /\ readytosend' = TRUE
               /\ rxfrom' = {}
               /\ linked' = {} /\ outstanding' = [c \in Clients |-> 0]
               /\ shared' = FALSE /\ said' = 0 /\ wire' = <<>>
----------------------------------------------------------------------------
(* espconn_sent on connData->conn, with out packets unacknowledged before:   *)
(* refused without an open connection, or when the SDK has no room.          *)
espconn_sent(pieces, out) ==
  \/ /\ conn \in linked
     /\ out[conn] < InFlightBound
     /\ outstanding' = [out EXCEPT ![conn] = @ + 1]
     /\ wire' = wire \o pieces
  \/ /\ MaySendFail \/ (conn \in linked => out[conn] = InFlightBound)
     /\ outstanding' = out
     /\ UNCHANGED wire

(* A run of consecutive piece numbers, after number first.                   *)
Numbered(first, a) == [i \in 1 .. a |-> first + i]

(* The espbuffsent calls of one reply, of which the buffer takes a pieces    *)
(* and refuses the others: the first is sent at once when the previous       *)
(* packet is acknowledged, the others wait.  readytosend is cleared before   *)
(* the result of espconn_sent is known.                                      *)
espbuffsent(a) ==
  LET new == Numbered(said, a)
  IN  /\ said' = said + a
      /\ IF readytosend /\ a > 0
         THEN /\ a - 1 <= Capacity
              /\ readytosend' = FALSE
              /\ txbuffer' = Tail(new)
              /\ espconn_sent(Append(txbuffer, new[1]), outstanding)
         ELSE /\ Len(txbuffer) + a <= Capacity
              /\ txbuffer' = txbuffer \o new
              /\ UNCHANGED <<readytosend, outstanding, wire>>

(* Wrong variant: what was sent stays in the buffer.                         *)
SendtxKeepingBuffer(out) ==
  IF txbuffer = <<>>
  THEN readytosend' = TRUE /\ outstanding' = out /\ UNCHANGED <<txbuffer, wire>>
  ELSE readytosend' = FALSE /\ UNCHANGED txbuffer /\ espconn_sent(txbuffer, out)

(* Wrong variant: the sent callback only notes that it came.                 *)
SendtxLater(out) ==
  readytosend' = TRUE /\ outstanding' = out /\ UNCHANGED <<txbuffer, wire>>

(* serverSentCb makes ready, and sendtxbuffer sends everything that waits in *)
(* one call.                                                                 *)
sendtxbuffer(out) ==
  IF txbuffer = <<>>
  THEN readytosend' = TRUE /\ outstanding' = out /\ UNCHANGED <<txbuffer, wire>>
  ELSE readytosend' = FALSE /\ txbuffer' = <<>> /\ espconn_sent(txbuffer, out)

(* serverSentCb does not look at the connection it is called for.            *)
serverSentCb(c) == /\ c \in linked /\ outstanding[c] > 0
                   /\ sendtxbuffer([outstanding EXCEPT ![c] = @ - 1])
                   /\ UNCHANGED <<config_status, conn, rxfrom, linked, shared, said>>

(* serverRecvCb on a segment without a line end.                             *)
RecvPart(c) == /\ c \in linked
               /\ rxfrom' = rxfrom \cup {c}
               /\ UNCHANGED <<config_status, conn, linked, conversation>>

(* serverRecvCb on the end of a line, which discards the rest of the         *)
(* segment: config_parse answers a command with some pieces, of which the    *)
(* buffer takes a; what is no command gets no answer.                        *)
RecvLine(c) == /\ c \in linked
               /\ rxfrom' = {}
               /\ \E a \in 0 .. ReplyBound :
                    said + a <= PieceBound /\ espbuffsent(a)
               /\ UNCHANGED <<config_status, conn, linked, shared>>

(* serverConnectCb takes connData over from whatever connection had it.      *)
serverConnectCb(c) ==
  /\ c \notin linked
  /\ linked' = linked \cup {c}
  /\ conn' = c
  /\ txbuffer' = <<>> /\ readytosend' = TRUE
  /\ config_status' = "TELNET_CONNNECTED"
  /\ outstanding' = [outstanding EXCEPT ![c] = 0]
  /\ shared' = (linked # {}) /\ said' = 0 /\ wire' = <<>>
  /\ UNCHANGED rxfrom

(* Wrong variant: the status falls back to the one after boot.               *)
DisconCbToNothing(c) ==
  /\ c \in linked
  /\ linked' = linked \ {c}
  /\ outstanding' = [outstanding EXCEPT ![c] = 0]
  /\ config_status' = "NOTHING"
  /\ conn' = NoClient
  /\ UNCHANGED <<txbuffer, readytosend, rxfrom, shared, said, wire>>

(* serverDisconCb looks at the state of connData->conn, whichever connection *)
(* ended: closed when it is the one that ended, open when it is linked, and  *)
(* anything when the SDK has freed it after an error.                        *)
serverDisconCb(c) ==
  /\ c \in linked
  /\ linked' = linked \ {c}
  /\ outstanding' = [outstanding EXCEPT ![c] = 0]
  /\ IF conn = NoClient THEN UNCHANGED <<config_status, conn>>
     ELSE /\ config_status' = "WIFI_CONNECTED"
          /\ conn' \in IF conn = c THEN {NoClient}
                       ELSE IF conn \in linked THEN {conn}
                       ELSE {conn, NoClient}
  /\ UNCHANGED <<txbuffer, readytosend, rxfrom, shared, said, wire>>

(* serverReconCb: the connection broke, and nothing is done about it.        *)
serverReconCb(c) == /\ c \in linked
                    /\ linked' = linked \ {c}
                    /\ outstanding' = [outstanding EXCEPT ![c] = 0]
                    /\ UNCHANGED <<config_status, conn, txbuffer, readytosend,
                                   rxfrom, shared, said, wire>>
----------------------------------------------------------------------------
ClientStep(c) == serverSentCb(c) \/ RecvPart(c) \/ RecvLine(c)
                 \/ serverDisconCb(c) \/ serverReconCb(c)

----------------------------------------------------------------------------
(* The connection connData belongs to has it for itself.                     *)
Alone == conn \in linked /\ ~shared

(* readytosend as telnet_server.h declares it, for a client that is alone:   *)
(* false only when an acknowledgement is still to come, the one that makes   *)
(* it true again and sends what waits; so nothing is sent too early and      *)
(* nothing waits for ever, whatever a previous client left behind.           *)
ReadyUnlessOutstanding ==
  Alone /\ ~MaySendFail => (readytosend <=> outstanding[conn] = 0)

(* What connData accepts for a client that is alone reaches the SDK once and *)
(* in order, whatever mix of immediate and delayed sends carries it: only    *)
(* the last pieces may still wait in the buffer.                             *)
RepliesInOrder == Alone /\ ~MaySendFail => wire \o txbuffer = Numbered(0, said)

(* What waits in the buffer for a client that is alone is sent, unless the   *)
(* client goes away or another one takes connData over.                      *)
RepliesDrain == (Alone /\ txbuffer # <<>>) ~> (~Alone \/ txbuffer = <<>>)
=============================================================================
