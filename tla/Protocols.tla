------------------------------ MODULE Protocols ------------------------------
(* The running applications of examples/esp_iot: lamps, switches and         *)
(* switch-lamps (apps/app_*.c) over one MQTT client for each protocol        *)
(* (apps/protocol_manager.c, apps/mqtt/mqtt.c), with the buttons behind      *)
(* modules/gpio_mod.c.  All clients share one task queue of one entry, and   *)
(* so do all buttons.                                                        *)
(*                                                                           *)
(* MqttClient models one client in detail; here a client is what its         *)
(* applications see of it, and there may be several.  A topic is a sequence  *)
(* of levels, "#" as the last stands for all below; a value is a BOOLEAN; a  *)
(* message takes one slot of the queue.  A server is the broker, which keeps *)
(* no session (MQTT_InitClient asks for a clean one) and retains nothing.    *)
EXTENDS AppBoot, FiniteSets

CONSTANTS Boards,      \* lists of settings a board may boot with
          QueueSlots,  \* messages the outgoing queue holds
          WireBound,   \* bound: packets sent and not acknowledged
          InboxBound   \* bound: packets on their way from the broker

VARIABLES boot,      \* what the boot made of the settings (AppBoot)
          client,    \* the state of each protocol's client
          taskq,     \* mqtt_procTaskQueue: the client its event is for, or 0
          gpioq,     \* gpio_interrupt_procTaskQueue: its event's pins, or {}
          installed, \* gpio_interrupt_arg: pairs of a pin and its application
          curval,    \* what a switch or switch-lamp takes the value to be
          out,       \* the level of each lamp's pin
          told,      \* history: what the broker last sent an application
          wifi,      \* the station has an address
          joining,   \* applications mqtt_connected_cb has yet to tell
          rising     \* pins gpio_interrupt_cb_task has yet to serve

handlers == <<joining, rising>>
vars == <<boot, client, taskq, gpioq, installed, curval, out, told, wifi, handlers>>

(* No handler is in the middle of its loop.                                  *)
Idle == joining = <<>> /\ rising = {}

Clients == DOMAIN boot.protos
Apps == DOMAIN boot.apps
Config(a) == boot.apps[a].app
AppsOf(p) == boot.protos[p].apps
IsLamp(a) == Config(a).type \in {"lamp", "switchlamp"}
IsSwitch(a) == Config(a).type \in {"switch", "switchlamp"}

(* Every switch-lamp got a protocol (one that did not has an uninitialised   *)
(* pointer to it), none sends to a '#', and no two applications drive or     *)
(* read one pin.                                                             *)
ASSUME BoardsAssumption ==
  \A configs \in Boards :
    LET apps == Booted(configs).apps
    IN  /\ configs \in Seq(Range(configs))
        /\ \A a \in DOMAIN apps : apps[a].app.type = "switchlamp" =>
              apps[a].proto # 0 /\ "#" \notin Range(apps[a].app.surl)
        /\ IsInjective([a \in DOMAIN apps |-> apps[a].app.pin])

ASSUME ProtocolsAssumption == /\ QueueSlots \in Nat \ {0}
                              /\ WireBound \in Nat /\ InboxBound \in Nat

Sub(url) == [kind |-> "SUBSCRIBE", url |-> url, data |-> FALSE]
Pub(url, data) == [kind |-> "PUBLISH", url |-> url, data |-> data]
Packet(kind) == [kind |-> kind, url |-> <<>>, data |-> FALSE]

(* The fields of a client: conn is connState, tcp the SDK's connection, busy *)
(* that sendTimeout runs, unacked the packets sent whose sent_cb is to come. *)
(* status is the protocol's; odd is a history: a message was lost on the     *)
(* board's side since CONNACK.                                               *)
Fresh == [conn |-> "WIFI_INIT", tcp |-> "closed", status |-> "INIT",
          busy |-> FALSE, pending |-> "none", unacked |-> 0, queue |-> <<>>,
          wire |-> <<>>, inbox |-> <<>>, subs |-> {}, odd |-> FALSE]

Conns == {"WIFI_INIT", "TCP_CONNECTING", "MQTT_CONNECT_SENDING", "MQTT_DATA",
          "TCP_RECONNECT_REQ", "TCP_RECONNECT"}

TypeOK == /\ taskq \in 0..Len(boot.protos)
          /\ gpioq \in SUBSET {pair[1] : pair \in installed}
          /\ \A p \in Clients :
               /\ client[p].conn \in Conns
               /\ client[p].tcp \in {"closed", "connecting", "open"}
               /\ client[p].status \in {"INIT", "CONNECTED", "SENDING"}
               /\ Len(client[p].queue) <= QueueSlots
               /\ client[p].subs \subseteq {Config(a).url : a \in Range(AppsOf(p))}
          /\ curval \in [Apps -> BOOLEAN] /\ out \in [Apps -> BOOLEAN]

(* A client can use its connection.                                          *)
Online(p) == client[p].conn = "MQTT_DATA" /\ client[p].tcp = "open"

(* The boot: user_init, with the interrupts switchlamp_aftercreate installs. *)
(* MQTT_InitClient posts each client; the first one's event fills the queue. *)
Init == /\ boot \in {Booted(configs) : configs \in Boards}
        /\ client = [p \in Clients |-> Fresh]
        /\ taskq = IF Clients = {} THEN 0 ELSE 1
        /\ gpioq = {}
        /\ installed = {<<Config(a).swpin, a>> :
                          a \in {b \in Apps : Config(b).type = "switchlamp"}}
        /\ curval = [a \in Apps |-> FALSE] /\ out = [a \in Apps |-> FALSE]
        /\ told = [a \in Apps |-> {}]
        /\ wifi = FALSE
        /\ joining = <<>> /\ rising = {}
----------------------------------------------------------------------------
(* system_os_post for a client: lost, without a word, when the one entry is  *)
(* taken.                                                                    *)
Post(p) == taskq' = IF taskq = 0 THEN p ELSE taskq

(* protocol_filter_by_url: the same topic, or the text in front of a '#'.    *)
protocol_filter_by_url(url, topic) ==
  IF "#" \in Range(url) THEN IsStrictPrefix(Front(url), topic) ELSE url = topic

(* The broker's matching: a '#' stands for the level above it too.           *)
Matches(url, topic) ==
  IF "#" \in Range(url) THEN IsPrefix(Front(url), topic) ELSE url = topic

(* MQTT_Publish and MQTT_Subscribe up to the post: on a full queue as many   *)
(* of the oldest messages as it takes make room, or the partial frames leave *)
(* none and everything is dropped.                                           *)
WithoutOldest(q, k) == SubSeq(q, k + 1, Len(q))

Queued(c, m) ==
  IF Len(c.queue) < QueueSlots THEN {[c EXCEPT !.queue = Append(@, m)]}
  ELSE {[c EXCEPT !.queue = Append(WithoutOldest(@, k), m), !.odd = TRUE] :
           k \in 1 .. Len(c.queue)}
       \cup {[c EXCEPT !.queue = <<>>, !.odd = TRUE]}

(* MQTT_Connect: the connection is abandoned and a new one begun, which the  *)
(* SDK refuses without an address; that is not looked at.                    *)
MQTT_Connect(c, up) ==
  [c EXCEPT !.conn = "TCP_CONNECTING", !.tcp = IF up THEN "connecting" ELSE "closed",
            !.wire = <<>>, !.inbox = <<>>, !.unacked = 0, !.subs = {}]

(* MQTT_Disconnect: the connection is abandoned; connState stays.            *)
MQTT_Disconnect(c) == [c EXCEPT !.tcp = "closed", !.wire = <<>>, !.inbox = <<>>,
                                !.unacked = 0, !.subs = {}]

(* espconn_sent, whose result nobody looks at: refused without a connection, *)
(* accepted when nothing is outstanding, either otherwise.                   *)
espconn_sent(c, m) ==
  LET taken == [c EXCEPT !.wire = Append(@, m), !.unacked = @ + 1]
      lost == [c EXCEPT !.odd = TRUE]
  IN  IF c.tcp # "open" THEN {lost}
      ELSE IF c.unacked = 0 THEN {taken}
      ELSE {lost} \cup (IF c.unacked < WireBound THEN {taken} ELSE {})

Sent(c, m) == espconn_sent([c EXCEPT !.pending = m.kind, !.busy = TRUE], m)
----------------------------------------------------------------------------
(* wifiConnectCb: protocol_connect and protocol_disconnect for every         *)
(* protocol.                                                                 *)
WifiUp == /\ ~wifi /\ wifi' = TRUE
          /\ client' = [p \in Clients |-> MQTT_Connect(client[p], TRUE)]
          /\ UNCHANGED <<boot, taskq, gpioq, installed, curval, out, told>>

WifiDown == /\ wifi /\ wifi' = FALSE
            /\ client' = [p \in Clients |-> MQTT_Disconnect(client[p])]
            /\ UNCHANGED <<boot, taskq, gpioq, installed, curval, out, told>>

(* A step of one client's connection.                                        *)
ClientStep(p, c) == /\ client' = [client EXCEPT ![p] = c]
                    /\ UNCHANGED <<boot, gpioq, wifi>>
ClientOnly(p, c) == /\ ClientStep(p, c)
                    /\ UNCHANGED <<installed, curval, out, told>>

(* mqtt_tcpclient_connect_cb: CONNECT is sent.                               *)
mqtt_tcpclient_connect_cb(p) ==
  /\ client[p].tcp = "connecting"
  /\ \E c \in Sent([client[p] EXCEPT !.tcp = "open",
                                     !.conn = "MQTT_CONNECT_SENDING"],
                   Packet("CONNECT")) : ClientOnly(p, c)
  /\ Post(p)

(* mqtt_dns_found without an address: nothing is posted.  Or with one that   *)
(* is 0 or not looked at, as client->ip holds one already: nothing is        *)
(* opened, and connState stays.  (Else the connection goes on being opened.) *)
mqtt_dns_found(p) ==
  /\ client[p].tcp = "connecting"
  /\ \/ /\ ClientOnly(p, [client[p] EXCEPT !.tcp = "closed",
                                            !.conn = "TCP_RECONNECT_REQ"])
        /\ UNCHANGED taskq
     \/ /\ ClientOnly(p, [client[p] EXCEPT !.tcp = "closed"])
        /\ Post(p)

(* mqtt_tcpclient_recon_cb: the connection failed or was aborted.            *)
mqtt_tcpclient_recon_cb(p) ==
  /\ client[p].tcp # "closed"
  /\ ClientOnly(p, [MQTT_Disconnect(client[p]) EXCEPT !.conn = "TCP_RECONNECT_REQ"])
  /\ Post(p)

(* mqtt_tcpclient_discon_cb and mqtt_disconnected_cb: it was closed.  The    *)
(* applications' offline does nothing.                                       *)
mqtt_tcpclient_discon_cb(p) ==
  /\ client[p].tcp = "open"
  /\ ClientOnly(p, [MQTT_Disconnect(client[p]) EXCEPT !.conn = "TCP_RECONNECT_REQ",
                                                      !.status = "INIT"])
  /\ Post(p)

(* Wrong variant: only after INIT.                                           *)
ConnectedAfterInit(p) == IF client[p].status = "INIT" THEN AppsOf(p) ELSE <<>>

(* protocol_connected_cb: the applications that go online, in order.         *)
protocol_connected_cb(p) == AppsOf(p)

(* CONNACK and mqtt_connected_cb: the applications go online.                *)
mqtt_connected_cb(p) ==
  /\ client[p].conn = "MQTT_CONNECT_SENDING" /\ client[p].tcp = "open"
  /\ \A i \in DOMAIN client[p].wire : client[p].wire[i].kind # "CONNECT"
  /\ ClientStep(p, [client[p] EXCEPT !.conn = "MQTT_DATA", !.status = "CONNECTED",
                                    !.odd = FALSE])
  /\ told' = [a \in Apps |-> IF a \in Range(AppsOf(p)) THEN {} ELSE told[a]]
  /\ joining' = protocol_connected_cb(p)
  /\ Post(p)
  /\ UNCHANGED <<installed, curval, out, rising>>

(* protocol_register_receive, which online is for a lamp: its topic is       *)
(* subscribed.                                                               *)
protocol_register_receive(c, a) == Queued(c, Sub(Config(a).url))

(* switch_online also installs the switch's interrupt.                       *)
switch_online(a) == IF Config(a).type = "switch" THEN {<<Config(a).pin, a>>} ELSE {}

(* One turn of the loop of protocol_connected_cb.                            *)
app_online ==
  /\ joining # <<>> /\ joining' = Tail(joining)
  /\ LET a == Head(joining)
         p == boot.apps[a].proto
     IN  /\ \E c \in protocol_register_receive(client[p], a) : ClientStep(p, c)
         /\ installed' = installed \cup switch_online(a)
         /\ Post(p)
  /\ UNCHANGED <<curval, out, told, rising>>

(* Wrong variant: a report that comes after the timeout is not one.          *)
SentInTime(p) ==
  LET c == client[p]
  IN  /\ c.tcp = "open" /\ c.unacked > Len(c.wire)
      /\ ClientOnly(p, [c EXCEPT !.unacked = @ - 1, !.busy = FALSE,
                                 !.status = IF Online(p) /\ c.pending = "PUBLISH" /\ c.busy
                                            THEN "CONNECTED" ELSE @])
      /\ Post(p)

(* mqtt_tcpclient_sent_cb and mqtt_sent_cb: a PUBLISH is reported while it   *)
(* is the last thing that was sent.  (The broker reads what its TCP          *)
(* acknowledges at once.)                                                    *)
mqtt_sent_cb(p) ==
  LET c == client[p]
  IN  /\ c.tcp = "open" /\ c.unacked > Len(c.wire)
      /\ ClientOnly(p, [c EXCEPT !.unacked = @ - 1, !.busy = FALSE,
                                 !.status = IF Online(p) /\ c.pending = "PUBLISH"
                                            THEN "CONNECTED" ELSE @])
      /\ Post(p)

(* mqtt_timer, armed while the station is connected: the keep-alive goes     *)
(* past the queue, whatever is outstanding.                                  *)
KeepAlive(p) == /\ wifi /\ client[p].conn = "MQTT_DATA"
                /\ \E c \in Sent(client[p], Packet("PINGREQ")) : ClientOnly(p, c)
                /\ Post(p)

SendTimeout(p) == /\ wifi /\ client[p].busy
                  /\ ClientOnly(p, [client[p] EXCEPT !.busy = FALSE])
                  /\ UNCHANGED taskq

Reconnect(p) == /\ wifi /\ client[p].conn = "TCP_RECONNECT_REQ"
                /\ ClientOnly(p, [client[p] EXCEPT !.conn = "TCP_RECONNECT"])
                /\ Post(p)

(* MQTT_Task for the client its event names: the connection is begun again,  *)
(* or the oldest message is sent, or there is nothing to do.                 *)
MaySend(c) == c.conn = "MQTT_DATA" /\ c.queue # <<>> /\ ~c.busy

MQTT_Task ==
  /\ taskq # 0 /\ taskq' = 0
  /\ LET c == client[taskq]
     IN  \/ /\ c.conn = "TCP_RECONNECT"
            /\ ClientOnly(taskq, MQTT_Connect(c, wifi))
         \/ /\ MaySend(c)
            /\ \E d \in Sent([c EXCEPT !.queue = Tail(@)], Head(c.queue)) :
                 ClientOnly(taskq, d)
         \/ /\ c.conn # "TCP_RECONNECT" /\ ~MaySend(c)
            /\ ClientOnly(taskq, c)
----------------------------------------------------------------------------
(* The broker.  A packet for a client is put on its connection, and the      *)
(* applications it matches are told.                                         *)
Subscribed(p, m) == \E url \in client[p].subs : Matches(url, m.url)
MayDeliver(m) == \A p \in Clients : Subscribed(p, m) => Len(client[p].inbox) < InboxBound
Delivered(clients, m) ==
  [p \in Clients |-> IF Subscribed(p, m) THEN [clients[p] EXCEPT !.inbox = Append(@, m)]
                     ELSE clients[p]]
Told(m) ==
  [a \in Apps |-> IF /\ boot.apps[a].proto # 0 /\ Subscribed(boot.apps[a].proto, m)
                     /\ protocol_filter_by_url(Config(a).url, m.url)
                  THEN {m.data} ELSE told[a]]

BrokerOnly == UNCHANGED <<boot, taskq, gpioq, installed, curval, out, wifi>>

(* It reads a packet from a client: a subscription is entered and            *)
(* acknowledged, a PUBLISH passed on to every subscriber.                    *)
BrokerReads(p) ==
  LET c == client[p]
      m == Head(c.wire)
      rest == [client EXCEPT ![p].wire = Tail(@)]
  IN  /\ c.tcp = "open" /\ c.wire # <<>>
      /\ CASE m.kind = "PUBLISH" ->
                MayDeliver(m) /\ client' = Delivered(rest, m) /\ told' = Told(m)
           [] m.kind = "CONNECT" -> client' = rest /\ UNCHANGED told
           [] OTHER ->
                /\ Len(c.inbox) < InboxBound
                /\ client' = [rest EXCEPT ![p].inbox = Append(@, Packet("ACK")),
                                ![p].subs = IF m.kind = "SUBSCRIBE" THEN @ \cup {m.url}
                                            ELSE @]
                /\ UNCHANGED told
      /\ BrokerOnly

(* Another device publishes on a topic.                                      *)
OtherPublishes(url, data) ==
  /\ \E p \in Clients : Subscribed(p, Pub(url, data))
  /\ MayDeliver(Pub(url, data))
  /\ client' = Delivered(client, Pub(url, data)) /\ told' = Told(Pub(url, data))
  /\ BrokerOnly
----------------------------------------------------------------------------
(* What the packets of one segment mean to an application: behind one that   *)
(* is no PUBLISH the rest is not looked at, and the last one counts.         *)
ReadAt(segment) ==
  {i \in DOMAIN segment : \A j \in 1 .. i : segment[j].kind = "PUBLISH"}

Meant(a, segment) ==
  {i \in ReadAt(segment) : protocol_filter_by_url(Config(a).url, segment[i].url)}

Value(a, segment, old) ==
  IF Meant(a, segment) = {} THEN old ELSE segment[Max(Meant(a, segment))].data

(* lamp_recv, switch_recv and switchlamp_recv: what each makes of it.        *)
lamp_recv(a, segment) == [value |-> curval[a], level |-> Value(a, segment, out[a])]
switch_recv(a, segment) == [value |-> Value(a, segment, curval[a]), level |-> out[a]]
switchlamp_recv(a, segment) == [value |-> Value(a, segment, curval[a]),
                                level |-> Value(a, segment, out[a])]

Recv(a, segment) == CASE Config(a).type = "lamp" -> lamp_recv(a, segment)
                      [] Config(a).type = "switch" -> switch_recv(a, segment)
                      [] OTHER -> switchlamp_recv(a, segment)

(* Wrong variant: while something of its own is on the way, what arrives is  *)
(* taken for an echo of it.                                                  *)
ReceivedUnlessSending(p, segment) ==
  LET mine == {a \in Range(AppsOf(p)) : client[p].status # "SENDING"}
  IN  /\ curval' = [a \in Apps |-> IF a \in mine THEN Recv(a, segment).value ELSE curval[a]]
      /\ out' = [a \in Apps |-> IF a \in mine THEN Recv(a, segment).level ELSE out[a]]

(* protocol_received_cb: recv of every application of the protocol whose     *)
(* topic it is.                                                              *)
protocol_received_cb(p, segment) ==
  LET mine == Range(AppsOf(p))
  IN  /\ curval' = [a \in Apps |-> IF a \in mine THEN Recv(a, segment).value ELSE curval[a]]
      /\ out' = [a \in Apps |-> IF a \in mine THEN Recv(a, segment).level ELSE out[a]]

(* mqtt_tcpclient_recv for the next n packets, in one segment.               *)
mqtt_tcpclient_recv(p, n) ==
  LET segment == SubSeq(client[p].inbox, 1, n)
      unread == DOMAIN segment \ ReadAt(segment)
  IN  /\ client[p].tcp = "open" /\ n <= Len(client[p].inbox)
      /\ protocol_received_cb(p, segment)
      /\ ClientStep(p, [client[p] EXCEPT
                          !.inbox = SubSeq(@, n + 1, Len(@)),
                          !.odd = @ \/ \E i \in unread : segment[i].kind = "PUBLISH"])
      /\ Post(p)
      /\ UNCHANGED <<installed, told>>
----------------------------------------------------------------------------
(* Buttons.  gpio_intr_handler posts the pins that rose since it last ran;   *)
(* the post is lost when the task has not run since.                         *)
gpio_intr_handler(pins) ==
  /\ gpioq' = IF gpioq = {} THEN pins ELSE gpioq
  /\ UNCHANGED <<boot, client, taskq, installed, curval, out, told, wifi, handlers>>

(* protocol_send, in each way MQTT_Publish may make room.                    *)
protocol_send(p, m) ==
  \E c \in Queued([client[p] EXCEPT !.status = "SENDING"], m) :
    /\ client' = [client EXCEPT ![p] = c]
    /\ IF c.queue # <<>> THEN Post(p) ELSE UNCHANGED taskq

(* switch_interrupt_cb sends the opposite value, and waits for the broker's  *)
(* word; switchlamp_interrupt_cb also takes it over.                         *)
switch_interrupt_cb(a) ==
  /\ protocol_send(boot.apps[a].proto, Pub(Config(a).surl, ~curval[a]))
  /\ UNCHANGED <<curval, out>>

switchlamp_interrupt_cb(a) ==
  /\ curval' = [curval EXCEPT ![a] = ~curval[a]]
  /\ out' = [out EXCEPT ![a] = ~curval[a]]
  /\ protocol_send(boot.apps[a].proto, Pub(Config(a).surl, ~curval[a]))

Pressed(a) == IF Config(a).type = "switch" THEN switch_interrupt_cb(a)
              ELSE switchlamp_interrupt_cb(a)

AppAt(pin) == (CHOOSE pair \in installed : pair[1] = pin)[2]

(* gpio_interrupt_cb_task: the callbacks of the event's pins, in ascending   *)
(* order.                                                                    *)
gpio_interrupt_cb_task ==
  /\ gpioq # {} /\ gpioq' = {} /\ rising' = gpioq
  /\ UNCHANGED <<boot, client, taskq, installed, curval, out, told, wifi, joining>>

gpio_interrupt_cb ==
  /\ \E pin \in rising :
       /\ \A other \in rising : pin <= other
       /\ rising' = rising \ {pin}
       /\ Pressed(AppAt(pin))
  /\ UNCHANGED <<boot, gpioq, installed, told, wifi, joining>>

Pins == {pair[1] : pair \in installed}
Urls == {Config(a).surl : a \in Apps} \cup {Config(a).url : a \in Apps}

SdkStep(p) == \/ mqtt_tcpclient_connect_cb(p) \/ mqtt_dns_found(p)
              \/ mqtt_tcpclient_recon_cb(p) \/ mqtt_tcpclient_discon_cb(p)
              \/ mqtt_sent_cb(p) \/ BrokerReads(p)
              \/ \E n \in 1..InboxBound : mqtt_tcpclient_recv(p, n)

mqtt_timer(p) == KeepAlive(p) \/ SendTimeout(p) \/ Reconnect(p)

(* What is one step, between which and the loops only the interrupt comes.   *)
Callback == \/ WifiUp \/ WifiDown
            \/ \E p \in Clients : SdkStep(p) \/ mqtt_timer(p)
            \/ MQTT_Task
            \/ \E url \in Urls, data \in BOOLEAN :
                 "#" \notin Range(url) /\ OtherPublishes(url, data)

Next == \/ Idle /\ Callback /\ UNCHANGED handlers
        \/ Idle /\ \E p \in Clients : mqtt_connected_cb(p)
        \/ app_online
        \/ Idle /\ gpio_interrupt_cb_task
        \/ gpio_interrupt_cb
        \/ \E pins \in SUBSET Pins \ {{}} : gpio_intr_handler(pins)

Spec == Init /\ [][Next]_vars
----------------------------------------------------------------------------
(* Whatever interrupts, packets and reconnections come in between: with a    *)
(* connection, every application has its topic subscribed or the             *)
(* subscription on the way, unless a message was lost for want of room.      *)
AllSubscribed ==
  \A p \in Clients : Online(p) /\ ~client[p].odd =>
    \A a \in Range(AppsOf(p)) \ Range(joining) :
      \/ Config(a).url \in client[p].subs
      \/ Sub(Config(a).url) \in Range(client[p].queue) \cup Range(client[p].wire)

(* Once nothing that concerns an application is on the way in either         *)
(* direction, it shows the value the broker last sent it, also a switch-lamp *)
(* whose button raced with other devices; provided nothing was lost on the   *)
(* board, and what the switch-lamp sends comes back to it.                   *)
Concerns(a, ms) == \E i \in DOMAIN ms :
  ms[i].kind = "PUBLISH" /\ protocol_filter_by_url(Config(a).url, ms[i].url)
Settles ==
  \A p \in Clients : \A a \in Range(AppsOf(p)) :
    LET c == client[p]
        echoed == Config(a).type = "switchlamp" =>
                    protocol_filter_by_url(Config(a).url, Config(a).surl)
    IN  /\ Online(p) /\ ~c.odd /\ told[a] # {} /\ echoed
        /\ ~Concerns(a, c.queue) /\ ~Concerns(a, c.wire) /\ ~Concerns(a, c.inbox)
        => /\ IsLamp(a) => told[a] = {out[a]}
           /\ IsSwitch(a) => told[a] = {curval[a]}

(* A protocol with a connection is not INIT, and one with nothing queued and *)
(* nothing unacknowledged is not SENDING: the report of the last PUBLISH can *)
(* be missed, but only through a lost message or a keep-alive.               *)
StatusFollowsSession ==
  /\ TypeOK
  /\ \A p \in Clients : LET c == client[p] IN Online(p) =>
       /\ c.status # "INIT"
       /\ c.status = "SENDING" /\ c.queue = <<>> /\ c.unacked = 0
          => c.odd \/ c.pending = "PINGREQ"
=============================================================================
