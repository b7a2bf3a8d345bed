----------------------------- MODULE MqttClient -----------------------------
(* The connection life cycle of one MQTT_Client: src/apps/mqtt/mqtt.c, with  *)
(* the application of examples/mqtt (wifiConnectCb, mqttConnectedCb,         *)
(* do_report).  Every callback, timer expiry and task event of the SDK runs  *)
(* to completion, so each is one action.  The message queue is the abstract  *)
(* one that ProtoQueue implements, counted in messages.                      *)
(*                                                                           *)
(* External, as mqtt.c uses it: the SDK's TCP and DNS (tcp, sending), the    *)
(* broker (inbox), Wi-Fi (wifi) and the task queue of one entry (posted).    *)
EXTENDS Integers, Sequences

CONSTANTS KeepAlive,         \* connect_info.keepalive, in timer ticks
          ReconnectTimeout,  \* MQTT_RECONNECT_TIMEOUT
          SendTimeout,       \* MQTT_SEND_TIMOUT
          UseDns,            \* the host is a name, not an address
          QueueSlots,        \* how many messages fit the queue
          InTypes,           \* the packets the broker may send
          InboxBound,        \* bound: packets under way from the broker
          InFlightBound      \* bound: packets the SDK accepts unacknowledged

ASSUME TimeoutAssumption == /\ KeepAlive \in Nat
                            /\ ReconnectTimeout \in Nat
                            /\ SendTimeout \in Nat \ {0, 1}
ASSUME BoundAssumption == /\ QueueSlots \in Nat \ {0}
                          /\ InboxBound \in Nat \ {0}
                          /\ InFlightBound \in Nat \ {0}
ASSUME DnsAssumption == UseDns \in BOOLEAN

OutTypes == {"CONNECT", "PUBLISH", "SUBSCRIBE", "PINGREQ",
             "PUBACK", "PUBREC", "PUBREL", "PUBCOMP", "PINGRESP"}

AllInTypes == {"CONNACK", "PUBLISH0", "PUBLISH1", "PUBLISH2", "PUBREC",
               "PUBREL", "PINGREQ", "OTHER"}

ASSUME InTypesAssumption == InTypes \subseteq AllInTypes

ConnStates == {"WIFI_INIT", "TCP_RECONNECT_REQ", "TCP_RECONNECT",
               "TCP_CONNECTING", "MQTT_CONNECT_SENDING", "MQTT_DATA"}

VARIABLES connState, keepAliveTick, reconnectTick, sendTimeout, msgQueue,
          pending,   \* mqtt_state.pending_msg_type
          pCon,      \* client->pCon is allocated
          timer,     \* mqttTimer is armed
          posted,    \* an event waits in mqtt_procTaskQueue
          wifi,      \* the station has an address
          tcp,       \* the SDK's connection for pCon
          sending,   \* packets given to espconn_sent, sent_cb still to come
          inbox,     \* packets from the broker not yet delivered
          segment,   \* of these, how many mqtt_tcpclient_recv is looping over
          accepted,  \* history: CONNACK arrived on this connection
          ip         \* client->ip holds an address

vars == <<connState, keepAliveTick, reconnectTick, sendTimeout, msgQueue,
          pending, pCon, timer, posted, wifi, tcp, sending, inbox, segment,
          accepted, ip>>

TypeOK == /\ connState \in ConnStates
          /\ keepAliveTick \in 0 .. KeepAlive
          /\ reconnectTick \in 0 .. ReconnectTimeout
          /\ sendTimeout \in 0 .. SendTimeout
          /\ msgQueue \in Seq(OutTypes) /\ Len(msgQueue) <= QueueSlots
          /\ pending \in OutTypes \cup {"none"}
          /\ pCon \in BOOLEAN /\ timer \in BOOLEAN /\ posted \in BOOLEAN
          /\ wifi \in BOOLEAN
          /\ tcp \in {"none", "resolving", "ignored", "connecting", "open",
                     "closing", "closed"}
          /\ sending \in 0 .. InFlightBound
          /\ inbox \in Seq(InTypes) /\ Len(inbox) <= InboxBound
          /\ segment \in 0 .. Len(inbox)
          /\ accepted \in BOOLEAN /\ ip \in BOOLEAN

(* After MQTT_InitConnection and MQTT_InitClient, which posts the task once. *)
Init == /\ connState = "WIFI_INIT"
        /\ keepAliveTick = 0 /\ reconnectTick = 0 /\ sendTimeout = 0
        /\ msgQueue = <<>> /\ pending = "none"
        /\ pCon = FALSE /\ timer = FALSE
        /\ posted = TRUE
        /\ wifi = FALSE
        /\ tcp = "none" /\ sending = 0 /\ inbox = <<>> /\ segment = 0
        /\ accepted = FALSE /\ ip = FALSE
----------------------------------------------------------------------------
(* system_os_post: when the one entry is taken the post fails, but what is   *)
(* queued then is the same event.                                            *)
system_os_post == posted' = TRUE

(* espconn_sent, whose result the callers ignore: refused without a          *)
(* connection, accepted when nothing is outstanding, either otherwise.       *)
espconn_sent ==
  sending' \in IF tcp # "open" THEN {sending}
               ELSE IF sending = 0 THEN {1}
               ELSE {sending, sending + 1} \cap (0 .. InFlightBound)

(* MQTT_Disconnect: frees pCon and disarms the timer; connState, the queue   *)
(* and sendTimeout keep their values.                                        *)
MQTT_Disconnect == /\ pCon' = FALSE
                   /\ timer' = FALSE
                   /\ tcp' = "none" /\ sending' = 0 /\ inbox' = <<>>
                   /\ segment' = 0 /\ accepted' = FALSE

(* MQTT_Connect on a station that has an address (up) or not; without one    *)
(* the SDK refuses, and mqtt.c ignores that.  The lookup of a name gets      *)
(* &client->ip, where the SDK may leave an address it knows already; nothing *)
(* sets it back to 0.                                                        *)
MQTT_Connect(up) ==
  /\ pCon' = TRUE
  /\ timer' = TRUE
  /\ keepAliveTick' = 0
  /\ reconnectTick' = 0
  /\ connState' = "TCP_CONNECTING"
  /\ tcp' = IF ~up THEN "closed" ELSE IF UseDns THEN "resolving" ELSE "connecting"
  /\ ip' \in IF UseDns THEN {ip, TRUE} ELSE {ip}
  /\ sending' = 0 /\ inbox' = <<>> /\ segment' = 0 /\ accepted' = FALSE

(* wifiConnectCb(STATION_GOT_IP), and with any other status.                 *)
WifiUp == /\ ~wifi
          /\ wifi' = TRUE
          /\ MQTT_Connect(TRUE)
          /\ UNCHANGED <<sendTimeout, msgQueue, pending, posted>>

WifiDown == /\ wifi
            /\ wifi' = FALSE
            /\ MQTT_Disconnect
            /\ UNCHANGED <<connState, keepAliveTick, reconnectTick, sendTimeout,
                           msgQueue, pending, posted, ip>>

(* QUEUE_Puts of a reply: dropped when the queue is full.                    *)
Reply(q, m) == IF Len(q) < QueueSlots THEN Append(q, m) ELSE q

(* The loop of MQTT_Publish and MQTT_Subscribe: as many of the oldest        *)
(* messages as the new one needs make room, or the partial frames do not     *)
(* leave room and everything is dropped.                                     *)
WithoutOldest(q, k) == SubSeq(q, k + 1, Len(q))
Queued(q, m) ==
  IF Len(q) < QueueSlots THEN {Append(q, m)}
  ELSE {Append(WithoutOldest(q, k), m) : k \in 1 .. Len(q)} \cup {<<>>}

(* do_report: a publish by the application, connected or not.                *)
MQTT_Publish == /\ msgQueue' \in Queued(msgQueue, "PUBLISH")
                /\ IF msgQueue' = <<>> THEN UNCHANGED posted ELSE system_os_post
                /\ UNCHANGED <<connState, keepAliveTick, reconnectTick,
                               sendTimeout, pending, pCon, timer, wifi, tcp,
                               sending, inbox, segment, accepted, ip>>

(* connectedCb = mqttConnectedCb: MQTT_Subscribe, then do_report.            *)
mqttConnectedCb(q) == UNION {Queued(r, "PUBLISH") : r \in Queued(q, "SUBSCRIBE")}
----------------------------------------------------------------------------
(* The SDK ends the connection (closed) or never opens it, and calls back.   *)
Closed == /\ tcp' = "closed" /\ sending' = 0 /\ inbox' = <<>> /\ segment' = 0
          /\ accepted' = FALSE

(* Wrong variant: a failed lookup is only logged.                            *)
DnsFailureIgnored ==
  /\ tcp = "resolving"
  /\ \/ /\ Closed
        /\ UNCHANGED connState
     \/ /\ tcp' = "connecting" /\ ~ip
        /\ connState' = "TCP_CONNECTING"
        /\ UNCHANGED <<sending, inbox, segment, accepted>>
  /\ system_os_post
  /\ UNCHANGED <<keepAliveTick, reconnectTick, sendTimeout, msgQueue, pending,
                 pCon, timer, wifi, ip>>

(* mqtt_dns_found without an address: the timer will retry, nothing is       *)
(* posted.  With one, the connection is opened when client->ip holds none.   *)
(* Else, or when the address is 0, the answer is ignored: connState stays    *)
(* TCP_CONNECTING, and the task finds nothing to do.                         *)
mqtt_dns_found ==
  /\ tcp = "resolving"
  /\ \/ /\ Closed
        /\ connState' = "TCP_RECONNECT_REQ"
        /\ UNCHANGED posted
     \/ /\ ~ip
        /\ tcp' = "connecting"
        /\ connState' = "TCP_CONNECTING"
        /\ system_os_post
        /\ UNCHANGED <<sending, inbox, segment, accepted>>
     \/ /\ tcp' = "ignored"
        /\ system_os_post
        /\ UNCHANGED <<connState, sending, inbox, segment, accepted>>
  /\ UNCHANGED <<keepAliveTick, reconnectTick, sendTimeout, msgQueue, pending,
                 pCon, timer, wifi, ip>>

(* Wrong variant: the connection counts as usable before CONNACK.            *)
ConnectCbSkippingHandshake ==
  /\ tcp = "connecting"
  /\ tcp' = "open"
  /\ pending' = "CONNECT"
  /\ sendTimeout' = SendTimeout
  /\ sending' = 1
  /\ connState' = "MQTT_DATA"
  /\ system_os_post
  /\ UNCHANGED <<keepAliveTick, reconnectTick, msgQueue, pCon, timer, wifi,
                 inbox, segment, accepted, ip>>

(* mqtt_tcpclient_connect_cb: sends CONNECT.                                 *)
mqtt_tcpclient_connect_cb ==
  /\ tcp = "connecting"
  /\ tcp' = "open"
  /\ pending' = "CONNECT"
  /\ sendTimeout' = SendTimeout
  /\ sending' = 1
  /\ connState' = "MQTT_CONNECT_SENDING"
  /\ system_os_post
  /\ UNCHANGED <<keepAliveTick, reconnectTick, msgQueue, pCon, timer, wifi,
                 inbox, segment, accepted, ip>>

(* mqtt_tcpclient_recon_cb: the connection failed or was aborted; and        *)
(* mqtt_tcpclient_discon_cb: it was closed.  The latter also calls           *)
(* disconnectedCb, which only logs.                                          *)
mqtt_tcpclient_down_cb ==
  /\ tcp \in {"connecting", "open", "closing"}
  /\ Closed
  /\ connState' = "TCP_RECONNECT_REQ"
  /\ system_os_post
  /\ UNCHANGED <<keepAliveTick, reconnectTick, sendTimeout, msgQueue, pending,
                 pCon, timer, wifi, ip>>

(* Wrong variant: the task is posted only after a PUBLISH.                   *)
SentCbForPublishOnly ==
  /\ sending > 0
  /\ sending' = sending - 1
  /\ sendTimeout' = 0
  /\ posted' = (posted \/ pending = "PUBLISH")
  /\ UNCHANGED <<connState, keepAliveTick, reconnectTick, msgQueue, pending,
                 pCon, timer, wifi, tcp, inbox, segment, accepted, ip>>

(* Wrong variant: the send timeout goes on running.                          *)
SentCbKeepingTimeout ==
  /\ sending > 0
  /\ sending' = sending - 1
  /\ system_os_post
  /\ UNCHANGED <<connState, keepAliveTick, reconnectTick, sendTimeout, msgQueue,
                 pending, pCon, timer, wifi, tcp, inbox, segment, accepted, ip>>

(* mqtt_tcpclient_sent_cb; publishedCb only logs.                            *)
mqtt_tcpclient_sent_cb ==
  /\ sending > 0
  /\ sending' = sending - 1
  /\ sendTimeout' = 0
  /\ system_os_post
  /\ UNCHANGED <<connState, keepAliveTick, reconnectTick, msgQueue, pending,
                 pCon, timer, wifi, tcp, inbox, segment, accepted, ip>>
----------------------------------------------------------------------------
(* The broker sends a packet.                                                *)
BrokerSends(p) ==
  /\ tcp = "open" /\ Len(inbox) < InboxBound
  /\ inbox' = Append(inbox, p)
  /\ UNCHANGED <<connState, keepAliveTick, reconnectTick, sendTimeout, msgQueue,
                 pending, pCon, timer, posted, wifi, tcp, sending, segment,
                 accepted, ip>>

(* TCP hands over n packets as one segment: mqtt_tcpclient_recv is called.   *)
Receive(n) ==
  /\ tcp = "open" /\ n <= Len(inbox)
  /\ segment' = n
  /\ UNCHANGED <<connState, keepAliveTick, reconnectTick, sendTimeout, msgQueue,
                 pending, pCon, timer, posted, wifi, tcp, sending, inbox,
                 accepted, ip>>

IsPublish(p) == p \in {"PUBLISH0", "PUBLISH1", "PUBLISH2"}

(* The reply mqtt_tcpclient_recv queues for a packet in MQTT_DATA.           *)
ReplyTo(p) == CASE p = "PUBLISH1" -> "PUBACK"
                [] p = "PUBLISH2" -> "PUBREC"
                [] p = "PUBREC"   -> "PUBREL"
                [] p = "PUBREL"   -> "PUBCOMP"
                [] p = "PINGREQ"  -> "PINGRESP"
                [] OTHER          -> "none"

(* The next packet of the segment is read; or the rest of the segment is     *)
(* discarded and the handler posts the task and returns.                     *)
NextPacket == /\ inbox' = Tail(inbox)
              /\ segment' = segment - 1
              /\ UNCHANGED posted

LastPacket == /\ inbox' = SubSeq(inbox, segment + 1, Len(inbox))
              /\ segment' = 0
              /\ system_os_post

(* READPACKET while CONNECT is unanswered: the CONNACK's code is not looked  *)
(* at, and only the first packet of the segment is.  A CONNACK that answers  *)
(* no CONNECT closes the connection.                                         *)
RecvBeforeData ==
  /\ segment > 0
  /\ connState # "MQTT_DATA"
  /\ LET connack == connState = "MQTT_CONNECT_SENDING" /\ Head(inbox) = "CONNACK"
     IN IF connack /\ pending = "CONNECT"
        THEN /\ connState' = "MQTT_DATA"
             /\ accepted' = TRUE
             /\ msgQueue' \in mqttConnectedCb(msgQueue)
             /\ UNCHANGED tcp
        ELSE /\ tcp' = IF connack THEN "closing" ELSE tcp
             /\ UNCHANGED <<connState, accepted, msgQueue>>
  /\ LastPacket
  /\ UNCHANGED <<keepAliveTick, reconnectTick, sendTimeout, pending, pCon,
                 timer, wifi, sending, ip>>

(* READPACKET in MQTT_DATA: queue the reply; only behind a PUBLISH is the    *)
(* rest of the segment read.                                                 *)
RecvData ==
  /\ segment > 0
  /\ connState = "MQTT_DATA"
  /\ LET p == Head(inbox)
     IN /\ msgQueue' = IF ReplyTo(p) = "none" THEN msgQueue
                       ELSE Reply(msgQueue, ReplyTo(p))
        /\ IF IsPublish(p) /\ segment > 1 THEN NextPacket ELSE LastPacket
  /\ UNCHANGED <<connState, keepAliveTick, reconnectTick, sendTimeout, pending,
                 pCon, timer, wifi, tcp, sending, accepted, ip>>
----------------------------------------------------------------------------
(* mqtt_timer, every second while armed.                                     *)
CountDown(t) == IF t > 0 THEN t - 1 ELSE 0

(* The keep-alive interval is over: PINGREQ is sent past the queue, whatever *)
(* is outstanding.                                                           *)
TimerPing ==
  /\ connState = "MQTT_DATA"
  /\ keepAliveTick + 1 > KeepAlive
  /\ pending' = "PINGREQ"
  /\ sendTimeout' = CountDown(SendTimeout)
  /\ espconn_sent
  /\ keepAliveTick' = 0
  /\ system_os_post
  /\ UNCHANGED <<connState, reconnectTick>>

(* Wrong variant: only idle seconds count towards the keep-alive.            *)
TimerKeepAliveIdle ==
  /\ connState = "MQTT_DATA"
  /\ keepAliveTick + 1 <= KeepAlive
  /\ keepAliveTick' = IF sendTimeout > 0 THEN 0 ELSE keepAliveTick + 1
  /\ sendTimeout' = CountDown(sendTimeout)
  /\ UNCHANGED <<connState, reconnectTick, pending, sending, posted>>

TimerKeepAlive ==
  /\ connState = "MQTT_DATA"
  /\ keepAliveTick + 1 <= KeepAlive
  /\ keepAliveTick' = keepAliveTick + 1
  /\ sendTimeout' = CountDown(sendTimeout)
  /\ UNCHANGED <<connState, reconnectTick, pending, sending, posted>>

(* Wrong variant: the state changes, but the task is not posted.             *)
TimerReconnectSilently ==
  /\ connState = "TCP_RECONNECT_REQ"
  /\ reconnectTick + 1 > ReconnectTimeout
  /\ reconnectTick' = 0
  /\ connState' = "TCP_RECONNECT"
  /\ sendTimeout' = CountDown(sendTimeout)
  /\ UNCHANGED <<keepAliveTick, pending, sending, posted>>

TimerReconnect ==
  /\ connState = "TCP_RECONNECT_REQ"
  /\ reconnectTick + 1 > ReconnectTimeout
  /\ reconnectTick' = 0
  /\ connState' = "TCP_RECONNECT"
  /\ sendTimeout' = CountDown(sendTimeout)
  /\ system_os_post
  /\ UNCHANGED <<keepAliveTick, pending, sending>>

TimerWait ==
  /\ connState = "TCP_RECONNECT_REQ"
  /\ reconnectTick + 1 <= ReconnectTimeout
  /\ reconnectTick' = reconnectTick + 1
  /\ sendTimeout' = CountDown(sendTimeout)
  /\ UNCHANGED <<connState, keepAliveTick, pending, sending, posted>>

TimerOther ==
  /\ connState \notin {"MQTT_DATA", "TCP_RECONNECT_REQ"}
  /\ sendTimeout' = CountDown(sendTimeout)
  /\ UNCHANGED <<connState, keepAliveTick, reconnectTick, pending, sending,
                 posted>>

mqtt_timer ==
  /\ timer
  /\ TimerPing \/ TimerKeepAlive \/ TimerReconnect \/ TimerWait \/ TimerOther
  /\ UNCHANGED <<msgQueue, pCon, timer, wifi, tcp, inbox, segment, accepted,
                 ip>>
----------------------------------------------------------------------------
(* MQTT_Task takes the posted event.                                         *)
TaskReconnect ==
  /\ connState = "TCP_RECONNECT"
  /\ MQTT_Connect(wifi)
  /\ UNCHANGED <<sendTimeout, msgQueue, pending>>

MaySend == connState = "MQTT_DATA" /\ msgQueue # <<>> /\ sendTimeout = 0

(* The oldest message is taken off the queue and given to espconn_sent.      *)
TaskSend ==
  /\ MaySend
  /\ msgQueue' = Tail(msgQueue)
  /\ pending' = Head(msgQueue)
  /\ sendTimeout' = SendTimeout
  /\ espconn_sent
  /\ UNCHANGED <<connState, keepAliveTick, reconnectTick, pCon, timer, tcp,
                 inbox, segment, accepted, ip>>

TaskNothing ==
  /\ connState # "TCP_RECONNECT" /\ ~MaySend
  /\ UNCHANGED <<connState, keepAliveTick, reconnectTick, sendTimeout, msgQueue,
                 pending, pCon, timer, tcp, sending, inbox, segment, accepted,
                 ip>>

MQTT_Task == /\ posted
             /\ posted' = FALSE
             /\ TaskReconnect \/ TaskSend \/ TaskNothing
             /\ UNCHANGED wifi
----------------------------------------------------------------------------
Wifi == WifiUp \/ WifiDown

Tcp == \/ mqtt_dns_found \/ mqtt_tcpclient_connect_cb
       \/ mqtt_tcpclient_down_cb \/ mqtt_tcpclient_sent_cb

Broker == \/ \E p \in InTypes : BrokerSends(p)
          \/ \E n \in 1 .. InboxBound : Receive(n)

READPACKET == RecvBeforeData \/ RecvData

(* While mqtt_tcpclient_recv loops over a segment nothing else runs.         *)
Next == \/ segment = 0 /\ (Wifi \/ Tcp \/ Broker \/ MQTT_Publish \/ mqtt_timer
                           \/ MQTT_Task)
        \/ READPACKET

Spec == Init /\ [][Next]_vars

(* The SDK serves every event, runs every timer and reports every packet it  *)
(* accepted as sent.  Fairness is strong because the steps of one            *)
(* mqtt_tcpclient_recv call hold the others up, if only until it returns.    *)
Fairness == /\ WF_vars(READPACKET)
            /\ SF_vars(segment = 0 /\ MQTT_Task)
            /\ SF_vars(segment = 0 /\ ~posted /\ mqtt_timer)
            /\ SF_vars(segment = 0 /\ mqtt_tcpclient_sent_cb)

LiveSpec == Spec /\ Fairness

(* A posted event is served before the one-second timer ticks again.  The    *)
(* liveness properties say what happens unless that fails for ever.          *)
Timely == ~[]<><<posted /\ mqtt_timer>>_vars
----------------------------------------------------------------------------
(* While the station has an address, connState tells what the SDK's          *)
(* connection really does, and something is under way that will call mqtt.c  *)
(* again: the reconnect timer, the posted task, the name server, the peer.   *)
(* So a reconnect request is never forgotten.  The one exception is a name's *)
(* address that mqtt_dns_found ignores (mqtt.c:69): then the client is       *)
(* TCP_CONNECTING with no connection, which only a change of Wi-Fi ends.     *)
StateMatchesConnection ==
  wifi => /\ pCon /\ timer
          /\ \/ connState = "TCP_RECONNECT_REQ" /\ tcp = "closed"
             \/ connState = "TCP_RECONNECT" /\ tcp = "closed" /\ posted
             \/ connState = "TCP_CONNECTING" /\ tcp \in {"resolving", "connecting"}
             \/ connState = "TCP_CONNECTING" /\ tcp = "ignored" /\ UseDns
             \/ /\ connState = "MQTT_CONNECT_SENDING" /\ tcp = "open"
                /\ pending = "CONNECT" /\ ~accepted
             \/ connState = "MQTT_DATA" /\ tcp = "open" /\ accepted

(* No wakeup is lost: when a message could be sent, the task is posted or a  *)
(* sent callback that will post it is still to come.  mqtt_timer lets        *)
(* sendTimeout run out without posting; that is harmless only because a      *)
(* running sendTimeout means that a sent callback is outstanding.            *)
NoLostWakeup ==
  tcp = "open" /\ segment = 0 => /\ MaySend => posted \/ sending > 0
                                 /\ sendTimeout > 0 => sending > 0

(* Nothing but CONNECT goes out on a connection before its CONNACK, neither  *)
(* from the queue, which keeps the messages of the previous connection, nor  *)
(* from the keep-alive timer.                                                *)
DataOnlyAfterConnack ==
  [][sending' > sending /\ tcp = "open" => accepted]_vars

(* MQTT_Task takes no message off the queue for a connection that is not up, *)
(* where it would be lost, except while Wi-Fi is down (then pCon is NULL and *)
(* connState may still say MQTT_DATA).                                       *)
DequeuesOnlyWhenConnected ==
  [][(MQTT_Task /\ msgQueue' # msgQueue) => (~wifi \/ (tcp = "open" /\ accepted))]_vars

(* After a disconnect, an abort or a failed lookup the client tries again.   *)
Reconnects ==
  connState = "TCP_RECONNECT_REQ" ~> ~wifi \/ tcp \in {"resolving", "connecting"}

Connected == connState = "MQTT_DATA" /\ wifi

(* As long as the connection stays up, queued messages go on being sent.     *)
QueueDrains ==
  Timely /\ <>[](Connected /\ msgQueue # <<>>)
    => []<><<MQTT_Task /\ msgQueue' # msgQueue>>_vars

(* As long as the connection stays up, PINGREQ keeps being sent, whatever    *)
(* other traffic there is.                                                   *)
KeepAlivePings ==
  Timely /\ <>[]Connected
    => []<><<mqtt_timer /\ pending' = "PINGREQ" /\ keepAliveTick' = 0>>_vars
=============================================================================
