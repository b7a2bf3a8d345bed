-------------------------- MODULE Protocols_proofs --------------------------
(* Proofs about Protocols: whatever boards are booted and however many       *)
(* messages the queue holds, an application of a client with a connection    *)
(* keeps its subscription (AllSubscribed), ends up showing what the broker   *)
(* last sent it (Settles), and a protocol's status follows its session       *)
(* (StatusFollowsSession).  That user_init leaves sound lists is proved in   *)
(* AppBoot_proofs.                                                           *)
(*                                                                           *)
(* The lemmas go from sequences over the moves of one client's messages (to  *)
(* the queue, from the queue to the connection, from there to the broker,    *)
(* from its answers to the applications) to the actions.                     *)
EXTENDS Protocols, AppBoot_proofs, SequenceTheorems, TLAPS

(* Types.                                                                    *)
Kinds == {"CONNECT", "SUBSCRIBE", "PUBLISH", "PINGREQ", "ACK"}
Messages == [kind : Kinds, url : Urls \cup {<<>>}, data : BOOLEAN]
ClientRecords == [conn : Conns, tcp : {"closed", "connecting", "open"},
                  status : {"INIT", "CONNECTED", "SENDING"}, busy : BOOLEAN,
                  pending : Kinds \cup {"none"}, unacked : Nat,
                  queue : Seq(Messages), wire : Seq(Messages),
                  inbox : Seq(Messages), subs : SUBSET Urls, odd : BOOLEAN]

(* The topics of a protocol's applications.                                  *)
Topics(p) == {Config(a).url : a \in Range(AppsOf(p))}

IsOnline(c) == c.conn = "MQTT_DATA" /\ c.tcp = "open"

(* A client without a session has nothing on the wire but its CONNECT.       *)
WireFollowsTcp(c) ==
  /\ c.tcp # "open" => c.wire = <<>> /\ c.subs = {}
  /\ c.tcp = "open" /\ c.conn # "MQTT_DATA" =>
       c.subs = {} /\ \A i \in DOMAIN c.wire : c.wire[i].kind = "CONNECT"

SubscribesOwn(p, ms) ==
  \A i \in DOMAIN ms : ms[i].kind = "SUBSCRIBE" => ms[i].url \in Topics(p)

(* The report of the last PUBLISH is still to come, if it can.               *)
StatusOK(c) ==
  IsOnline(c) =>
    /\ c.status # "INIT"
    /\ c.status = "SENDING" /\ ~c.odd =>
         IF c.queue # <<>> THEN c.queue[Len(c.queue)].kind = "PUBLISH"
         ELSE c.pending = "PINGREQ" \/ (c.pending = "PUBLISH" /\ c.unacked > 0)

(* An application's topic is subscribed, or the subscription on its way.     *)
HasTopic(c, a) ==
  \/ Config(a).url \in c.subs
  \/ \E i \in DOMAIN c.queue : c.queue[i] = Sub(Config(a).url)
  \/ \E i \in DOMAIN c.wire : c.wire[i] = Sub(Config(a).url)

SessionOK(p, c, j) ==
  /\ c \in ClientRecords
  /\ Len(c.queue) <= QueueSlots
  /\ SubscribesOwn(p, c.queue) /\ SubscribesOwn(p, c.wire) /\ c.subs \subseteq Topics(p)
  /\ WireFollowsTcp(c)
  /\ StatusOK(c)
  /\ IsOnline(c) /\ ~c.odd => \A a \in Range(AppsOf(p)) \ Range(j) : HasTopic(c, a)

(* A message that concerns an application.                                   *)
ConcernsIt(a, m) ==
  m.kind = "PUBLISH" /\ protocol_filter_by_url(Config(a).url, m.url)

(* What an application shows once its client has received what is on its way *)
(* is what the broker last sent it.                                          *)
Agrees(c, a, t, v, o) ==
  \/ \E k \in DOMAIN c.inbox :
       /\ ConcernsIt(a, c.inbox[k]) /\ t = {c.inbox[k].data}
       /\ \A i \in DOMAIN c.inbox : ConcernsIt(a, c.inbox[i]) => i <= k
  \/ /\ \A i \in DOMAIN c.inbox : ~ConcernsIt(a, c.inbox[i])
     /\ (IsLamp(a) => t = {o}) /\ (IsSwitch(a) => t = {v})

(* Or what it sent itself is on its way to the broker, behind its            *)
(* subscription, and will come back to it.                                   *)
EchoInWire(c, a) ==
  \E i \in DOMAIN c.wire :
    /\ ConcernsIt(a, c.wire[i])
    /\ \/ Config(a).url \in c.subs
       \/ \E j \in 1 .. (i - 1) : c.wire[j] = Sub(Config(a).url)
EchoInQueue(c, a) ==
  \E i \in DOMAIN c.queue :
    /\ ConcernsIt(a, c.queue[i])
    /\ \/ Config(a).url \in c.subs
       \/ \E j \in DOMAIN c.wire : c.wire[j] = Sub(Config(a).url)
       \/ \E j \in 1 .. (i - 1) : c.queue[j] = Sub(Config(a).url)

Echo(c, a) == EchoInWire(c, a) \/ EchoInQueue(c, a)

(* What a switch-lamp sends comes back to it.                                *)
Echoed(a) == Config(a).type = "switchlamp" =>
               protocol_filter_by_url(Config(a).url, Config(a).surl)

ShowsOK(c, a, t, v, o) ==
  IsOnline(c) /\ ~c.odd /\ t # {} /\ Echoed(a) =>
    Agrees(c, a, t, v, o) \/ Echo(c, a)

(* The boot's lists.                                                         *)
BootOK ==
  /\ Clients = 1 .. Len(boot.protos) /\ Len(boot.protos) \in Nat
  /\ \A p \in Clients : AppsOf(p) \in Seq(Apps)
  /\ \A p \in Clients : \A a \in Range(AppsOf(p)) : boot.apps[a].proto = p
  /\ \A a \in Apps : boot.apps[a].proto # 0 =>
       boot.apps[a].proto \in Clients /\ a \in Range(AppsOf(boot.apps[a].proto))

ButtonsOK ==
  /\ \A pair \in installed : /\ pair[2] \in Apps /\ boot.apps[pair[2]].proto # 0
                              /\ IsSwitch(pair[2])
  /\ gpioq \subseteq Pins /\ rising \subseteq Pins
  /\ rising # {} => joining = <<>>

(* The applications that go online are of one protocol, which knows it is    *)
(* connected.                                                                *)
JoiningOK ==
  /\ joining \in Seq(Apps)
  /\ \A i \in DOMAIN joining :
       /\ boot.apps[joining[i]].proto # 0
       /\ client[boot.apps[joining[i]].proto].status = "CONNECTED"

Values == /\ curval \in [Apps -> BOOLEAN] /\ out \in [Apps -> BOOLEAN]
          /\ told \in [Apps -> SUBSET BOOLEAN]

Sessions == /\ client \in [Clients -> ClientRecords]
            /\ \A p \in Clients : SessionOK(p, client[p], joining)

Shows == \A p \in Clients : \A a \in Range(AppsOf(p)) :
           ShowsOK(client[p], a, told[a], curval[a], out[a])

ProtocolsInv == /\ BootOK /\ ButtonsOK /\ JoiningOK
                /\ taskq \in 0 .. Len(boot.protos)
                /\ Values /\ Sessions /\ Shows
----------------------------------------------------------------------------
(* Append keeps the places of a sequence and adds one.                       *)
LEMMA AppendPlaces ==
  ASSUME NEW S, NEW s \in Seq(S), NEW m \in S
  PROVE  /\ Append(s, m) \in Seq(S) /\ Len(Append(s, m)) = Len(s) + 1
         /\ \A i \in DOMAIN s : i \in DOMAIN Append(s, m) /\ Append(s, m)[i] = s[i]
         /\ \A i \in DOMAIN Append(s, m) : i \in DOMAIN s \/ i = Len(s) + 1
         /\ Len(s) + 1 \in DOMAIN Append(s, m) /\ Append(s, m)[Len(s) + 1] = m
         /\ \A i \in DOMAIN s : i < Len(s) + 1
  OBVIOUS

(* Tail moves every place one down.                                          *)
LEMMA TailPlaces ==
  ASSUME NEW S, NEW s \in Seq(S), s # <<>>
  PROVE  /\ Tail(s) \in Seq(S) /\ Len(Tail(s)) = Len(s) - 1
         /\ Head(s) \in S /\ Head(s) = s[1] /\ 1 \in DOMAIN s
         /\ \A i \in DOMAIN Tail(s) : i + 1 \in DOMAIN s /\ Tail(s)[i] = s[i + 1]
         /\ \A i \in DOMAIN s : i # 1 => i - 1 \in DOMAIN Tail(s) /\ Tail(s)[i - 1] = s[i]
  OBVIOUS

(* A queue without its k oldest messages: the others, in their order.        *)
LEMMA RestPlaces ==
  ASSUME NEW S, NEW s \in Seq(S), NEW k \in 1 .. Len(s)
  PROVE  /\ WithoutOldest(s, k) \in Seq(S) /\ Len(WithoutOldest(s, k)) = Len(s) - k
         /\ \A i \in DOMAIN WithoutOldest(s, k) :
              i + k \in DOMAIN s /\ WithoutOldest(s, k)[i] = s[i + k]
<1> DEFINE r == SubSeq(s, k + 1, Len(s))
<1>1. \A i \in k + 1 .. Len(s) : s[i] \in S
  OBVIOUS
<1>2. k + 1 \in Int /\ Len(s) \in Int /\ k \in Int /\ k >= 1 /\ k <= Len(s)
  OBVIOUS
<1>3. /\ r \in Seq(S)
      /\ Len(r) = IF k + 1 <= Len(s) THEN Len(s) - (k + 1) + 1 ELSE 0
      /\ \A i \in 1 .. Len(s) - (k + 1) + 1 : r[i] = s[(k + 1) + i - 1]
  BY <1>1, <1>2, SubSeqProperties
<1> HIDE DEF r
<1>4. Len(r) = Len(s) - k
  BY <1>2, <1>3
<1>5. ASSUME NEW i \in DOMAIN r PROVE i + k \in DOMAIN s /\ r[i] = s[i + k]
  <2>1. i \in 1 .. Len(s) - k
    BY <1>3, <1>4
  <2>2. i \in 1 .. Len(s) - (k + 1) + 1 /\ (k + 1) + i - 1 = i + k
    BY <1>2, <2>1
  <2>3. i + k \in 1 .. Len(s)
    BY <1>2, <2>1
  <2> QED
    BY <1>3, <2>2, <2>3
<1> QED
  BY <1>3, <1>4, <1>5 DEF r, WithoutOldest

(* Places are numbers from 1.                                                *)
LEMMA Places ==
  ASSUME NEW S, NEW s \in Seq(S)
  PROVE  DOMAIN s = 1 .. Len(s) /\ Len(s) \in Nat
         /\ \A i \in DOMAIN s : i \in Int /\ i >= 1 /\ s[i] \in S
  OBVIOUS

(* MQTT_Subscribe and MQTT_Publish with room: the other messages keep their  *)
(* places, a subscription is on its way, and what an application publishes   *)
(* behind its own subscription will come back.                               *)
LEMMA PutInQueue ==
  ASSUME NEW c \in ClientRecords, NEW d \in ClientRecords, NEW m \in Messages,
         d.queue = Append(c.queue, m), d.wire = c.wire, d.subs = c.subs, NEW a
  PROVE  /\ HasTopic(c, a) \/ m = Sub(Config(a).url) => HasTopic(d, a)
         /\ Echo(c, a) \/ (ConcernsIt(a, m) /\ HasTopic(c, a)) => Echo(d, a)
<1>1. c.queue \in Seq(Messages) /\ c.wire \in Seq(Messages)
  BY DEF ClientRecords
<1>2. /\ \A i \in DOMAIN c.queue : i \in DOMAIN d.queue /\ d.queue[i] = c.queue[i]
      /\ Len(c.queue) + 1 \in DOMAIN d.queue /\ d.queue[Len(c.queue) + 1] = m
      /\ \A i \in DOMAIN c.queue : i \in 1 .. Len(c.queue)
  BY <1>1, AppendPlaces, Places
<1>3. HasTopic(c, a) \/ m = Sub(Config(a).url) => HasTopic(d, a)
  BY <1>2 DEF HasTopic
<1>4. EchoInWire(c, a) => EchoInWire(d, a)
  BY DEF EchoInWire
<1>5. EchoInQueue(c, a) => EchoInQueue(d, a)
  <2>1. \A i \in DOMAIN c.queue : \A j \in 1 .. (i - 1) : j \in DOMAIN c.queue
    BY <1>1, Places
  <2> QED
    BY <1>2, <2>1 DEF EchoInQueue
<1>6. ConcernsIt(a, m) /\ HasTopic(c, a) => EchoInQueue(d, a)
  <2>1. Len(c.queue) \in Nat
    BY <1>1
  <2>2. \A i \in DOMAIN c.queue : i \in 1 .. (Len(c.queue) + 1 - 1)
    BY <1>2, <2>1
  <2> QED
    BY <1>2, <2>2 DEF EchoInQueue, HasTopic
<1> QED
  BY <1>3, <1>4, <1>5, <1>6 DEF Echo

(* MQTT_Task: the oldest message goes to the connection.                     *)
LEMMA QueueToWire ==
  ASSUME NEW c \in ClientRecords, NEW d \in ClientRecords, c.queue # <<>>,
         d.queue = Tail(c.queue), d.wire = Append(c.wire, Head(c.queue)),
         d.subs = c.subs, NEW a
  PROVE  (HasTopic(c, a) => HasTopic(d, a)) /\ (Echo(c, a) => Echo(d, a))
<1> DEFINE q == c.queue
           w == c.wire
           L == Len(w) + 1
<1>1. q \in Seq(Messages) /\ w \in Seq(Messages) /\ q # <<>>
  BY DEF ClientRecords
<1>2. /\ \A i \in DOMAIN w : i \in DOMAIN d.wire /\ d.wire[i] = w[i] /\ i < L
      /\ L \in DOMAIN d.wire /\ d.wire[L] = q[1] /\ L \in Int
  BY <1>1, AppendPlaces, TailPlaces, Places
<1>3. /\ \A i \in DOMAIN q : i # 1 => i - 1 \in DOMAIN d.queue /\ d.queue[i - 1] = q[i]
      /\ \A i \in DOMAIN q : i \in Int /\ i >= 1 /\ \A j \in 1 .. (i - 1) : j \in DOMAIN q
      /\ \A i \in DOMAIN w : i \in Int /\ i >= 1 /\ \A j \in 1 .. (i - 1) : j \in DOMAIN w
  BY <1>1, TailPlaces, Places
<1> HIDE DEF q, w, L
<1>4. HasTopic(c, a) => HasTopic(d, a)
  <2>1. ASSUME NEW j \in DOMAIN q, q[j] = Sub(Config(a).url) PROVE HasTopic(d, a)
    BY <1>2, <1>3, <2>1 DEF HasTopic
  <2>2. ASSUME NEW j \in DOMAIN w, w[j] = Sub(Config(a).url) PROVE HasTopic(d, a)
    BY <1>2, <2>2 DEF HasTopic
  <2> QED
    BY <2>1, <2>2 DEF HasTopic, q, w
<1>5. EchoInWire(c, a) => EchoInWire(d, a)
  <2>1. SUFFICES ASSUME EchoInWire(c, a) PROVE EchoInWire(d, a)
    OBVIOUS
  <2>2. PICK i \in DOMAIN w : /\ ConcernsIt(a, w[i])
                              /\ \/ Config(a).url \in c.subs
                                 \/ \E j \in 1 .. (i - 1) : w[j] = Sub(Config(a).url)
    BY <2>1 DEF EchoInWire, w
  <2>3. i \in DOMAIN d.wire /\ d.wire[i] = w[i]
        /\ \A j \in 1 .. (i - 1) : d.wire[j] = w[j]
    BY <1>2, <1>3
  <2> QED
    BY <2>2, <2>3 DEF EchoInWire
<1>6. EchoInQueue(c, a) => Echo(d, a)
  <2>1. SUFFICES ASSUME EchoInQueue(c, a) PROVE Echo(d, a)
    OBVIOUS
  <2>2. PICK i \in DOMAIN q : /\ ConcernsIt(a, q[i])
                              /\ \/ Config(a).url \in c.subs
                                 \/ \E j \in DOMAIN w : w[j] = Sub(Config(a).url)
                                 \/ \E j \in 1 .. (i - 1) : q[j] = Sub(Config(a).url)
    BY <2>1 DEF EchoInQueue, w, q
  <2>3. CASE i = 1
    <3>1. ~ \E j \in 1 .. (i - 1) : TRUE
      BY <2>3
    <3>2. \A j \in DOMAIN w : j \in 1 .. (L - 1) /\ d.wire[j] = w[j]
      BY <1>2, <1>3
    <3>3. EchoInWire(d, a)
      BY <1>2, <2>2, <2>3, <3>1, <3>2 DEF EchoInWire
    <3> QED
      BY <3>3 DEF Echo
  <2>4. CASE i # 1
    <3>1. i - 1 \in DOMAIN d.queue /\ d.queue[i - 1] = q[i]
      BY <1>3, <2>4
    <3>2. (\E j \in DOMAIN w : w[j] = Sub(Config(a).url)) =>
             \E j \in DOMAIN d.wire : d.wire[j] = Sub(Config(a).url)
      BY <1>2
    <3>3. ASSUME NEW j \in 1 .. (i - 1), q[j] = Sub(Config(a).url)
          PROVE  \/ \E k \in DOMAIN d.wire : d.wire[k] = Sub(Config(a).url)
                 \/ \E k \in 1 .. ((i - 1) - 1) : d.queue[k] = Sub(Config(a).url)
      <4>1. CASE j = 1
        BY <1>2, <3>3, <4>1
      <4>2. CASE j # 1
        <5>1. j \in DOMAIN q /\ i \in Int
          BY <1>3
        <5>2. j - 1 \in 1 .. ((i - 1) - 1)
          BY <4>2, <5>1
        <5>3. d.queue[j - 1] = q[j]
          BY <1>3, <4>2, <5>1
        <5> QED
          BY <3>3, <5>2, <5>3
      <4> QED
        BY <4>1, <4>2
    <3>4. EchoInQueue(d, a)
      BY <2>2, <3>1, <3>2, <3>3 DEF EchoInQueue
    <3> QED
      BY <3>4 DEF Echo
  <2> QED
    BY <2>3, <2>4
<1> QED
  BY <1>4, <1>5, <1>6 DEF Echo

(* The keep-alive goes to the connection past the queue.                     *)
LEMMA PutOnWire ==
  ASSUME NEW c \in ClientRecords, NEW d \in ClientRecords, NEW m \in Messages,
         d.queue = c.queue, d.wire = Append(c.wire, m), d.subs = c.subs, NEW a
  PROVE  (HasTopic(c, a) => HasTopic(d, a)) /\ (Echo(c, a) => Echo(d, a))
<1>1. c.wire \in Seq(Messages)
  BY DEF ClientRecords
<1>2. /\ \A i \in DOMAIN c.wire : i \in DOMAIN d.wire /\ d.wire[i] = c.wire[i]
      /\ \A i \in DOMAIN c.wire : \A j \in 1 .. (i - 1) : j \in DOMAIN c.wire
  BY <1>1, AppendPlaces, Places
<1>3. HasTopic(c, a) => HasTopic(d, a)
  BY <1>2 DEF HasTopic
<1>4. EchoInWire(c, a) => EchoInWire(d, a)
  BY <1>2 DEF EchoInWire
<1>5. EchoInQueue(c, a) => EchoInQueue(d, a)
  BY <1>2 DEF EchoInQueue
<1> QED
  BY <1>3, <1>4, <1>5 DEF Echo

(* BrokerReads: a subscription is entered when it is read; of what was on    *)
(* its way back to an application, only the message that is read is not any  *)
(* more, and its topic is subscribed then.                                   *)
LEMMA ReadFromWire ==
  ASSUME NEW c \in ClientRecords, NEW d \in ClientRecords, c.wire # <<>>,
         d.queue = c.queue, d.wire = Tail(c.wire), NEW a,
         d.subs = IF Head(c.wire).kind = "SUBSCRIBE"
                  THEN c.subs \cup {Head(c.wire).url} ELSE c.subs
  PROVE  /\ HasTopic(c, a) => HasTopic(d, a)
         /\ Echo(c, a) => \/ Echo(d, a)
                          \/ ConcernsIt(a, Head(c.wire)) /\ Config(a).url \in c.subs
<1> DEFINE w == c.wire
<1>1. w \in Seq(Messages) /\ c.queue \in Seq(Messages) /\ w # <<>>
  BY DEF ClientRecords
<1>2. /\ \A i \in DOMAIN w : i # 1 => i - 1 \in DOMAIN d.wire /\ d.wire[i - 1] = w[i]
      /\ \A i \in DOMAIN w : i \in Int /\ i >= 1 /\ \A j \in 1 .. (i - 1) : j \in DOMAIN w
      /\ Head(w) = w[1]
  BY <1>1, TailPlaces, Places
<1>3. Config(a).url \in c.subs => Config(a).url \in d.subs
  OBVIOUS
<1>4. w[1] = Sub(Config(a).url) => Config(a).url \in d.subs
  BY <1>2 DEF Sub
<1> HIDE DEF w
<1>5. ASSUME NEW j \in DOMAIN w, w[j] = Sub(Config(a).url)
      PROVE  \/ Config(a).url \in d.subs
             \/ j # 1 /\ j - 1 \in DOMAIN d.wire /\ d.wire[j - 1] = Sub(Config(a).url)
  BY <1>2, <1>4, <1>5
<1>6. HasTopic(c, a) => HasTopic(d, a)
  BY <1>3, <1>5 DEF HasTopic, w
<1>7. EchoInQueue(c, a) => EchoInQueue(d, a)
  BY <1>3, <1>5 DEF EchoInQueue, w
<1>8. ASSUME EchoInWire(c, a)
      PROVE  EchoInWire(d, a) \/ (ConcernsIt(a, Head(w)) /\ Config(a).url \in c.subs)
  <2>1. PICK i \in DOMAIN w : /\ ConcernsIt(a, w[i])
                              /\ \/ Config(a).url \in c.subs
                                 \/ \E j \in 1 .. (i - 1) : w[j] = Sub(Config(a).url)
    BY <1>8 DEF EchoInWire, w
  <2>2. CASE i = 1
    <3>1. ~ \E j \in 1 .. (i - 1) : TRUE
      BY <2>2
    <3> QED
      BY <1>2, <2>1, <2>2, <3>1
  <2>3. CASE i # 1
    <3>1. i - 1 \in DOMAIN d.wire /\ d.wire[i - 1] = w[i]
      BY <1>2, <2>3
    <3>2. ASSUME NEW j \in 1 .. (i - 1), w[j] = Sub(Config(a).url)
          PROVE  \/ Config(a).url \in d.subs
                 \/ \E k \in 1 .. ((i - 1) - 1) : d.wire[k] = Sub(Config(a).url)
      <4>1. j \in DOMAIN w
        BY <1>2
      <4>2. CASE j # 1 /\ j - 1 \in DOMAIN d.wire /\ d.wire[j - 1] = Sub(Config(a).url)
        <5>1. j - 1 \in 1 .. ((i - 1) - 1)
          BY <1>2, <4>2
        <5> QED
          BY <4>2, <5>1
      <4> QED
        BY <1>5, <3>2, <4>1, <4>2
    <3> QED
      BY <1>3, <2>1, <3>1, <3>2 DEF EchoInWire
  <2> QED
    BY <2>2, <2>3
<1> QED
  BY <1>6, <1>7, <1>8 DEF Echo, w
----------------------------------------------------------------------------
(* The parts of the invariant say the same of one client before and after a  *)
(* step: the boot's lists do not change.                                     *)
LEMMA SameBoot ==
  ASSUME boot' = boot
  PROVE  /\ Clients' = Clients /\ Apps' = Apps /\ Urls' = Urls
         /\ ClientRecords' = ClientRecords
         /\ BootOK' = BootOK
         /\ \A a : Config(a)' = Config(a) /\ IsSwitch(a)' = IsSwitch(a)
         /\ \A p : AppsOf(p)' = AppsOf(p)
<1>1. /\ Clients' = Clients /\ Apps' = Apps
      /\ \A a : Config(a)' = Config(a)
      /\ \A p : AppsOf(p)' = AppsOf(p)
  BY DEF Clients, Apps, Config, AppsOf
<1>2. Urls' = Urls
  BY <1>1 DEF Urls
<1>3. ClientRecords' = ClientRecords
  BY <1>2 DEF ClientRecords, Messages
<1>4. BootOK' = BootOK
  BY <1>1 DEF BootOK
<1>5. \A a : IsSwitch(a)' = IsSwitch(a)
  BY <1>1 DEF IsSwitch
<1> QED
  BY <1>1, <1>2, <1>3, <1>4, <1>5

(* The same of SessionOK.                                                    *)
LEMMA SameSession ==
  ASSUME boot' = boot, NEW p, NEW c, NEW j
  PROVE  SessionOK(p, c, j)' = SessionOK(p, c, j)
<1>1. \A a : Config(a)' = Config(a)
  BY SameBoot
<1>2. AppsOf(p)' = AppsOf(p) /\ ClientRecords' = ClientRecords
  BY SameBoot
<1>3. Topics(p)' = Topics(p)
  BY <1>1, <1>2 DEF Topics
<1>4. \A a : HasTopic(c, a)' = HasTopic(c, a)
  BY <1>1 DEF HasTopic
<1> QED
  BY <1>2, <1>3, <1>4
     DEF SessionOK, SubscribesOwn, WireFollowsTcp, StatusOK, IsOnline

(* The same of ShowsOK.                                                      *)
LEMMA SameShows ==
  ASSUME boot' = boot, NEW c, NEW a, NEW t, NEW v, NEW o
  PROVE  ShowsOK(c, a, t, v, o)' = ShowsOK(c, a, t, v, o)
<1>1. \A b : Config(b)' = Config(b)
  BY SameBoot
<1>2. \A m : ConcernsIt(a, m)' = ConcernsIt(a, m)
  BY <1>1 DEF ConcernsIt
<1>3. IsLamp(a)' = IsLamp(a) /\ IsSwitch(a)' = IsSwitch(a)
  BY <1>1 DEF IsLamp, IsSwitch
<1>4. Agrees(c, a, t, v, o)' = Agrees(c, a, t, v, o)
  BY <1>2, <1>3 DEF Agrees
<1>5. Echo(c, a)' = Echo(c, a)
  BY <1>1, <1>2 DEF Echo, EchoInWire, EchoInQueue
<1>6. Echoed(a)' = Echoed(a)
  BY <1>1 DEF Echoed
<1> QED
  BY <1>4, <1>5, <1>6 DEF ShowsOK, IsOnline

(* A message in the queue is one of the broker's topics.                     *)
LEMMA MessageTypes ==
  /\ \A a \in Apps : Sub(Config(a).url) \in Messages
  /\ \A a \in Apps, v \in BOOLEAN : Pub(Config(a).surl, v) \in Messages
  /\ \A kind \in Kinds : Packet(kind) \in Messages
  BY DEF Sub, Pub, Packet, Messages, Kinds, Urls

(* What Queued leaves alone, and that only with a loss a message is not just *)
(* put behind the others.                                                    *)
LEMMA QueuedIs ==
  ASSUME NEW c \in ClientRecords, Len(c.queue) <= QueueSlots, NEW m \in Messages,
         NEW d \in Queued(c, m)
  PROVE  /\ d \in ClientRecords /\ Len(d.queue) <= QueueSlots
         /\ d.conn = c.conn /\ d.tcp = c.tcp /\ d.status = c.status
         /\ d.wire = c.wire /\ d.subs = c.subs /\ d.inbox = c.inbox
         /\ \/ d.odd = c.odd /\ d.queue = Append(c.queue, m)
            \/ d.odd /\ d.queue = <<>>
            \/ /\ d.odd
               /\ \E k \in 1 .. Len(c.queue) :
                    d.queue = Append(WithoutOldest(c.queue, k), m)
<1> DEFINE q == c.queue
<1>1. q \in Seq(Messages)
  BY DEF ClientRecords
<1>2. QueueSlots \in Nat \ {0}
  BY ProtocolsAssumption
<1>3. CASE Len(q) < QueueSlots /\ d = [c EXCEPT !.queue = Append(q, m)]
  <2>1. Append(q, m) \in Seq(Messages) /\ Len(Append(q, m)) <= QueueSlots
    BY <1>1, <1>2, <1>3
  <2>2. d \in ClientRecords /\ d.queue = Append(q, m)
    BY <1>3, <2>1 DEF ClientRecords
  <2> QED
    BY <1>3, <2>1, <2>2 DEF ClientRecords
<1>4. CASE ~(Len(q) < QueueSlots) /\ d = [c EXCEPT !.queue = <<>>, !.odd = TRUE]
  <2>1. <<>> \in Seq(Messages) /\ Len(<<>>) = 0
    OBVIOUS
  <2>2. d \in ClientRecords /\ d.queue = <<>> /\ d.odd
    BY <1>4, <2>1 DEF ClientRecords
  <2> QED
    BY <1>2, <1>4, <2>1, <2>2 DEF ClientRecords
<1>5. ASSUME NEW k \in 1 .. Len(q),
             d = [c EXCEPT !.queue = Append(WithoutOldest(q, k), m), !.odd = TRUE]
      PROVE  /\ d \in ClientRecords /\ Len(d.queue) <= QueueSlots
             /\ d.conn = c.conn /\ d.tcp = c.tcp /\ d.status = c.status
             /\ d.wire = c.wire /\ d.subs = c.subs /\ d.inbox = c.inbox
             /\ d.odd /\ d.queue = Append(WithoutOldest(q, k), m)
  <2> DEFINE r == WithoutOldest(q, k)
  <2>1. r \in Seq(Messages) /\ Len(r) = Len(q) - k
    BY <1>1, RestPlaces
  <2>2. k \in Int /\ k >= 1 /\ Len(q) \in Int /\ Len(q) <= QueueSlots
    BY <1>1
  <2> HIDE DEF r
  <2>3. Append(r, m) \in Seq(Messages) /\ Len(Append(r, m)) <= QueueSlots
    BY <1>2, <2>1, <2>2
  <2>4. d = [c EXCEPT !.queue = Append(r, m), !.odd = TRUE]
    BY <1>5 DEF r
  <2>5. d \in ClientRecords /\ d.queue = Append(r, m)
    BY <2>3, <2>4 DEF ClientRecords
  <2> QED
    BY <2>3, <2>4, <2>5 DEF ClientRecords, r
<1>6. \/ Len(q) < QueueSlots /\ d = [c EXCEPT !.queue = Append(q, m)]
      \/ ~(Len(q) < QueueSlots) /\ d = [c EXCEPT !.queue = <<>>, !.odd = TRUE]
      \/ \E k \in 1 .. Len(q) :
           d = [c EXCEPT !.queue = Append(WithoutOldest(q, k), m), !.odd = TRUE]
  BY DEF Queued
<1>7. CASE \E k \in 1 .. Len(q) :
             d = [c EXCEPT !.queue = Append(WithoutOldest(q, k), m), !.odd = TRUE]
  BY <1>5, <1>7
<1> QED
  BY <1>3, <1>4, <1>6, <1>7

(* What Sent leaves alone, and that a packet which is not lost is the last   *)
(* on the connection.                                                        *)
LEMMA SentIs ==
  ASSUME NEW c \in ClientRecords, NEW m \in Messages, NEW d \in Sent(c, m)
  PROVE  /\ d \in ClientRecords /\ d.pending = m.kind
         /\ d.conn = c.conn /\ d.tcp = c.tcp /\ d.status = c.status
         /\ d.queue = c.queue /\ d.subs = c.subs /\ d.inbox = c.inbox
         /\ \/ d.odd /\ d.wire = c.wire
            \/ /\ d.tcp = "open" /\ d.odd = c.odd /\ d.unacked > 0
               /\ d.wire = Append(c.wire, m)
<1> DEFINE b == [c EXCEPT !.pending = m.kind, !.busy = TRUE]
<1>1. b \in ClientRecords
  BY DEF ClientRecords, Messages
<1>2. /\ b.pending = m.kind /\ b.conn = c.conn /\ b.tcp = c.tcp /\ b.status = c.status
      /\ b.queue = c.queue /\ b.subs = c.subs /\ b.inbox = c.inbox /\ b.odd = c.odd
      /\ b.wire = c.wire
  BY DEF ClientRecords
<1>3. d \in espconn_sent(b, m)
  BY DEF Sent
<1> HIDE DEF b
<1>4. CASE d = [b EXCEPT !.odd = TRUE]
  <2>1. d \in ClientRecords
    BY <1>1, <1>4 DEF ClientRecords
  <2>2. /\ d.pending = b.pending /\ d.conn = b.conn /\ d.tcp = b.tcp
        /\ d.status = b.status /\ d.queue = b.queue /\ d.subs = b.subs
        /\ d.inbox = b.inbox /\ d.odd /\ d.wire = b.wire
    BY <1>1, <1>4 DEF ClientRecords
  <2> QED
    BY <1>2, <2>1, <2>2
<1>5. CASE b.tcp = "open" /\ d = [b EXCEPT !.wire = Append(@, m), !.unacked = @ + 1]
  <2>0. /\ b.unacked \in Nat /\ b.unacked + 1 \in Nat
        /\ Append(b.wire, m) \in Seq(Messages)
    BY <1>1 DEF ClientRecords
  <2>1. d \in ClientRecords
    BY <1>1, <1>5, <2>0 DEF ClientRecords
  <2>2. /\ d.pending = b.pending /\ d.conn = b.conn /\ d.tcp = b.tcp
        /\ d.status = b.status /\ d.queue = b.queue /\ d.subs = b.subs
        /\ d.inbox = b.inbox /\ d.odd = b.odd /\ d.wire = Append(b.wire, m)
        /\ d.unacked = b.unacked + 1
    BY <1>1, <1>5 DEF ClientRecords
  <2> QED
    BY <1>2, <1>5, <2>0, <2>1, <2>2
<1> QED
  BY <1>3, <1>4, <1>5 DEF espconn_sent
----------------------------------------------------------------------------
(* SubscribesOwn through the moves of messages.                              *)
LEMMA OwnThrough ==
  ASSUME NEW p, NEW s \in Seq(Messages), SubscribesOwn(p, s)
  PROVE  /\ SubscribesOwn(p, <<>>)
         /\ \A m \in Messages : (m.kind = "SUBSCRIBE" => m.url \in Topics(p)) =>
              SubscribesOwn(p, Append(s, m))
         /\ s # <<>> => SubscribesOwn(p, Tail(s)) /\ Tail(s) \in Seq(Messages)
         /\ \A k \in 1 .. Len(s) : SubscribesOwn(p, WithoutOldest(s, k))
                                  /\ WithoutOldest(s, k) \in Seq(Messages)
<1>1. SubscribesOwn(p, <<>>)
  BY DEF SubscribesOwn
<1>2. ASSUME NEW m \in Messages, m.kind = "SUBSCRIBE" => m.url \in Topics(p)
      PROVE  SubscribesOwn(p, Append(s, m))
  BY <1>2, AppendPlaces DEF SubscribesOwn
<1>3. ASSUME s # <<>> PROVE SubscribesOwn(p, Tail(s)) /\ Tail(s) \in Seq(Messages)
  BY <1>3, TailPlaces DEF SubscribesOwn
<1>4. ASSUME NEW k \in 1 .. Len(s)
      PROVE  /\ SubscribesOwn(p, WithoutOldest(s, k))
             /\ WithoutOldest(s, k) \in Seq(Messages)
  BY RestPlaces DEF SubscribesOwn
<1> QED
  BY <1>1, <1>2, <1>3, <1>4

(* What is put behind the youngest messages subscribes to own topics too.    *)
LEMMA OwnBehindRest ==
  ASSUME NEW p, NEW s \in Seq(Messages), SubscribesOwn(p, s), NEW k \in 1 .. Len(s),
         NEW m \in Messages, m.kind = "SUBSCRIBE" => m.url \in Topics(p)
  PROVE  SubscribesOwn(p, Append(WithoutOldest(s, k), m))
<1>1. SubscribesOwn(p, WithoutOldest(s, k)) /\ WithoutOldest(s, k) \in Seq(Messages)
  BY OwnThrough
<1> QED
  BY <1>1, OwnThrough

(* A step that ends a session or begins a connection.                        *)
LEMMA NoSession ==
  ASSUME NEW p, NEW c, NEW j, SessionOK(p, c, j), NEW d \in ClientRecords,
         d.queue = c.queue, ~ IsOnline(d), d.subs = {},
         \/ d.wire = <<>>
         \/ d.tcp = "open" /\ \A i \in DOMAIN d.wire : d.wire[i].kind = "CONNECT"
  PROVE  /\ \A k : SessionOK(p, d, k)
         /\ \A a, t, v, o : ShowsOK(d, a, t, v, o)
<1>1. SubscribesOwn(p, d.wire)
  BY DEF SubscribesOwn
<1>2. WireFollowsTcp(d)
  BY DEF WireFollowsTcp
<1>3. StatusOK(d)
  BY DEF StatusOK
<1> QED
  BY <1>1, <1>2, <1>3 DEF SessionOK, ShowsOK

(* A step that leaves a client's messages and connection alone.              *)
LEMMA SameMail ==
  ASSUME NEW p, NEW c, NEW j, SessionOK(p, c, j), NEW d \in ClientRecords,
         d.queue = c.queue, d.wire = c.wire, d.subs = c.subs,
         d.conn = c.conn, d.tcp = c.tcp, ~ d.odd => ~ c.odd, StatusOK(d)
  PROVE  /\ SessionOK(p, d, j)
         /\ \A a : Echo(c, a) => Echo(d, a)
<1>1. \A a : HasTopic(c, a) => HasTopic(d, a)
  BY DEF HasTopic
<1>2. \A a : Echo(c, a) => Echo(d, a)
  BY DEF Echo, EchoInWire, EchoInQueue
<1>3. WireFollowsTcp(d) /\ (IsOnline(d) => IsOnline(c))
  BY DEF WireFollowsTcp, IsOnline, SessionOK
<1> QED
  BY <1>1, <1>2, <1>3 DEF SessionOK

(* Where nothing arrived, what an application shows stays right when what    *)
(* was to come back to it still will.                                        *)
LEMMA ShowsFollow ==
  ASSUME NEW c, NEW d, NEW a, NEW t, NEW v, NEW o, ShowsOK(c, a, t, v, o),
         d.conn = c.conn, d.tcp = c.tcp, d.inbox = c.inbox, ~ d.odd => ~ c.odd,
         ~ d.odd => (Echo(c, a) => Echo(d, a))
  PROVE  ShowsOK(d, a, t, v, o)
<1>1. Agrees(c, a, t, v, o) => Agrees(d, a, t, v, o)
  BY DEF Agrees
<1> QED
  BY <1>1 DEF ShowsOK, IsOnline

(* One turn of protocol_connected_cb's loop.                                 *)
LEMMA Subscribes ==
  ASSUME NEW p, NEW c, NEW j \in Seq(Apps), j # <<>>, SessionOK(p, c, j),
         c.status = "CONNECTED", Head(j) \in Range(AppsOf(p)),
         NEW d \in Queued(c, Sub(Config(Head(j)).url))
  PROVE  /\ SessionOK(p, d, Tail(j)) /\ d.status = "CONNECTED"
         /\ \A a, t, v, o : ShowsOK(c, a, t, v, o) => ShowsOK(d, a, t, v, o)
<1> DEFINE h == Head(j)
           m == Sub(Config(h).url)
<1>1. m \in Messages /\ m.kind = "SUBSCRIBE" /\ m.url = Config(h).url
  BY MessageTypes DEF Sub
<1>2. m.url \in Topics(p)
  BY <1>1 DEF Topics
<1>3. /\ c \in ClientRecords /\ Len(c.queue) <= QueueSlots
      /\ SubscribesOwn(p, c.queue) /\ SubscribesOwn(p, c.wire) /\ c.subs \subseteq Topics(p)
      /\ WireFollowsTcp(c)
      /\ IsOnline(c) /\ ~c.odd => \A a \in Range(AppsOf(p)) \ Range(j) : HasTopic(c, a)
  BY DEF SessionOK
<1>4. d \in Queued(c, m)
  OBVIOUS
<1> HIDE DEF m
<1>5. /\ d \in ClientRecords /\ Len(d.queue) <= QueueSlots
      /\ d.conn = c.conn /\ d.tcp = c.tcp /\ d.status = c.status
      /\ d.wire = c.wire /\ d.subs = c.subs /\ d.inbox = c.inbox
      /\ \/ d.odd = c.odd /\ d.queue = Append(c.queue, m)
         \/ d.odd /\ d.queue = <<>>
         \/ /\ d.odd
            /\ \E k \in 1 .. Len(c.queue) :
                 d.queue = Append(WithoutOldest(c.queue, k), m)
  BY <1>1, <1>3, <1>4, QueuedIs
<1>6. c.queue \in Seq(Messages)
  BY <1>3 DEF ClientRecords
<1>7. SubscribesOwn(p, d.queue)
  BY <1>1, <1>2, <1>3, <1>5, <1>6, OwnThrough, OwnBehindRest
<1>8. WireFollowsTcp(d) /\ StatusOK(d) /\ (IsOnline(d) => IsOnline(c))
  BY <1>3, <1>5 DEF WireFollowsTcp, StatusOK, IsOnline
<1>9. ASSUME ~ d.odd, NEW a
      PROVE  /\ HasTopic(c, a) \/ a = h => HasTopic(d, a)
             /\ Echo(c, a) => Echo(d, a)
  <2>1. d.queue = Append(c.queue, m)
    BY <1>5, <1>9
  <2>2. a = h => m = Sub(Config(a).url)
    BY DEF m
  <2> QED
    BY <1>1, <1>3, <1>5, <2>1, <2>2, PutInQueue
<1>10. \A a \in Range(j) : a \in Range(Tail(j)) \/ a = h
  BY TailPlaces DEF Range
<1>11. IsOnline(d) /\ ~d.odd => \A a \in Range(AppsOf(p)) \ Range(Tail(j)) : HasTopic(d, a)
  BY <1>3, <1>5, <1>8, <1>9, <1>10
<1>12. SessionOK(p, d, Tail(j))
  BY <1>3, <1>5, <1>7, <1>8, <1>11 DEF SessionOK
<1>13. ASSUME NEW a, NEW t, NEW v, NEW o, ShowsOK(c, a, t, v, o)
       PROVE  ShowsOK(d, a, t, v, o)
  <2>1. ~ d.odd => ~ c.odd
    BY <1>5
  <2> QED
    BY <1>5, <1>9, <1>13, <2>1, ShowsFollow
<1> QED
  BY <1>5, <1>12, <1>13

(* protocol_send: what concerns an application will come back to it, and     *)
(* then it shows what it was shown for it, whatever it shows now.            *)
LEMMA Publishes ==
  ASSUME NEW p, NEW c, SessionOK(p, c, <<>>), NEW m \in Messages, m.kind = "PUBLISH",
         NEW d \in Queued([c EXCEPT !.status = "SENDING"], m)
  PROVE  /\ SessionOK(p, d, <<>>)
         /\ \A a, t, v, o : ShowsOK(c, a, t, v, o) => ShowsOK(d, a, t, v, o)
         /\ \A a, t, v, o : a \in Range(AppsOf(p)) /\ ConcernsIt(a, m) =>
              ShowsOK(d, a, t, v, o)
<1> DEFINE b == [c EXCEPT !.status = "SENDING"]
<1>1. /\ c \in ClientRecords /\ Len(c.queue) <= QueueSlots
      /\ SubscribesOwn(p, c.queue) /\ SubscribesOwn(p, c.wire) /\ c.subs \subseteq Topics(p)
      /\ WireFollowsTcp(c)
      /\ IsOnline(c) /\ ~c.odd => \A a \in Range(AppsOf(p)) \ Range(<<>>) : HasTopic(c, a)
  BY DEF SessionOK
<1>2. /\ b \in ClientRecords /\ b.queue = c.queue /\ b.wire = c.wire /\ b.subs = c.subs
      /\ b.inbox = c.inbox /\ b.conn = c.conn /\ b.tcp = c.tcp /\ b.odd = c.odd
      /\ b.status = "SENDING"
  BY <1>1 DEF ClientRecords
<1>3. d \in Queued(b, m) /\ Len(b.queue) <= QueueSlots
  BY <1>1, <1>2
<1> HIDE DEF b
<1>4. /\ d \in ClientRecords /\ Len(d.queue) <= QueueSlots
      /\ d.conn = c.conn /\ d.tcp = c.tcp /\ d.status = "SENDING"
      /\ d.wire = c.wire /\ d.subs = c.subs /\ d.inbox = c.inbox
      /\ \/ d.odd = c.odd /\ d.queue = Append(c.queue, m)
         \/ d.odd /\ d.queue = <<>>
         \/ /\ d.odd
            /\ \E k \in 1 .. Len(c.queue) :
                 d.queue = Append(WithoutOldest(c.queue, k), m)
  BY <1>2, <1>3, QueuedIs
<1>5. c.queue \in Seq(Messages)
  BY <1>1 DEF ClientRecords
<1>6. SubscribesOwn(p, d.queue)
  BY <1>1, <1>4, <1>5, OwnThrough, OwnBehindRest
<1>7. WireFollowsTcp(d) /\ (IsOnline(d) => IsOnline(c)) /\ (~ d.odd => ~ c.odd)
  BY <1>1, <1>4 DEF WireFollowsTcp, IsOnline
<1>8. StatusOK(d)
  <2>1. ~ d.odd => d.queue # <<>> /\ d.queue[Len(d.queue)] = m
    BY <1>4, <1>5, AppendPlaces
  <2> QED
    BY <1>4, <2>1 DEF StatusOK
<1>9. ASSUME ~ d.odd, NEW a
      PROVE  /\ HasTopic(c, a) => HasTopic(d, a)
             /\ Echo(c, a) \/ (ConcernsIt(a, m) /\ HasTopic(c, a)) => Echo(d, a)
  <2>1. d.queue = Append(c.queue, m)
    BY <1>4, <1>9
  <2> QED
    BY <1>1, <1>4, <2>1, PutInQueue
<1>10. IsOnline(d) /\ ~d.odd => \A a \in Range(AppsOf(p)) \ Range(<<>>) : HasTopic(d, a)
  BY <1>1, <1>7, <1>9
<1>11. SessionOK(p, d, <<>>)
  BY <1>1, <1>4, <1>6, <1>7, <1>8, <1>10 DEF SessionOK
<1>12. ASSUME NEW a, NEW t, NEW v, NEW o, ShowsOK(c, a, t, v, o)
       PROVE  ShowsOK(d, a, t, v, o)
  BY <1>4, <1>7, <1>9, <1>12, ShowsFollow
<1>13. ASSUME NEW a, a \in Range(AppsOf(p)), ConcernsIt(a, m), NEW t, NEW v, NEW o
       PROVE  ShowsOK(d, a, t, v, o)
  <2>1. a \notin Range(<<>>)
    BY DEF Range
  <2>2. IsOnline(d) /\ ~d.odd => Echo(d, a)
    BY <1>1, <1>7, <1>9, <1>13, <2>1
  <2> QED
    BY <2>2 DEF ShowsOK
<1> QED
  BY <1>11, <1>12, <1>13

(* The keep-alive.                                                           *)
LEMMA KeepsAlive ==
  ASSUME NEW p, NEW c, NEW j, SessionOK(p, c, j), c.conn = "MQTT_DATA",
         NEW d \in Sent(c, Packet("PINGREQ"))
  PROVE  /\ SessionOK(p, d, j)
         /\ \A a, t, v, o : ShowsOK(c, a, t, v, o) => ShowsOK(d, a, t, v, o)
<1> DEFINE m == Packet("PINGREQ")
<1>1. m \in Messages /\ m.kind = "PINGREQ"
  BY MessageTypes DEF Packet, Kinds
<1>2. /\ c \in ClientRecords /\ Len(c.queue) <= QueueSlots
      /\ SubscribesOwn(p, c.queue) /\ SubscribesOwn(p, c.wire) /\ c.subs \subseteq Topics(p)
      /\ WireFollowsTcp(c) /\ StatusOK(c)
      /\ IsOnline(c) /\ ~c.odd => \A a \in Range(AppsOf(p)) \ Range(j) : HasTopic(c, a)
  BY DEF SessionOK
<1>3. d \in Sent(c, m)
  OBVIOUS
<1> HIDE DEF m
<1>4. /\ d \in ClientRecords /\ d.pending = m.kind
      /\ d.conn = c.conn /\ d.tcp = c.tcp /\ d.status = c.status
      /\ d.queue = c.queue /\ d.subs = c.subs /\ d.inbox = c.inbox
      /\ \/ d.odd /\ d.wire = c.wire
         \/ /\ d.tcp = "open" /\ d.odd = c.odd /\ d.unacked > 0
            /\ d.wire = Append(c.wire, m)
  BY <1>1, <1>2, <1>3, SentIs
<1>5. c.wire \in Seq(Messages)
  BY <1>2 DEF ClientRecords
<1>6. SubscribesOwn(p, d.wire)
  BY <1>1, <1>2, <1>4, <1>5, OwnThrough
<1>7. WireFollowsTcp(d) /\ (IsOnline(d) => IsOnline(c)) /\ (~ d.odd => ~ c.odd)
  BY <1>2, <1>4 DEF WireFollowsTcp, IsOnline
<1>8. StatusOK(d)
  BY <1>1, <1>2, <1>4, <1>7 DEF StatusOK
<1>9. ASSUME ~ d.odd, NEW a
      PROVE  (HasTopic(c, a) => HasTopic(d, a)) /\ (Echo(c, a) => Echo(d, a))
  <2>1. d.wire = Append(c.wire, m)
    BY <1>4, <1>9
  <2> QED
    BY <1>1, <1>2, <1>4, <2>1, PutOnWire
<1>10. SessionOK(p, d, j)
  BY <1>2, <1>4, <1>6, <1>7, <1>8, <1>9 DEF SessionOK
<1>11. ASSUME NEW a, NEW t, NEW v, NEW o, ShowsOK(c, a, t, v, o)
       PROVE  ShowsOK(d, a, t, v, o)
  BY <1>4, <1>7, <1>9, <1>11, ShowsFollow
<1> QED
  BY <1>10, <1>11

(* MQTT_Task sends the oldest message.                                       *)
LEMMA SendsOldest ==
  ASSUME NEW p, NEW c, NEW j, SessionOK(p, c, j), MaySend(c),
         NEW d \in Sent([c EXCEPT !.queue = Tail(@)], Head(c.queue))
  PROVE  /\ SessionOK(p, d, j)
         /\ \A a, t, v, o : ShowsOK(c, a, t, v, o) => ShowsOK(d, a, t, v, o)
<1> DEFINE m == Head(c.queue)
           b == [c EXCEPT !.queue = Tail(@)]
<1>1. /\ c \in ClientRecords /\ Len(c.queue) <= QueueSlots
      /\ SubscribesOwn(p, c.queue) /\ SubscribesOwn(p, c.wire) /\ c.subs \subseteq Topics(p)
      /\ WireFollowsTcp(c) /\ StatusOK(c)
      /\ IsOnline(c) /\ ~c.odd => \A a \in Range(AppsOf(p)) \ Range(j) : HasTopic(c, a)
  BY DEF SessionOK
<1>2. c.queue \in Seq(Messages) /\ c.wire \in Seq(Messages) /\ c.queue # <<>>
      /\ c.conn = "MQTT_DATA"
  BY <1>1 DEF ClientRecords, MaySend
<1>3. /\ m \in Messages /\ m = c.queue[1] /\ 1 \in DOMAIN c.queue
      /\ Tail(c.queue) \in Seq(Messages) /\ Len(Tail(c.queue)) = Len(c.queue) - 1
      /\ Len(c.queue) \in Nat
  BY <1>2, TailPlaces, Places
<1>4. /\ b \in ClientRecords /\ b.queue = Tail(c.queue) /\ b.wire = c.wire
      /\ b.subs = c.subs /\ b.inbox = c.inbox /\ b.conn = c.conn /\ b.tcp = c.tcp
      /\ b.odd = c.odd /\ b.status = c.status
  BY <1>1, <1>3 DEF ClientRecords
<1>5. d \in Sent(b, m)
  OBVIOUS
<1> HIDE DEF m, b
<1>6. /\ d \in ClientRecords /\ d.pending = m.kind
      /\ d.conn = b.conn /\ d.tcp = b.tcp /\ d.status = b.status
      /\ d.queue = b.queue /\ d.subs = b.subs /\ d.inbox = b.inbox
      /\ \/ d.odd /\ d.wire = b.wire
         \/ /\ d.tcp = "open" /\ d.odd = b.odd /\ d.unacked > 0
            /\ d.wire = Append(b.wire, m)
  BY <1>3, <1>4, <1>5, SentIs
<1>7. SubscribesOwn(p, d.queue) /\ SubscribesOwn(p, d.wire)
  <2>1. m.kind = "SUBSCRIBE" => m.url \in Topics(p)
    BY <1>1, <1>3 DEF SubscribesOwn
  <2> QED
    BY <1>1, <1>2, <1>3, <1>4, <1>6, <2>1, OwnThrough
<1>8. WireFollowsTcp(d) /\ (IsOnline(d) => IsOnline(c)) /\ (~ d.odd => ~ c.odd)
  BY <1>1, <1>2, <1>4, <1>6 DEF WireFollowsTcp, IsOnline
<1>9. StatusOK(d)
  <2>1. SUFFICES ASSUME IsOnline(d), d.status = "SENDING", ~ d.odd
                 PROVE  IF d.queue # <<>> THEN d.queue[Len(d.queue)].kind = "PUBLISH"
                        ELSE d.pending = "PUBLISH" /\ d.unacked > 0
    BY <1>1, <1>4, <1>6, <1>8 DEF StatusOK
  <2>2. c.queue[Len(c.queue)].kind = "PUBLISH"
    BY <1>1, <1>2, <1>4, <1>6, <1>8, <2>1 DEF StatusOK
  <2>0. /\ d.queue = Tail(c.queue) /\ d.queue \in Seq(Messages)
        /\ Len(d.queue) = Len(c.queue) - 1 /\ Len(c.queue) \in Nat
    BY <1>3, <1>4, <1>6
  <2>3. CASE d.queue = <<>>
    <3>1. Len(c.queue) = 1
      <4>1. Len(d.queue) = 0
        BY <2>3
      <4> QED
        BY <2>0, <4>1
    <3> QED
      BY <1>3, <1>6, <2>1, <2>2, <2>3, <3>1
  <2>4. CASE d.queue # <<>>
    <3>1. Len(c.queue) # 1 /\ Len(c.queue) \in DOMAIN c.queue
      <4>1. Len(d.queue) \in Nat \ {0}
        BY <2>0, <2>4, EmptySeq
      <4> QED
        BY <1>2, <2>0, <4>1
    <3>2. d.queue[Len(d.queue)] = c.queue[Len(c.queue)]
      <4>1. Len(c.queue) - 1 = Len(d.queue)
        BY <2>0
      <4>2. Tail(c.queue)[Len(c.queue) - 1] = c.queue[Len(c.queue)]
        BY <1>2, <3>1, TailPlaces
      <4> QED
        BY <2>0, <4>1, <4>2
    <3> QED
      BY <2>2, <2>4, <3>2
  <2> QED
    BY <2>3, <2>4
<1>10. ASSUME ~ d.odd, NEW a
       PROVE  (HasTopic(c, a) => HasTopic(d, a)) /\ (Echo(c, a) => Echo(d, a))
  <2>1. d.wire = Append(c.wire, m) /\ d.queue = Tail(c.queue) /\ d.subs = c.subs
    BY <1>4, <1>6, <1>10
  <2>2. d.wire = Append(c.wire, Head(c.queue))
    BY <2>1 DEF m
  <2> QED
    BY <1>1, <1>2, <1>6, <2>1, <2>2, QueueToWire
<1>11. Len(d.queue) <= QueueSlots
  BY <1>1, <1>3, <1>4, <1>6, ProtocolsAssumption
<1>12. SessionOK(p, d, j)
  BY <1>1, <1>4, <1>6, <1>7, <1>8, <1>9, <1>10, <1>11 DEF SessionOK
<1>13. ASSUME NEW a, NEW t, NEW v, NEW o, ShowsOK(c, a, t, v, o)
       PROVE  ShowsOK(d, a, t, v, o)
  <2>1. d.conn = c.conn /\ d.tcp = c.tcp /\ d.inbox = c.inbox
    BY <1>4, <1>6
  <2> QED
    BY <1>8, <1>10, <1>13, <2>1, ShowsFollow
<1> QED
  BY <1>12, <1>13

(* The broker reads the oldest packet on a connection.                       *)
LEMMA BrokerTakes ==
  ASSUME NEW p, NEW c, NEW j, SessionOK(p, c, j), c.wire # <<>>, c.tcp = "open",
         NEW d \in ClientRecords, d.queue = c.queue, d.wire = Tail(c.wire),
         d.subs = IF Head(c.wire).kind = "SUBSCRIBE"
                  THEN c.subs \cup {Head(c.wire).url} ELSE c.subs,
         d.conn = c.conn, d.tcp = c.tcp, d.odd = c.odd, d.status = c.status,
         d.pending = c.pending, d.unacked = c.unacked
  PROVE  /\ SessionOK(p, d, j)
         /\ \A a : Echo(c, a) =>
              Echo(d, a) \/ (ConcernsIt(a, Head(c.wire)) /\ Config(a).url \in c.subs)
<1>1. /\ c \in ClientRecords /\ Len(c.queue) <= QueueSlots
      /\ SubscribesOwn(p, c.queue) /\ SubscribesOwn(p, c.wire) /\ c.subs \subseteq Topics(p)
      /\ WireFollowsTcp(c) /\ StatusOK(c)
      /\ IsOnline(c) /\ ~c.odd => \A a \in Range(AppsOf(p)) \ Range(j) : HasTopic(c, a)
  BY DEF SessionOK
<1>2. c.wire \in Seq(Messages) /\ c.wire # <<>>
  BY <1>1 DEF ClientRecords
<1>3. SubscribesOwn(p, d.wire)
  BY <1>1, <1>2, OwnThrough
<1>4. d.subs \subseteq Topics(p)
  BY <1>1, <1>2, TailPlaces DEF SubscribesOwn
<1>5. WireFollowsTcp(d)
  <2>1. SUFFICES ASSUME c.conn # "MQTT_DATA"
                 PROVE  d.subs = {} /\ \A i \in DOMAIN d.wire : d.wire[i].kind = "CONNECT"
    BY DEF WireFollowsTcp
  <2>2. c.subs = {} /\ \A i \in DOMAIN c.wire : c.wire[i].kind = "CONNECT"
    BY <1>1, <2>1 DEF WireFollowsTcp
  <2> QED
    BY <1>2, <2>2, TailPlaces
<1>6. StatusOK(d) /\ (IsOnline(d) => IsOnline(c))
  BY <1>1 DEF StatusOK, IsOnline
<1>7. ASSUME NEW a
      PROVE  /\ HasTopic(c, a) => HasTopic(d, a)
             /\ Echo(c, a) =>
                  Echo(d, a) \/ (ConcernsIt(a, Head(c.wire)) /\ Config(a).url \in c.subs)
  BY <1>1, <1>2, ReadFromWire
<1>8. SessionOK(p, d, j)
  BY <1>1, <1>3, <1>4, <1>5, <1>6, <1>7 DEF SessionOK
<1> QED
  BY <1>7, <1>8
----------------------------------------------------------------------------
(* A packet of the broker on its way: an application it concerns was told    *)
(* its value.                                                                *)
LEMMA Arrives ==
  ASSUME NEW c \in ClientRecords, NEW d \in ClientRecords, NEW m \in Messages,
         d.inbox = Append(c.inbox, m), d.conn = c.conn, d.tcp = c.tcp, d.odd = c.odd,
         NEW a, NEW t, NEW u, NEW v, NEW o, ShowsOK(c, a, t, v, o),
         ConcernsIt(a, m) => u = {m.data},
         ~ ConcernsIt(a, m) => u = t /\ (Echo(c, a) => Echo(d, a))
  PROVE  ShowsOK(d, a, u, v, o)
<1> DEFINE L == Len(c.inbox) + 1
<1>1. /\ \A i \in DOMAIN c.inbox : i \in DOMAIN d.inbox /\ d.inbox[i] = c.inbox[i] /\ i < L
      /\ \A i \in DOMAIN d.inbox : i \in DOMAIN c.inbox \/ i = L
      /\ L \in DOMAIN d.inbox /\ d.inbox[L] = m
      /\ \A i \in DOMAIN d.inbox : i \in Int /\ i <= L
  <2>1. c.inbox \in Seq(Messages)
    BY DEF ClientRecords
  <2> QED
    BY <2>1, AppendPlaces, Places
<1> HIDE DEF L
<1>2. CASE ConcernsIt(a, m)
  <2>1. Agrees(d, a, u, v, o)
    BY <1>1, <1>2 DEF Agrees
  <2> QED
    BY <2>1 DEF ShowsOK
<1>3. CASE ~ ConcernsIt(a, m)
  <2>1. ASSUME Agrees(c, a, t, v, o) PROVE Agrees(d, a, u, v, o)
    <3>1. ASSUME NEW k \in DOMAIN c.inbox, ConcernsIt(a, c.inbox[k]),
                 t = {c.inbox[k].data},
                 \A i \in DOMAIN c.inbox : ConcernsIt(a, c.inbox[i]) => i <= k
          PROVE  Agrees(d, a, u, v, o)
      <4>1. k \in DOMAIN d.inbox /\ d.inbox[k] = c.inbox[k]
        BY <1>1
      <4>2. \A i \in DOMAIN d.inbox : ConcernsIt(a, d.inbox[i]) => i <= k
        BY <1>1, <1>3, <3>1
      <4> QED
        BY <1>3, <3>1, <4>1, <4>2 DEF Agrees
    <3>2. ASSUME \A i \in DOMAIN c.inbox : ~ConcernsIt(a, c.inbox[i]),
                 (IsLamp(a) => t = {o}) /\ (IsSwitch(a) => t = {v})
          PROVE  Agrees(d, a, u, v, o)
      <4>1. \A i \in DOMAIN d.inbox : ~ConcernsIt(a, d.inbox[i])
        BY <1>1, <1>3, <3>2
      <4> QED
        BY <1>3, <3>2, <4>1 DEF Agrees
    <3> QED
      BY <2>1, <3>1, <3>2 DEF Agrees
  <2> QED
    BY <1>3, <2>1 DEF ShowsOK, IsOnline
<1> QED
  BY <1>2, <1>3

(* The last of the places that mean something to an application counts.      *)
LEMMA LastCounts ==
  ASSUME NEW a, NEW segment \in Seq(Messages), NEW old,
         NEW k \in Meant(a, segment), \A i \in Meant(a, segment) : i <= k
  PROVE  Value(a, segment, old) = segment[k].data
<1>1. Meant(a, segment) \subseteq Int
  BY Places DEF Meant, ReadAt
<1>2. Max(Meant(a, segment)) = k
  <2> DEFINE S == Meant(a, segment)
  <2>1. k \in S /\ (\A i \in S : k >= i) /\ S \subseteq Int
    BY <1>1
  <2> HIDE DEF S
  <2>2. \A x \in S : (\A y \in S : x >= y) => x = k
    BY <2>1
  <2>3. Max(S) = k
    BY <2>1, <2>2 DEF Max
  <2> QED
    BY <2>3 DEF S
<1> QED
  BY <1>2 DEF Value

(* mqtt_tcpclient_recv and protocol_received_cb: with nothing lost behind a  *)
(* packet that is no PUBLISH, what an application shows after a segment is   *)
(* the last in it that concerns it.                                          *)
LEMMA Receives ==
  ASSUME NEW c \in ClientRecords, NEW d \in ClientRecords, NEW n \in 1 .. Len(c.inbox),
         NEW segment, segment = SubSeq(c.inbox, 1, n),
         d.inbox = SubSeq(c.inbox, n + 1, Len(c.inbox)),
         d.queue = c.queue, d.wire = c.wire, d.subs = c.subs,
         d.conn = c.conn, d.tcp = c.tcp, ~ d.odd => ~ c.odd,
         ~ d.odd => \A i \in DOMAIN segment \ ReadAt(segment) : segment[i].kind # "PUBLISH",
         NEW a, NEW t, ShowsOK(c, a, t, curval[a], out[a])
  PROVE  ShowsOK(d, a, t, Recv(a, segment).value, Recv(a, segment).level)
<1> DEFINE v == Recv(a, segment).value
           o == Recv(a, segment).level
<1>1. c.inbox \in Seq(Messages) /\ n \in Nat /\ Len(c.inbox) \in Nat
  BY DEF ClientRecords
<1>2. /\ segment \in Seq(Messages) /\ DOMAIN segment = 1 .. n
      /\ \A i \in 1 .. n : segment[i] = c.inbox[i]
      /\ DOMAIN c.inbox = 1 .. Len(c.inbox)
      /\ DOMAIN d.inbox = 1 .. (Len(c.inbox) - n)
      /\ \A i \in 1 .. (Len(c.inbox) - n) : d.inbox[i] = c.inbox[n + i]
  BY <1>1
<1>3. /\ IsLamp(a) => o = Value(a, segment, out[a])
      /\ IsSwitch(a) => v = Value(a, segment, curval[a])
  BY DEF Recv, lamp_recv, switch_recv, switchlamp_recv, IsLamp, IsSwitch
<1> HIDE DEF v, o
<1>4. Echo(c, a) => Echo(d, a)
  BY DEF Echo, EchoInWire, EchoInQueue
<1>5. ASSUME Agrees(c, a, t, curval[a], out[a]), ~ d.odd
      PROVE  Agrees(d, a, t, v, o)
  <2>1. \A i \in 1 .. n : i \in Meant(a, segment) <=> ConcernsIt(a, c.inbox[i])
    BY <1>2, <1>5 DEF Meant, ReadAt, ConcernsIt
  <2>2. Meant(a, segment) \subseteq 1 .. n
    BY <1>2 DEF Meant, ReadAt
  <2>3. ASSUME NEW k \in DOMAIN c.inbox, ConcernsIt(a, c.inbox[k]),
               t = {c.inbox[k].data},
               \A i \in DOMAIN c.inbox : ConcernsIt(a, c.inbox[i]) => i <= k
        PROVE  Agrees(d, a, t, v, o)
    <3>1. CASE k <= n
      <4>1. k \in Meant(a, segment) /\ \A i \in Meant(a, segment) : i <= k
        BY <1>1, <1>2, <2>1, <2>2, <2>3, <3>1
      <4>2. \A old : Value(a, segment, old) = c.inbox[k].data
        <5>1. segment[k] = c.inbox[k]
          BY <1>2, <2>2, <4>1
        <5>2. ASSUME NEW old PROVE Value(a, segment, old) = segment[k].data
          BY <1>2, <4>1, LastCounts
        <5> QED
          BY <5>1, <5>2
      <4>3. \A i \in DOMAIN d.inbox : ~ConcernsIt(a, d.inbox[i])
        <5>1. ASSUME NEW i \in DOMAIN d.inbox, ConcernsIt(a, d.inbox[i]) PROVE FALSE
          <6>1. n + i \in DOMAIN c.inbox /\ ~(n + i <= k) /\ d.inbox[i] = c.inbox[n + i]
            BY <1>1, <1>2, <3>1
          <6> QED
            BY <2>3, <5>1, <6>1
        <5> QED
          BY <5>1
      <4> QED
        BY <1>3, <2>3, <4>2, <4>3 DEF Agrees
    <3>2. CASE ~(k <= n)
      <4>1. k - n \in DOMAIN d.inbox /\ d.inbox[k - n] = c.inbox[k]
        <5>1. k - n \in 1 .. (Len(c.inbox) - n) /\ n + (k - n) = k
          BY <1>1, <1>2, <3>2
        <5>2. d.inbox[k - n] = c.inbox[n + (k - n)]
          BY <1>2, <5>1
        <5> QED
          BY <1>2, <5>1, <5>2
      <4>2. ASSUME NEW i \in DOMAIN d.inbox, ConcernsIt(a, d.inbox[i]) PROVE i <= k - n
        <5>1. n + i \in DOMAIN c.inbox /\ d.inbox[i] = c.inbox[n + i] /\ i \in Int
          BY <1>1, <1>2
        <5>2. n + i <= k
          BY <2>3, <4>2, <5>1
        <5> QED
          BY <1>1, <1>2, <5>1, <5>2
      <4> QED
        BY <2>3, <4>1, <4>2 DEF Agrees
    <3> QED
      BY <3>1, <3>2
  <2>4. ASSUME \A i \in DOMAIN c.inbox : ~ConcernsIt(a, c.inbox[i]),
               (IsLamp(a) => t = {out[a]}) /\ (IsSwitch(a) => t = {curval[a]})
        PROVE  Agrees(d, a, t, v, o)
    <3>1. Meant(a, segment) = {}
      BY <1>1, <1>2, <2>1, <2>2, <2>4
    <3>2. \A old : Value(a, segment, old) = old
      BY <3>1 DEF Value
    <3>3. \A i \in DOMAIN d.inbox : ~ConcernsIt(a, d.inbox[i])
      <4>1. ASSUME NEW i \in DOMAIN d.inbox PROVE ~ConcernsIt(a, d.inbox[i])
        <5>1. i \in 1 .. (Len(c.inbox) - n)
          BY <1>2
        <5>2. n + i \in 1 .. Len(c.inbox) /\ d.inbox[i] = c.inbox[n + i]
          BY <1>1, <1>2, <5>1
        <5> QED
          BY <1>2, <2>4, <5>2
      <4> QED
        BY <4>1
    <3> QED
      BY <1>3, <2>4, <3>2, <3>3 DEF Agrees
  <2> QED
    BY <1>5, <2>3, <2>4 DEF Agrees
<1> QED
  BY <1>4, <1>5 DEF ShowsOK, IsOnline, v, o
----------------------------------------------------------------------------
(* The invariant of every part at the end of a step that concerns one        *)
(* client.                                                                   *)
LEMMA OneClient ==
  ASSUME BootOK, Sessions, Shows, boot' = boot, joining' = joining,
         UNCHANGED <<curval, out, told>>,
         NEW p \in Clients, NEW d \in ClientRecords, client' = [client EXCEPT ![p] = d],
         SessionOK(p, d, joining),
         \A a \in Range(AppsOf(p)) : ShowsOK(d, a, told[a], curval[a], out[a])
  PROVE  Sessions' /\ Shows'
<1>1. /\ client' \in [Clients -> ClientRecords]
      /\ \A q \in Clients : client'[q] = IF q = p THEN d ELSE client[q]
  BY DEF Sessions
<1>2. ASSUME NEW q \in Clients PROVE SessionOK(q, client[q], joining)'
  <2>1. SessionOK(q, client'[q], joining')
    BY <1>1 DEF Sessions
  <2> QED
    BY <2>1, SameSession
<1>3. ASSUME NEW q \in Clients, NEW a \in Range(AppsOf(q))
      PROVE  ShowsOK(client[q], a, told[a], curval[a], out[a])'
  <2>1. ShowsOK(client'[q], a, told'[a], curval'[a], out'[a])
    BY <1>1 DEF Shows
  <2> QED
    BY <2>1, SameShows
<1>4. Clients' = Clients /\ ClientRecords' = ClientRecords /\ \A q : AppsOf(q)' = AppsOf(q)
  BY SameBoot
<1> QED
  BY <1>1, <1>2, <1>3, <1>4 DEF Sessions, Shows

(* Between the handlers' loops no step but theirs touches the pins.          *)
LEMMA LoopsRest ==
  ASSUME BootOK, ButtonsOK, JoiningOK, Idle, boot' = boot,
         UNCHANGED <<handlers, installed, gpioq>>
  PROVE  BootOK' /\ ButtonsOK' /\ JoiningOK'
<1>1. BootOK' /\ Apps' = Apps /\ (\A a : IsSwitch(a)' = IsSwitch(a))
  BY SameBoot
<1>2. joining' = <<>> /\ rising' = {}
  BY DEF Idle, handlers
<1>3. JoiningOK'
  BY <1>2 DEF JoiningOK
<1>4. Pins' = Pins
  BY DEF Pins
<1>5. ButtonsOK'
  BY <1>1, <1>2, <1>4 DEF ButtonsOK
<1> QED
  BY <1>1, <1>3, <1>5

(* A post names a client.                                                    *)
LEMMA PostNames ==
  ASSUME BootOK, taskq \in 0 .. Len(boot.protos), boot' = boot
  PROVE  /\ \A p \in Clients : Post(p) => taskq' \in 0 .. Len(boot'.protos)
         /\ UNCHANGED taskq => taskq' \in 0 .. Len(boot'.protos)
         /\ taskq' = 0 => taskq' \in 0 .. Len(boot'.protos)
         /\ taskq # 0 => taskq \in Clients
  BY DEF Post, BootOK

(* A step of one client's connection which the applications do not see.      *)
LEMMA ConnectionStep ==
  ASSUME ProtocolsInv, Idle, UNCHANGED handlers,
         NEW p \in Clients, NEW d \in ClientRecords, ClientOnly(p, d),
         SessionOK(p, d, joining),
         \A a \in Range(AppsOf(p)) : ShowsOK(d, a, told[a], curval[a], out[a]),
         Post(p) \/ UNCHANGED taskq \/ taskq' = 0
  PROVE  ProtocolsInv'
<1>1. /\ BootOK /\ ButtonsOK /\ JoiningOK /\ taskq \in 0 .. Len(boot.protos)
      /\ Values /\ Sessions /\ Shows
  BY DEF ProtocolsInv
<1>2. /\ boot' = boot /\ joining' = joining /\ client' = [client EXCEPT ![p] = d]
      /\ UNCHANGED <<handlers, installed, gpioq>> /\ UNCHANGED <<curval, out, told>>
  BY DEF ClientOnly, ClientStep, handlers
<1>3. BootOK' /\ ButtonsOK' /\ JoiningOK'
  BY <1>1, <1>2, LoopsRest
<1>4. taskq' \in 0 .. Len(boot'.protos)
  BY <1>1, <1>2, PostNames
<1>5. Values'
  BY <1>1, <1>2, SameBoot DEF Values
<1>6. Sessions' /\ Shows'
  BY <1>1, <1>2, OneClient
<1> QED
  BY <1>3, <1>4, <1>5, <1>6 DEF ProtocolsInv

(* A client's own part of the invariant.                                     *)
LEMMA OfClient ==
  ASSUME ProtocolsInv, NEW p \in Clients
  PROVE  /\ client[p] \in ClientRecords /\ SessionOK(p, client[p], joining)
         /\ WireFollowsTcp(client[p]) /\ StatusOK(client[p])
         /\ \A a \in Range(AppsOf(p)) :
              ShowsOK(client[p], a, told[a], curval[a], out[a])
  BY DEF ProtocolsInv, Sessions, Shows, SessionOK

(* A new connection, and the end of one.                                     *)
LEMMA ConnectKeeps ==
  ASSUME ProtocolsInv, Idle, UNCHANGED handlers, NEW p \in Clients,
         mqtt_tcpclient_connect_cb(p)
  PROVE  ProtocolsInv'
<1> DEFINE c == client[p]
           b == [c EXCEPT !.tcp = "open", !.conn = "MQTT_CONNECT_SENDING"]
           m == Packet("CONNECT")
<1>1. c \in ClientRecords /\ SessionOK(p, c, joining) /\ WireFollowsTcp(c)
  BY OfClient
<1>2. c.tcp = "connecting" /\ Post(p)
  BY DEF mqtt_tcpclient_connect_cb
<1>3. PICK d \in Sent(b, m) : ClientOnly(p, d)
  BY DEF mqtt_tcpclient_connect_cb
<1>4. c.wire = <<>> /\ c.subs = {}
  BY <1>1, <1>2 DEF WireFollowsTcp
<1>5. /\ b \in ClientRecords /\ b.tcp = "open" /\ b.conn = "MQTT_CONNECT_SENDING"
      /\ b.wire = <<>> /\ b.subs = {} /\ b.queue = c.queue
  BY <1>1, <1>4 DEF ClientRecords, Conns
<1>6. m \in Messages /\ m.kind = "CONNECT"
  BY MessageTypes DEF Packet, Kinds
<1> HIDE DEF b, c, m
<1>7. /\ d \in ClientRecords /\ d.conn = b.conn /\ d.tcp = b.tcp
      /\ d.queue = b.queue /\ d.subs = b.subs
      /\ d.wire = b.wire \/ d.wire = Append(b.wire, m)
  BY <1>3, <1>5, <1>6, SentIs
<1>8. \/ d.wire = <<>>
      \/ d.tcp = "open" /\ \A i \in DOMAIN d.wire : d.wire[i].kind = "CONNECT"
  <2>1. CASE d.wire = Append(<<>>, m)
    <3>1. <<>> \in Seq(Messages)
      OBVIOUS
    <3>2. \A i \in DOMAIN d.wire : d.wire[i] = m
      BY <1>6, <2>1, <3>1, AppendPlaces
    <3> QED
      BY <1>5, <1>6, <1>7, <3>2
  <2> QED
    BY <1>5, <1>7, <2>1
<1>9. SessionOK(p, d, joining) /\ \A a, t, v, o : ShowsOK(d, a, t, v, o)
  <2>1. d.subs = {} /\ d.queue = c.queue /\ ~ IsOnline(d)
    BY <1>5, <1>7 DEF IsOnline
  <2> QED
    BY <1>1, <1>7, <1>8, <2>1, NoSession
<1> QED
  BY <1>2, <1>3, <1>7, <1>9, ConnectionStep

(* A lookup that failed, a connection that was aborted or closed.            *)
LEMMA CloseKeeps ==
  ASSUME ProtocolsInv, Idle, UNCHANGED handlers, NEW p \in Clients,
         mqtt_dns_found(p) \/ mqtt_tcpclient_recon_cb(p) \/ mqtt_tcpclient_discon_cb(p)
  PROVE  ProtocolsInv'
<1> DEFINE c == client[p]
<1>1. c \in ClientRecords /\ SessionOK(p, c, joining) /\ WireFollowsTcp(c)
  BY OfClient
<1>2. ASSUME NEW d \in ClientRecords, ClientOnly(p, d), d.queue = c.queue,
             d.tcp = "closed", d.subs = {}, d.wire = <<>>, Post(p) \/ UNCHANGED taskq
      PROVE  ProtocolsInv'
  <2>1. ~ IsOnline(d)
    BY <1>2 DEF IsOnline
  <2>2. SessionOK(p, d, joining) /\ \A a, t, v, o : ShowsOK(d, a, t, v, o)
    BY <1>1, <1>2, <2>1, NoSession
  <2> QED
    BY <1>2, <2>2, ConnectionStep
<1>3. CASE mqtt_dns_found(p)
  <2> DEFINE d == [c EXCEPT !.tcp = "closed", !.conn = "TCP_RECONNECT_REQ"]
             e == [c EXCEPT !.tcp = "closed"]
  <2>1. c.wire = <<>> /\ c.subs = {}
    BY <1>1, <1>3 DEF WireFollowsTcp, mqtt_dns_found
  <2>2. /\ d \in ClientRecords /\ d.queue = c.queue /\ d.tcp = "closed"
        /\ d.subs = {} /\ d.wire = <<>>
    BY <1>1, <2>1 DEF ClientRecords, Conns
  <2>3. /\ e \in ClientRecords /\ e.queue = c.queue /\ e.tcp = "closed"
        /\ e.subs = {} /\ e.wire = <<>>
    BY <1>1, <2>1 DEF ClientRecords
  <2>4. CASE ClientOnly(p, d) /\ UNCHANGED taskq
    BY <1>2, <2>2, <2>4
  <2>5. CASE ClientOnly(p, e) /\ Post(p)
    BY <1>2, <2>3, <2>5
  <2> QED
    BY <1>3, <2>4, <2>5 DEF mqtt_dns_found
<1>4. CASE mqtt_tcpclient_recon_cb(p)
  <2> DEFINE d == [MQTT_Disconnect(c) EXCEPT !.conn = "TCP_RECONNECT_REQ"]
  <2>1. <<>> \in Seq(Messages)
    OBVIOUS
  <2>2. /\ d \in ClientRecords /\ d.queue = c.queue /\ d.tcp = "closed"
        /\ d.subs = {} /\ d.wire = <<>>
    BY <1>1, <2>1 DEF ClientRecords, Conns, MQTT_Disconnect
  <2>3. ClientOnly(p, d) /\ Post(p)
    BY <1>4 DEF mqtt_tcpclient_recon_cb
  <2> QED
    BY <1>2, <2>2, <2>3
<1>5. CASE mqtt_tcpclient_discon_cb(p)
  <2> DEFINE d == [MQTT_Disconnect(c) EXCEPT !.conn = "TCP_RECONNECT_REQ",
                                             !.status = "INIT"]
  <2>1. <<>> \in Seq(Messages)
    OBVIOUS
  <2>2. /\ d \in ClientRecords /\ d.queue = c.queue /\ d.tcp = "closed"
        /\ d.subs = {} /\ d.wire = <<>>
    BY <1>1, <2>1 DEF ClientRecords, Conns, MQTT_Disconnect
  <2>3. ClientOnly(p, d) /\ Post(p)
    BY <1>5 DEF mqtt_tcpclient_discon_cb
  <2> QED
    BY <1>2, <2>2, <2>3
<1> QED
  BY <1>3, <1>4, <1>5

(* A report, a timeout: only the status may change, and a PUBLISH that is    *)
(* the last packet sent is not reported before it is acknowledged.           *)
LEMMA ReportKeeps ==
  ASSUME ProtocolsInv, Idle, UNCHANGED handlers, NEW p \in Clients,
         mqtt_sent_cb(p) \/ SendTimeout(p)
  PROVE  ProtocolsInv'
<1> DEFINE c == client[p]
<1>1. /\ c \in ClientRecords /\ SessionOK(p, c, joining) /\ StatusOK(c)
      /\ \A a \in Range(AppsOf(p)) : ShowsOK(c, a, told[a], curval[a], out[a])
  BY OfClient
<1>2. ASSUME NEW d \in ClientRecords, ClientOnly(p, d), StatusOK(d),
             d.queue = c.queue, d.wire = c.wire, d.subs = c.subs, d.inbox = c.inbox,
             d.conn = c.conn, d.tcp = c.tcp, d.odd = c.odd, Post(p) \/ UNCHANGED taskq
      PROVE  ProtocolsInv'
  <2>1. SessionOK(p, d, joining) /\ \A a : Echo(c, a) => Echo(d, a)
    BY <1>1, <1>2, SameMail
  <2>2. \A a \in Range(AppsOf(p)) : ShowsOK(d, a, told[a], curval[a], out[a])
    BY <1>1, <1>2, <2>1, ShowsFollow
  <2> QED
    BY <1>2, <2>1, <2>2, ConnectionStep
<1>3. CASE mqtt_sent_cb(p)
  <2> DEFINE s == IF Online(p) /\ c.pending = "PUBLISH" THEN "CONNECTED" ELSE c.status
             d == [c EXCEPT !.unacked = @ - 1, !.busy = FALSE, !.status = s]
  <2>1. c.unacked > Len(c.wire) /\ ClientOnly(p, d) /\ Post(p)
    BY <1>3 DEF mqtt_sent_cb
  <2>2. c.unacked \in Nat /\ c.unacked - 1 \in Nat
    BY <1>1, <2>1 DEF ClientRecords
  <2>3. /\ s \in {"INIT", "CONNECTED", "SENDING"}
        /\ IsOnline(c) /\ s # "CONNECTED" => s = c.status /\ c.pending # "PUBLISH"
        /\ s = "INIT" => c.status = "INIT"
    BY <1>1 DEF ClientRecords, Online, IsOnline
  <2> HIDE DEF s
  <2>4. /\ d \in ClientRecords /\ d.status = s /\ d.pending = c.pending
        /\ d.queue = c.queue /\ d.wire = c.wire /\ d.subs = c.subs /\ d.inbox = c.inbox
        /\ d.conn = c.conn /\ d.tcp = c.tcp /\ d.odd = c.odd
    BY <1>1, <2>2, <2>3 DEF ClientRecords
  <2>5. StatusOK(d)
    BY <1>1, <2>3, <2>4 DEF StatusOK, IsOnline
  <2> QED
    BY <1>2, <2>1, <2>4, <2>5
<1>4. CASE SendTimeout(p)
  <2> DEFINE d == [c EXCEPT !.busy = FALSE]
  <2>1. ClientOnly(p, d) /\ UNCHANGED taskq
    BY <1>4 DEF SendTimeout
  <2>2. /\ d \in ClientRecords /\ d.status = c.status /\ d.pending = c.pending
        /\ d.queue = c.queue /\ d.wire = c.wire /\ d.subs = c.subs /\ d.inbox = c.inbox
        /\ d.conn = c.conn /\ d.tcp = c.tcp /\ d.odd = c.odd /\ d.unacked = c.unacked
    BY <1>1 DEF ClientRecords
  <2>3. StatusOK(d)
    BY <1>1, <2>2 DEF StatusOK, IsOnline
  <2> QED
    BY <1>2, <2>1, <2>2, <2>3
<1> QED
  BY <1>3, <1>4

(* mqtt_timer sends the keep-alive.                                          *)
LEMMA KeepAliveKeeps ==
  ASSUME ProtocolsInv, Idle, UNCHANGED handlers, NEW p \in Clients, KeepAlive(p)
  PROVE  ProtocolsInv'
<1> DEFINE c == client[p]
<1>1. /\ c \in ClientRecords /\ SessionOK(p, c, joining)
      /\ \A a \in Range(AppsOf(p)) : ShowsOK(c, a, told[a], curval[a], out[a])
  BY OfClient
<1>2. c.conn = "MQTT_DATA" /\ Post(p)
  BY DEF KeepAlive
<1>3. PICK d \in Sent(c, Packet("PINGREQ")) : ClientOnly(p, d)
  BY DEF KeepAlive
<1>4. /\ SessionOK(p, d, joining)
      /\ \A a, t, v, o : ShowsOK(c, a, t, v, o) => ShowsOK(d, a, t, v, o)
  BY <1>1, <1>2, KeepsAlive
<1>5. d \in ClientRecords
  BY <1>4 DEF SessionOK
<1> QED
  BY <1>1, <1>2, <1>3, <1>4, <1>5, ConnectionStep

(* mqtt_timer asks for a new connection.                                     *)
LEMMA ReconnectKeeps ==
  ASSUME ProtocolsInv, Idle, UNCHANGED handlers, NEW p \in Clients, Reconnect(p)
  PROVE  ProtocolsInv'
<1> DEFINE c == client[p]
           d == [c EXCEPT !.conn = "TCP_RECONNECT"]
<1>1. c \in ClientRecords /\ SessionOK(p, c, joining) /\ WireFollowsTcp(c)
  BY OfClient
<1>2. c.conn = "TCP_RECONNECT_REQ" /\ ClientOnly(p, d) /\ Post(p)
  BY DEF Reconnect
<1>3. /\ d \in ClientRecords /\ d.queue = c.queue /\ d.wire = c.wire /\ d.subs = c.subs
      /\ d.tcp = c.tcp /\ d.conn = "TCP_RECONNECT"
  BY <1>1 DEF ClientRecords, Conns
<1>4. /\ d.subs = {} /\ ~ IsOnline(d)
      /\ \/ d.wire = <<>>
         \/ d.tcp = "open" /\ \A i \in DOMAIN d.wire : d.wire[i].kind = "CONNECT"
  BY <1>1, <1>2, <1>3 DEF WireFollowsTcp, IsOnline
<1> HIDE DEF c, d
<1>5. SessionOK(p, d, joining) /\ \A a, t, v, o : ShowsOK(d, a, t, v, o)
  BY <1>1, <1>3, <1>4, NoSession
<1> QED
  BY <1>2, <1>3, <1>5, ConnectionStep

(* MQTT_Task for the client its event names.                                 *)
LEMMA TaskKeeps ==
  ASSUME ProtocolsInv, Idle, UNCHANGED handlers, MQTT_Task
  PROVE  ProtocolsInv'
<1> DEFINE p == taskq
           c == client[p]
<1>1. p \in Clients /\ taskq' = 0
  BY DEF MQTT_Task, ProtocolsInv, BootOK
<1>2. /\ c \in ClientRecords /\ SessionOK(p, c, joining)
      /\ \A a \in Range(AppsOf(p)) : ShowsOK(c, a, told[a], curval[a], out[a])
  BY <1>1, OfClient
<1>3. CASE ClientOnly(p, MQTT_Connect(c, wifi))
  <2> DEFINE d == MQTT_Connect(c, wifi)
  <2>1. <<>> \in Seq(Messages)
    OBVIOUS
  <2>2. /\ d \in ClientRecords /\ d.queue = c.queue /\ d.conn = "TCP_CONNECTING"
        /\ d.subs = {} /\ d.wire = <<>>
    BY <1>2, <2>1 DEF ClientRecords, Conns, MQTT_Connect
  <2>3. ~ IsOnline(d)
    BY <2>2 DEF IsOnline
  <2> HIDE DEF d, c
  <2>4. SessionOK(p, d, joining) /\ \A a, t, v, o : ShowsOK(d, a, t, v, o)
    BY <1>2, <2>2, <2>3, NoSession
  <2>5. ClientOnly(p, d)
    BY <1>3 DEF d
  <2> HIDE DEF p
  <2> QED
    BY <1>1, <2>2, <2>4, <2>5, ConnectionStep
<1>4. ASSUME NEW d \in Sent([c EXCEPT !.queue = Tail(@)], Head(c.queue)),
             MaySend(c), ClientOnly(p, d)
      PROVE  ProtocolsInv'
  <2>1. /\ SessionOK(p, d, joining)
        /\ \A a, t, v, o : ShowsOK(c, a, t, v, o) => ShowsOK(d, a, t, v, o)
    BY <1>2, <1>4, SendsOldest
  <2>2. d \in ClientRecords
    BY <2>1 DEF SessionOK
  <2> HIDE DEF p
  <2> QED
    BY <1>1, <1>2, <1>4, <2>1, <2>2, ConnectionStep
<1>5. CASE ClientOnly(p, c)
  <2> HIDE DEF p
  <2> QED
    BY <1>1, <1>2, <1>5, ConnectionStep
<1> QED
  BY <1>3, <1>4, <1>5 DEF MQTT_Task

(* wifiConnectCb begins or abandons every connection.                        *)
LEMMA WifiKeeps ==
  ASSUME ProtocolsInv, Idle, UNCHANGED handlers, WifiUp \/ WifiDown
  PROVE  ProtocolsInv'
<1>1. /\ BootOK /\ ButtonsOK /\ JoiningOK /\ taskq \in 0 .. Len(boot.protos)
      /\ Values /\ Sessions /\ Shows
  BY DEF ProtocolsInv
<1>2. /\ boot' = boot /\ joining' = joining /\ UNCHANGED taskq
      /\ UNCHANGED <<handlers, installed, gpioq>> /\ UNCHANGED <<curval, out, told>>
  BY DEF WifiUp, WifiDown, handlers
<1>3. BootOK' /\ ButtonsOK' /\ JoiningOK'
  BY <1>1, <1>2, LoopsRest
<1>4. taskq' \in 0 .. Len(boot'.protos)
  BY <1>1, <1>2, PostNames
<1>5. Values'
  BY <1>1, <1>2, SameBoot DEF Values
<1>6. /\ client' = [p \in Clients |-> client'[p]]
      /\ \A p \in Clients : \/ client'[p] = MQTT_Connect(client[p], TRUE)
                            \/ client'[p] = MQTT_Disconnect(client[p])
  BY DEF WifiUp, WifiDown
<1>7. ASSUME NEW p \in Clients
      PROVE  /\ client'[p] \in ClientRecords /\ SessionOK(p, client'[p], joining)
             /\ \A a, t, v, o : ShowsOK(client'[p], a, t, v, o)
  <2> DEFINE c == client[p]
             d == client'[p]
  <2>1. c \in ClientRecords /\ SessionOK(p, c, joining)
    BY OfClient
  <2>2. <<>> \in Seq(Messages)
    OBVIOUS
  <2>3. CASE d = MQTT_Connect(c, TRUE)
    <3>1. /\ d \in ClientRecords /\ d.queue = c.queue /\ d.conn = "TCP_CONNECTING"
          /\ d.subs = {} /\ d.wire = <<>>
      <4> DEFINE e == MQTT_Connect(c, TRUE)
      <4>1. /\ e \in ClientRecords /\ e.queue = c.queue /\ e.conn = "TCP_CONNECTING"
            /\ e.subs = {} /\ e.wire = <<>>
        BY <2>1, <2>2 DEF ClientRecords, Conns, MQTT_Connect
      <4> HIDE DEF c, d, e
      <4>2. d = e
        BY <2>3 DEF e
      <4> QED
        BY <4>1, <4>2
    <3>2. ~ IsOnline(d)
      BY <3>1 DEF IsOnline
    <3> HIDE DEF c, d
    <3>3. SessionOK(p, d, joining) /\ \A a, t, v, o : ShowsOK(d, a, t, v, o)
      BY <2>1, <3>1, <3>2, NoSession
    <3> QED
      BY <3>1, <3>3 DEF d
  <2>4. CASE d = MQTT_Disconnect(c)
    <3>1. /\ d \in ClientRecords /\ d.queue = c.queue /\ d.tcp = "closed"
          /\ d.subs = {} /\ d.wire = <<>>
      <4> DEFINE e == MQTT_Disconnect(c)
      <4>1. /\ e \in ClientRecords /\ e.queue = c.queue /\ e.tcp = "closed"
            /\ e.subs = {} /\ e.wire = <<>>
        BY <2>1, <2>2 DEF ClientRecords, MQTT_Disconnect
      <4> HIDE DEF c, d, e
      <4>2. d = e
        BY <2>4 DEF e
      <4> QED
        BY <4>1, <4>2
    <3>2. ~ IsOnline(d)
      BY <3>1 DEF IsOnline
    <3> HIDE DEF c, d
    <3>3. SessionOK(p, d, joining) /\ \A a, t, v, o : ShowsOK(d, a, t, v, o)
      BY <2>1, <3>1, <3>2, NoSession
    <3> QED
      BY <3>1, <3>3 DEF d
  <2> QED
    BY <1>6, <2>3, <2>4
<1>8. client' \in [Clients -> ClientRecords]
  BY <1>6, <1>7
<1>9. \A p \in Clients : SessionOK(p, client[p], joining)'
  BY <1>2, <1>7, SameSession
<1>10. \A p \in Clients : \A a \in Range(AppsOf(p)) :
         ShowsOK(client[p], a, told[a], curval[a], out[a])'
  BY <1>2, <1>7, SameShows
<1>11. Clients' = Clients /\ ClientRecords' = ClientRecords /\ \A q : AppsOf(q)' = AppsOf(q)
  BY <1>2, SameBoot
<1>12. Sessions' /\ Shows'
  BY <1>8, <1>9, <1>10, <1>11 DEF Sessions, Shows
<1> QED
  BY <1>3, <1>4, <1>5, <1>12 DEF ProtocolsInv

(* A protocol's applications are its own.                                    *)
LEMMA OwnApps ==
  ASSUME BootOK, NEW p \in Clients, NEW a \in Range(AppsOf(p))
  PROVE  a \in Apps /\ boot.apps[a].proto = p /\ p # 0
<1>1. AppsOf(p) \in Seq(Apps)
  BY DEF BootOK
<1>2. a \in Apps
  BY <1>1 DEF Range
<1> QED
  BY <1>2 DEF BootOK

(* What is left for a protocol while another one's applications go online.   *)
LEMMA StillToJoin ==
  ASSUME NEW p, NEW c, NEW j, NEW k, SessionOK(p, c, j),
         \A a \in Range(AppsOf(p)) : a \in Range(j) => a \in Range(k)
  PROVE  SessionOK(p, c, k)
  BY DEF SessionOK

(* CONNACK: every application of the protocol has yet to subscribe, and was  *)
(* sent nothing in this session.                                             *)
LEMMA ConnackKeeps ==
  ASSUME ProtocolsInv, Idle, NEW p \in Clients, mqtt_connected_cb(p)
  PROVE  ProtocolsInv'
<1> DEFINE c == client[p]
           d == [c EXCEPT !.conn = "MQTT_DATA", !.status = "CONNECTED", !.odd = FALSE]
<1>1. /\ BootOK /\ ButtonsOK /\ JoiningOK /\ taskq \in 0 .. Len(boot.protos)
      /\ Values /\ Sessions /\ Shows
  BY DEF ProtocolsInv
<1>2. /\ boot' = boot /\ gpioq' = gpioq /\ client' = [client EXCEPT ![p] = d]
      /\ told' = [a \in Apps |-> IF a \in Range(AppsOf(p)) THEN {} ELSE told[a]]
      /\ joining' = AppsOf(p) /\ Post(p) /\ UNCHANGED <<installed, curval, out, rising>>
      /\ c.tcp = "open" /\ \A i \in DOMAIN c.wire : c.wire[i].kind # "CONNECT"
  BY DEF mqtt_connected_cb, ClientStep, protocol_connected_cb
<1>3. /\ c \in ClientRecords /\ SessionOK(p, c, joining) /\ WireFollowsTcp(c)
      /\ joining = <<>> /\ rising = {}
  BY OfClient DEF Idle
<1>4. /\ d \in ClientRecords /\ d.queue = c.queue /\ d.wire = c.wire /\ d.subs = c.subs
      /\ d.tcp = c.tcp /\ d.conn = "MQTT_DATA" /\ d.status = "CONNECTED"
  BY <1>3 DEF ClientRecords, Conns
<1> HIDE DEF d
<1>5. SessionOK(p, d, AppsOf(p))
  BY <1>2, <1>3, <1>4 DEF SessionOK, StatusOK, WireFollowsTcp
<1>6. /\ client' \in [Clients -> ClientRecords]
      /\ \A q \in Clients : client'[q] = IF q = p THEN d ELSE client[q]
  BY <1>1, <1>2, <1>4 DEF Sessions
<1>7. ASSUME NEW q \in Clients PROVE SessionOK(q, client[q], joining)'
  <2>1. CASE q = p
    BY <1>2, <1>5, <1>6, <2>1, SameSession
  <2>2. CASE q # p
    <3>1. SessionOK(q, client[q], joining)
      BY <1>1 DEF Sessions
    <3>2. \A a \in Range(AppsOf(q)) : a \in Range(joining) => a \in Range(joining')
      BY <1>3 DEF Range
    <3>3. SessionOK(q, client'[q], joining')
      BY <1>6, <2>2, <3>1, <3>2, StillToJoin
    <3> QED
      BY <1>2, <3>3, SameSession
  <2> QED
    BY <2>1, <2>2
<1>8. ASSUME NEW q \in Clients, NEW a \in Range(AppsOf(q))
      PROVE  ShowsOK(client[q], a, told[a], curval[a], out[a])'
  <2>1. a \in Apps /\ boot.apps[a].proto = q
    BY <1>1, OwnApps
  <2>2. CASE q = p
    <3>1. told'[a] = {}
      BY <1>2, <2>1, <2>2
    <3>2. ShowsOK(client'[q], a, told'[a], curval'[a], out'[a])
      BY <3>1 DEF ShowsOK
    <3> QED
      BY <1>2, <3>2, SameShows
  <2>3. CASE q # p
    <3>1. a \notin Range(AppsOf(p))
      BY <1>1, <2>1, <2>3, OwnApps
    <3>2. client'[q] = client[q] /\ told'[a] = told[a] /\ curval' = curval /\ out' = out
      BY <1>2, <1>6, <2>1, <2>3, <3>1
    <3>3. ShowsOK(client'[q], a, told'[a], curval'[a], out'[a])
      BY <1>1, <3>2 DEF Shows
    <3> QED
      BY <1>2, <3>3, SameShows
  <2> QED
    BY <2>2, <2>3
<1>9. /\ Clients' = Clients /\ ClientRecords' = ClientRecords /\ Apps' = Apps
      /\ \A q : AppsOf(q)' = AppsOf(q)
      /\ \A a : IsSwitch(a)' = IsSwitch(a)
      /\ BootOK'
  BY <1>1, <1>2, SameBoot
<1>10. Sessions' /\ Shows'
  BY <1>6, <1>7, <1>8, <1>9 DEF Sessions, Shows
<1>11. Values'
  <2>1. told' \in [Apps -> SUBSET BOOLEAN]
    BY <1>1, <1>2 DEF Values
  <2> QED
    BY <1>1, <1>2, <1>9, <2>1 DEF Values
<1>12. JoiningOK'
  <2>1. joining' \in Seq(Apps)
    BY <1>1, <1>2 DEF BootOK
  <2>2. ASSUME NEW i \in DOMAIN joining'
        PROVE  /\ boot'.apps[joining'[i]].proto # 0
               /\ client'[boot'.apps[joining'[i]].proto].status = "CONNECTED"
    <3>1. joining'[i] \in Range(AppsOf(p))
      BY <1>2 DEF Range
    <3>2. boot'.apps[joining'[i]].proto = p /\ p # 0
      BY <1>1, <1>2, <3>1, OwnApps
    <3> QED
      BY <1>4, <1>6, <3>2
  <2> QED
    BY <1>9, <2>1, <2>2 DEF JoiningOK
<1>13. ButtonsOK'
  BY <1>1, <1>2, <1>3, <1>9 DEF ButtonsOK, Pins
<1>14. taskq' \in 0 .. Len(boot'.protos)
  BY <1>1, <1>2, PostNames
<1> QED
  BY <1>9, <1>10, <1>11, <1>12, <1>13, <1>14 DEF ProtocolsInv

(* One application goes online.                                              *)
LEMMA OnlineKeeps ==
  ASSUME ProtocolsInv, app_online
  PROVE  ProtocolsInv'
<1> DEFINE h == Head(joining)
           p == boot.apps[h].proto
           c == client[p]
<1>1. /\ BootOK /\ ButtonsOK /\ JoiningOK /\ taskq \in 0 .. Len(boot.protos)
      /\ Values /\ Sessions /\ Shows
  BY DEF ProtocolsInv
<1>2. /\ joining \in Seq(Apps) /\ joining # <<>> /\ joining' = Tail(joining)
      /\ UNCHANGED <<curval, out, told, rising>> /\ boot' = boot /\ gpioq' = gpioq
      /\ installed' = installed \cup switch_online(h) /\ Post(p)
  BY <1>1 DEF app_online, JoiningOK, ClientStep
<1>3. h \in Apps /\ 1 \in DOMAIN joining /\ h = joining[1]
  BY <1>2, TailPlaces
<1>4. /\ p \in Clients /\ h \in Range(AppsOf(p)) /\ c.status = "CONNECTED"
      /\ boot.apps[h].proto # 0
  BY <1>1, <1>3 DEF JoiningOK, BootOK
<1>5. PICK d \in Queued(c, Sub(Config(h).url)) : client' = [client EXCEPT ![p] = d]
  BY DEF app_online, protocol_register_receive, ClientStep
<1>6. c \in ClientRecords /\ SessionOK(p, c, joining)
  BY <1>4, OfClient
<1>7. /\ SessionOK(p, d, joining') /\ d.status = "CONNECTED"
      /\ \A a, t, v, o : ShowsOK(c, a, t, v, o) => ShowsOK(d, a, t, v, o)
  <2> HIDE DEF c, p
  <2> QED
    BY <1>2, <1>4, <1>5, <1>6, Subscribes
<1>8. d \in ClientRecords
  BY <1>7 DEF SessionOK
<1> HIDE DEF h, p
<1>9. /\ client' \in [Clients -> ClientRecords]
      /\ \A q \in Clients : client'[q] = IF q = p THEN d ELSE client[q]
  BY <1>1, <1>4, <1>5, <1>8 DEF Sessions
<1>10. ASSUME NEW q \in Clients PROVE SessionOK(q, client[q], joining)'
  <2>1. CASE q = p
    BY <1>2, <1>7, <1>9, <2>1, SameSession
  <2>2. CASE q # p
    <3>1. SessionOK(q, client[q], joining)
      BY <1>1 DEF Sessions
    <3>2. ASSUME NEW a \in Range(AppsOf(q)), a \in Range(joining)
          PROVE  a \in Range(joining')
      <4>1. boot.apps[a].proto = q
        BY <1>1, OwnApps
      <4>2. a # h
        BY <2>2, <4>1 DEF p
      <4>3. PICK i \in DOMAIN joining : a = joining[i]
        BY <3>2 DEF Range
      <4>4. i - 1 \in DOMAIN joining' /\ joining'[i - 1] = a
        BY <1>2, <1>3, <4>2, <4>3, TailPlaces
      <4> QED
        BY <4>4 DEF Range
    <3>3. SessionOK(q, client'[q], joining')
      BY <1>9, <2>2, <3>1, <3>2, StillToJoin
    <3> QED
      BY <1>2, <3>3, SameSession
  <2> QED
    BY <2>1, <2>2
<1>11. ASSUME NEW q \in Clients, NEW a \in Range(AppsOf(q))
       PROVE  ShowsOK(client[q], a, told[a], curval[a], out[a])'
  <2>1. ShowsOK(client[q], a, told[a], curval[a], out[a])
    BY <1>1 DEF Shows
  <2>2. ShowsOK(client'[q], a, told'[a], curval'[a], out'[a])
    BY <1>2, <1>7, <1>9, <2>1
  <2> QED
    BY <1>2, <2>2, SameShows
<1>12. /\ Clients' = Clients /\ ClientRecords' = ClientRecords /\ Apps' = Apps
       /\ \A q : AppsOf(q)' = AppsOf(q)
       /\ \A a : IsSwitch(a)' = IsSwitch(a)
       /\ BootOK'
  BY <1>1, <1>2, SameBoot
<1>13. Sessions' /\ Shows'
  BY <1>9, <1>10, <1>11, <1>12 DEF Sessions, Shows
<1>14. Values'
  BY <1>1, <1>2, <1>12 DEF Values
<1>15. JoiningOK'
  <2>1. joining' \in Seq(Apps)
    BY <1>2, TailPlaces
  <2>2. ASSUME NEW i \in DOMAIN joining'
        PROVE  /\ boot'.apps[joining'[i]].proto # 0
               /\ client'[boot'.apps[joining'[i]].proto].status = "CONNECTED"
    <3>1. i + 1 \in DOMAIN joining /\ joining'[i] = joining[i + 1]
      BY <1>2, TailPlaces
    <3> DEFINE a == joining'[i]
    <3>2. boot.apps[a].proto # 0 /\ client[boot.apps[a].proto].status = "CONNECTED"
      BY <1>1, <3>1 DEF JoiningOK
    <3>3. a \in Apps
      BY <1>2, <3>1
    <3>4. boot.apps[a].proto \in Clients
      BY <1>1, <3>2, <3>3 DEF BootOK
    <3> QED
      BY <1>2, <1>7, <1>9, <3>2, <3>4
  <2> QED
    BY <1>12, <2>1, <2>2 DEF JoiningOK
<1>16. ButtonsOK'
  <2>1. Pins \subseteq Pins'
    BY <1>2 DEF Pins
  <2>2. rising = {}
    BY <1>1, <1>2 DEF ButtonsOK
  <2>3. \A pair \in switch_online(h) : pair[2] = h /\ IsSwitch(h)
    BY DEF switch_online, IsSwitch
  <2>4. ASSUME NEW pair \in installed'
        PROVE  /\ pair[2] \in Apps /\ boot.apps[pair[2]].proto # 0
               /\ IsSwitch(pair[2])
    BY <1>1, <1>2, <1>3, <1>4, <2>3 DEF ButtonsOK
  <2> QED
    BY <1>1, <1>2, <1>12, <2>1, <2>2, <2>4 DEF ButtonsOK
<1>17. taskq' \in 0 .. Len(boot'.protos)
  BY <1>1, <1>2, <1>4, PostNames
<1> QED
  BY <1>12, <1>13, <1>14, <1>15, <1>16, <1>17 DEF ProtocolsInv
----------------------------------------------------------------------------
(* What an application takes for its topic the broker sends it.              *)
LEMMA FilterMatches ==
  ASSUME NEW url, NEW topic, protocol_filter_by_url(url, topic)
  PROVE  Matches(url, topic)
  BY DEF protocol_filter_by_url, Matches, IsStrictPrefix

(* A PUBLISH the broker passes on, whoever sent it: the applications that    *)
(* are told are those it will concern when it arrives.                       *)
LEMMA DeliverKeeps ==
  ASSUME ProtocolsInv, Idle, UNCHANGED handlers, BrokerOnly,
         NEW m \in Messages, m.kind = "PUBLISH", NEW rest,
         \A q \in Clients :
           /\ rest[q] \in ClientRecords /\ SessionOK(q, rest[q], joining)
           /\ rest[q].inbox = client[q].inbox /\ rest[q].conn = client[q].conn
           /\ rest[q].tcp = client[q].tcp /\ rest[q].odd = client[q].odd
           /\ \A a : Echo(client[q], a) =>
                \/ Echo(rest[q], a)
                \/ ConcernsIt(a, m) /\ Config(a).url \in client[q].subs,
         client' = Delivered(rest, m), told' = Told(m)
  PROVE  ProtocolsInv'
<1>1. /\ BootOK /\ ButtonsOK /\ JoiningOK /\ taskq \in 0 .. Len(boot.protos)
      /\ Values /\ Sessions /\ Shows
  BY DEF ProtocolsInv
<1>2. /\ boot' = boot /\ joining' = joining /\ UNCHANGED taskq
      /\ UNCHANGED <<handlers, installed, gpioq>> /\ UNCHANGED <<curval, out>>
  BY DEF BrokerOnly, handlers
<1>3. BootOK' /\ ButtonsOK' /\ JoiningOK'
  BY <1>1, <1>2, LoopsRest
<1>4. taskq' \in 0 .. Len(boot'.protos)
  BY <1>1, <1>2, PostNames
<1>5. /\ Clients' = Clients /\ ClientRecords' = ClientRecords /\ Apps' = Apps
      /\ \A q : AppsOf(q)' = AppsOf(q)
  BY <1>2, SameBoot
<1>6. Values'
  <2>1. m.data \in BOOLEAN
    BY DEF Messages
  <2>2. told' \in [Apps -> SUBSET BOOLEAN]
    BY <1>1, <2>1 DEF Told, Values
  <2> QED
    BY <1>1, <1>2, <1>5, <2>2 DEF Values
<1>7. ASSUME NEW q \in Clients
      PROVE  /\ client'[q] \in ClientRecords /\ SessionOK(q, client'[q], joining)
             /\ \A a \in Range(AppsOf(q)) :
                  ShowsOK(client'[q], a, told'[a], curval[a], out[a])
  <2> DEFINE c == client[q]
             r == rest[q]
             d == client'[q]
  <2>1. /\ c \in ClientRecords /\ SessionOK(q, c, joining)
        /\ \A a \in Range(AppsOf(q)) : ShowsOK(c, a, told[a], curval[a], out[a])
    BY OfClient
  <2>2. /\ r \in ClientRecords /\ SessionOK(q, r, joining)
        /\ r.inbox = c.inbox /\ r.conn = c.conn /\ r.tcp = c.tcp /\ r.odd = c.odd
        /\ \A a : Echo(c, a) =>
             Echo(r, a) \/ (ConcernsIt(a, m) /\ Config(a).url \in c.subs)
    OBVIOUS
  <2>3. d = IF Subscribed(q, m) THEN [r EXCEPT !.inbox = Append(@, m)] ELSE r
    BY DEF Delivered
  <2>4. \A a \in Range(AppsOf(q)) :
          told'[a] = IF Subscribed(q, m) /\ protocol_filter_by_url(Config(a).url, m.url)
                     THEN {m.data} ELSE told[a]
    BY <1>1, OwnApps DEF Told
  <2>5. \A a : Subscribed(q, m) \/ ~ (ConcernsIt(a, m) /\ Config(a).url \in c.subs)
    BY FilterMatches DEF Subscribed, ConcernsIt
  <2>6. \A a : ConcernsIt(a, m) <=> protocol_filter_by_url(Config(a).url, m.url)
    BY DEF ConcernsIt
  <2> HIDE DEF c, r, d
  <2>7. CASE Subscribed(q, m)
    <3>1. /\ d \in ClientRecords /\ d.inbox = Append(c.inbox, m)
          /\ d.queue = r.queue /\ d.wire = r.wire /\ d.subs = r.subs
          /\ d.conn = r.conn /\ d.tcp = r.tcp /\ d.odd = r.odd /\ d.status = r.status
          /\ d.pending = r.pending /\ d.unacked = r.unacked
      <4> DEFINE e == [r EXCEPT !.inbox = Append(@, m)]
      <4>1. Append(r.inbox, m) \in Seq(Messages)
        BY <2>2 DEF ClientRecords
      <4>2. /\ e \in ClientRecords /\ e.inbox = Append(r.inbox, m)
            /\ e.queue = r.queue /\ e.wire = r.wire /\ e.subs = r.subs
            /\ e.conn = r.conn /\ e.tcp = r.tcp /\ e.odd = r.odd /\ e.status = r.status
            /\ e.pending = r.pending /\ e.unacked = r.unacked
        BY <2>2, <4>1 DEF ClientRecords
      <4> HIDE DEF e
      <4>3. d = e
        BY <2>3, <2>7 DEF e
      <4> QED
        BY <2>2, <4>2, <4>3
    <3>2. StatusOK(d)
      BY <2>2, <3>1 DEF SessionOK, StatusOK, IsOnline
    <3>3. SessionOK(q, d, joining) /\ \A a : Echo(r, a) => Echo(d, a)
      BY <2>2, <3>1, <3>2, SameMail
    <3>4. ASSUME NEW a \in Range(AppsOf(q))
          PROVE  ShowsOK(d, a, told'[a], curval[a], out[a])
      <4>1. ShowsOK(c, a, told[a], curval[a], out[a])
        BY <2>1
      <4>2. /\ ConcernsIt(a, m) => told'[a] = {m.data}
            /\ ~ ConcernsIt(a, m) => told'[a] = told[a] /\ (Echo(c, a) => Echo(d, a))
        BY <2>2, <2>4, <2>6, <2>7, <3>3
      <4>3. d.conn = c.conn /\ d.tcp = c.tcp /\ d.odd = c.odd
        BY <2>2, <3>1
      <4> QED
        BY <2>1, <3>1, <4>1, <4>2, <4>3, Arrives
    <3> QED
      BY <3>1, <3>3, <3>4 DEF d
  <2>8. CASE ~ Subscribed(q, m)
    <3>1. d = r
      BY <2>3, <2>8
    <3>2. ASSUME NEW a \in Range(AppsOf(q))
          PROVE  ShowsOK(d, a, told'[a], curval[a], out[a])
      <4>1. ShowsOK(c, a, told[a], curval[a], out[a]) /\ told'[a] = told[a]
        BY <2>1, <2>4, <2>8
      <4>2. Echo(c, a) => Echo(d, a)
        BY <2>2, <2>5, <2>8, <3>1
      <4> QED
        BY <2>2, <3>1, <4>1, <4>2, ShowsFollow
    <3> QED
      BY <2>2, <3>1, <3>2 DEF d
  <2> QED
    BY <2>7, <2>8
<1>8. client' \in [Clients -> ClientRecords]
  BY <1>7 DEF Delivered
<1>9. \A q \in Clients : SessionOK(q, client[q], joining)'
  BY <1>2, <1>7, SameSession
<1>10. ASSUME NEW q \in Clients, NEW a \in Range(AppsOf(q))
       PROVE  ShowsOK(client[q], a, told[a], curval[a], out[a])'
  BY <1>2, <1>7, SameShows
<1>11. Sessions' /\ Shows'
  BY <1>5, <1>8, <1>9, <1>10 DEF Sessions, Shows
<1> QED
  BY <1>3, <1>4, <1>6, <1>11 DEF ProtocolsInv

(* The broker reads a packet of a client.                                    *)
LEMMA BrokerReadsKeeps ==
  ASSUME ProtocolsInv, Idle, UNCHANGED handlers, NEW p \in Clients, BrokerReads(p)
  PROVE  ProtocolsInv'
<1> DEFINE c == client[p]
           m == Head(c.wire)
           rest == [client EXCEPT ![p].wire = Tail(@)]
<1>1. /\ BootOK /\ ButtonsOK /\ JoiningOK /\ taskq \in 0 .. Len(boot.protos)
      /\ Values /\ Sessions /\ Shows
  BY DEF ProtocolsInv
<1>2. /\ c \in ClientRecords /\ SessionOK(p, c, joining) /\ StatusOK(c)
      /\ \A a \in Range(AppsOf(p)) : ShowsOK(c, a, told[a], curval[a], out[a])
  BY OfClient
<1>3. c.wire # <<>> /\ c.tcp = "open" /\ BrokerOnly
  BY DEF BrokerReads
<1>4. c.wire \in Seq(Messages) /\ m \in Messages /\ Tail(c.wire) \in Seq(Messages)
  <2>1. c.wire \in Seq(Messages)
    BY <1>2 DEF ClientRecords
  <2> QED
    BY <1>3, <2>1, TailPlaces
<1>5. \A q \in Clients : rest[q] = IF q = p THEN [c EXCEPT !.wire = Tail(@)] ELSE client[q]
  BY <1>1 DEF Sessions
<1>6. CASE m.kind = "PUBLISH"
  <2>1. client' = Delivered(rest, m) /\ told' = Told(m)
    BY <1>6 DEF BrokerReads
  <2>2. ASSUME NEW q \in Clients
        PROVE  /\ rest[q] \in ClientRecords /\ SessionOK(q, rest[q], joining)
               /\ rest[q].inbox = client[q].inbox /\ rest[q].conn = client[q].conn
               /\ rest[q].tcp = client[q].tcp /\ rest[q].odd = client[q].odd
               /\ \A a : Echo(client[q], a) =>
                    \/ Echo(rest[q], a)
                    \/ ConcernsIt(a, m) /\ Config(a).url \in client[q].subs
    <3>1. CASE q = p
      <4> DEFINE d == [c EXCEPT !.wire = Tail(@)]
      <4>1. /\ d \in ClientRecords /\ d.wire = Tail(c.wire) /\ d.queue = c.queue
            /\ d.inbox = c.inbox /\ d.conn = c.conn /\ d.tcp = c.tcp /\ d.odd = c.odd
            /\ d.status = c.status /\ d.pending = c.pending /\ d.unacked = c.unacked
            /\ d.subs = c.subs
        BY <1>2, <1>4 DEF ClientRecords
      <4> HIDE DEF d
      <4>2. d.subs = IF m.kind = "SUBSCRIBE" THEN c.subs \cup {m.url} ELSE c.subs
        BY <1>6, <4>1
      <4>3. /\ SessionOK(p, d, joining)
            /\ \A a : Echo(c, a) =>
                 Echo(d, a) \/ (ConcernsIt(a, m) /\ Config(a).url \in c.subs)
        BY <1>2, <1>3, <4>1, <4>2, BrokerTakes
      <4>4. rest[q] = d
        BY <1>5, <3>1 DEF d
      <4> HIDE DEF rest
      <4> QED
        BY <3>1, <4>1, <4>3, <4>4
    <3>2. CASE q # p
      <4>1. rest[q] = client[q] /\ client[q] \in ClientRecords
            /\ SessionOK(q, client[q], joining)
        BY <1>5, <3>2, OfClient
      <4> HIDE DEF rest
      <4> QED
        BY <4>1
    <3> QED
      BY <3>1, <3>2
  <2> HIDE DEF rest, m
  <2> QED
    BY <1>3, <1>4, <1>6, <2>1, <2>2, DeliverKeeps
<1>7. ASSUME NEW d \in ClientRecords, client' = [client EXCEPT ![p] = d], UNCHANGED told,
             d.wire = Tail(c.wire), d.queue = c.queue, d.conn = c.conn, d.tcp = c.tcp,
             d.odd = c.odd, d.status = c.status, d.pending = c.pending,
             d.unacked = c.unacked, m.kind # "PUBLISH",
             d.subs = IF m.kind = "SUBSCRIBE" THEN c.subs \cup {m.url} ELSE c.subs,
             \/ d.inbox = c.inbox
             \/ d.inbox = Append(c.inbox, Packet("ACK"))
      PROVE  ProtocolsInv'
  <2>1. /\ boot' = boot /\ joining' = joining /\ UNCHANGED taskq
        /\ UNCHANGED <<handlers, installed, gpioq>> /\ UNCHANGED <<curval, out, told>>
    BY <1>3, <1>7 DEF BrokerOnly, handlers
  <2>2. /\ SessionOK(p, d, joining)
        /\ \A a : Echo(c, a) =>
             Echo(d, a) \/ (ConcernsIt(a, m) /\ Config(a).url \in c.subs)
    BY <1>2, <1>3, <1>7, BrokerTakes
  <2>3. \A a : ~ ConcernsIt(a, m) /\ ~ ConcernsIt(a, Packet("ACK"))
    BY <1>7 DEF ConcernsIt, Packet
  <2>4. ASSUME NEW a \in Range(AppsOf(p))
        PROVE  ShowsOK(d, a, told[a], curval[a], out[a])
    <3>1. ShowsOK(c, a, told[a], curval[a], out[a]) /\ (Echo(c, a) => Echo(d, a))
      BY <1>2, <2>2, <2>3
    <3>2. CASE d.inbox = c.inbox
      BY <1>7, <3>1, <3>2, ShowsFollow
    <3>3. CASE d.inbox = Append(c.inbox, Packet("ACK"))
      <4>1. Packet("ACK") \in Messages
        BY MessageTypes DEF Kinds
      <4> HIDE DEF c, m
      <4> QED
        BY <1>2, <1>7, <2>3, <3>1, <3>3, <4>1, Arrives
    <3> QED
      BY <1>7, <3>2, <3>3
  <2>5. BootOK' /\ ButtonsOK' /\ JoiningOK'
    BY <1>1, <2>1, LoopsRest
  <2>6. taskq' \in 0 .. Len(boot'.protos)
    BY <1>1, <2>1, PostNames
  <2>7. Values'
    BY <1>1, <2>1, SameBoot DEF Values
  <2>8. Sessions' /\ Shows'
    BY <1>1, <1>7, <2>1, <2>2, <2>4, OneClient
  <2> QED
    BY <2>5, <2>6, <2>7, <2>8 DEF ProtocolsInv
<1>8. CASE m.kind = "CONNECT"
  <2> DEFINE d == [c EXCEPT !.wire = Tail(@)]
  <2>1. client' = rest /\ UNCHANGED told
    BY <1>8 DEF BrokerReads
  <2>2. /\ d \in ClientRecords /\ d.wire = Tail(c.wire) /\ d.queue = c.queue
        /\ d.inbox = c.inbox /\ d.conn = c.conn /\ d.tcp = c.tcp /\ d.odd = c.odd
        /\ d.status = c.status /\ d.pending = c.pending /\ d.unacked = c.unacked
        /\ d.subs = c.subs
    BY <1>2, <1>4 DEF ClientRecords
  <2>3. client' = [client EXCEPT ![p] = d]
    BY <2>1
  <2> HIDE DEF d
  <2> QED
    BY <1>7, <1>8, <2>1, <2>2, <2>3
<1>9. CASE m.kind # "CONNECT" /\ m.kind # "PUBLISH"
  <2> DEFINE s == IF m.kind = "SUBSCRIBE" THEN c.subs \cup {m.url} ELSE c.subs
             i == Append(c.inbox, Packet("ACK"))
             d == [c EXCEPT !.wire = Tail(@), !.inbox = i, !.subs = s]
  <2>1. /\ client' = [rest EXCEPT ![p].inbox = Append(@, Packet("ACK")),
                        ![p].subs = IF m.kind = "SUBSCRIBE" THEN @ \cup {m.url} ELSE @]
        /\ UNCHANGED told
    BY <1>9 DEF BrokerReads
  <2>2. client' = [client EXCEPT ![p] = d]
    BY <1>1, <1>2, <2>1 DEF Sessions, ClientRecords
  <2>3. i \in Seq(Messages)
    BY <1>2, MessageTypes DEF ClientRecords, Kinds
  <2>4. s \subseteq Urls
    <3>1. c.subs \subseteq Urls
      BY <1>2 DEF ClientRecords
    <3>2. m.kind = "SUBSCRIBE" => m.url \in Topics(p)
      BY <1>2, <1>3, <1>4, TailPlaces DEF SessionOK, SubscribesOwn
    <3>3. Topics(p) \subseteq Urls
      BY <1>1, OwnApps DEF Topics, Urls
    <3> QED
      BY <3>1, <3>2, <3>3
  <2> HIDE DEF s, i
  <2>5. /\ d \in ClientRecords /\ d.wire = Tail(c.wire) /\ d.queue = c.queue
        /\ d.inbox = i /\ d.conn = c.conn /\ d.tcp = c.tcp /\ d.odd = c.odd
        /\ d.status = c.status /\ d.pending = c.pending /\ d.unacked = c.unacked
        /\ d.subs = s
    BY <1>2, <1>4, <2>3, <2>4 DEF ClientRecords
  <2> HIDE DEF d
  <2> QED
    BY <1>7, <1>9, <2>1, <2>2, <2>5 DEF s, i
<1> QED
  BY <1>6, <1>8, <1>9

(* Another device publishes.                                                 *)
LEMMA OtherKeeps ==
  ASSUME ProtocolsInv, Idle, UNCHANGED handlers, NEW url \in Urls, NEW data \in BOOLEAN,
         OtherPublishes(url, data)
  PROVE  ProtocolsInv'
<1> DEFINE m == Pub(url, data)
<1>1. m \in Messages /\ m.kind = "PUBLISH"
  BY DEF Pub, Messages, Kinds
<1>2. client' = Delivered(client, m) /\ told' = Told(m) /\ BrokerOnly
  BY DEF OtherPublishes
<1>3. \A q \in Clients : client[q] \in ClientRecords /\ SessionOK(q, client[q], joining)
  BY OfClient
<1> HIDE DEF m
<1> QED
  BY <1>1, <1>2, <1>3, DeliverKeeps
----------------------------------------------------------------------------
(* Every set of places of a sequence has a greatest member.                  *)
LEMMA LastOf ==
  ASSUME NEW n \in Nat, NEW S \in SUBSET (1 .. n), S # {}
  PROVE  \E m \in S : \A i \in S : i <= m
<1> DEFINE T == {k \in Nat : \A i \in S : i <= k}
<1>1. n \in T
  OBVIOUS
<1>2. PICK m \in T : \A k \in T : m <= k
  BY <1>1, LeastOf
<1>3. m \in S
  <2>1. SUFFICES ASSUME m \notin S PROVE FALSE
    OBVIOUS
  <2>2. m # 0
    <3>1. PICK i \in S : TRUE
      OBVIOUS
    <3> QED
      BY <3>1
  <2>3. m - 1 \in T
    <3>1. ASSUME NEW i \in S PROVE i <= m - 1
      BY <2>1
    <3> QED
      BY <2>2, <3>1
  <2> QED
    BY <1>2, <2>3
<1> QED
  BY <1>2, <1>3

(* A value that arrives is one.                                              *)
LEMMA ValueType ==
  ASSUME NEW a, NEW segment \in Seq(Messages), NEW old \in BOOLEAN
  PROVE  Value(a, segment, old) \in BOOLEAN
<1>1. CASE Meant(a, segment) = {}
  BY <1>1 DEF Value
<1>2. CASE Meant(a, segment) # {}
  <2>1. Meant(a, segment) \in SUBSET (1 .. Len(segment)) /\ Len(segment) \in Nat
    BY DEF Meant, ReadAt
  <2>2. PICK k \in Meant(a, segment) : \A i \in Meant(a, segment) : i <= k
    BY <1>2, <2>1, LastOf
  <2>3. Value(a, segment, old) = segment[k].data
    BY <2>2, LastCounts
  <2>4. segment[k] \in Messages
    BY <2>1, <2>2
  <2> QED
    BY <2>3, <2>4 DEF Messages
<1> QED
  BY <1>1, <1>2

(* A segment arrives.                                                        *)
LEMMA RecvKeeps ==
  ASSUME ProtocolsInv, Idle, UNCHANGED handlers, NEW p \in Clients,
         NEW n \in 1 .. InboxBound, mqtt_tcpclient_recv(p, n)
  PROVE  ProtocolsInv'
<1> DEFINE c == client[p]
           segment == SubSeq(c.inbox, 1, n)
           rest == SubSeq(c.inbox, n + 1, Len(c.inbox))
           lost == \E i \in DOMAIN segment \ ReadAt(segment) : segment[i].kind = "PUBLISH"
           d == [c EXCEPT !.inbox = rest, !.odd = c.odd \/ lost]
<1>1. /\ BootOK /\ ButtonsOK /\ JoiningOK /\ taskq \in 0 .. Len(boot.protos)
      /\ Values /\ Sessions /\ Shows
  BY DEF ProtocolsInv
<1>2. /\ c \in ClientRecords /\ SessionOK(p, c, joining) /\ StatusOK(c)
      /\ \A a \in Range(AppsOf(p)) : ShowsOK(c, a, told[a], curval[a], out[a])
  BY OfClient
<1>3. /\ n <= Len(c.inbox) /\ protocol_received_cb(p, segment)
      /\ ClientStep(p, d) /\ Post(p) /\ UNCHANGED <<installed, told>>
  BY DEF mqtt_tcpclient_recv
<1>4. /\ boot' = boot /\ joining' = joining /\ client' = [client EXCEPT ![p] = d]
      /\ UNCHANGED <<handlers, installed, gpioq>>
  BY <1>3 DEF ClientStep, handlers
<1>5. /\ n \in 1 .. Len(c.inbox) /\ segment \in Seq(Messages) /\ rest \in Seq(Messages)
  <2>1. c.inbox \in Seq(Messages) /\ Len(c.inbox) \in Nat /\ n \in Nat
    BY <1>2, ProtocolsAssumption DEF ClientRecords
  <2>2. n \in 1 .. Len(c.inbox)
    BY <1>3, <2>1
  <2> QED
    BY <2>1, <2>2
<1>6. lost \in BOOLEAN /\ c.odd \in BOOLEAN
  BY <1>2 DEF ClientRecords
<1> HIDE DEF segment, rest, lost
<1>7. /\ d \in ClientRecords /\ d.inbox = rest /\ d.odd = (c.odd \/ lost)
      /\ d.queue = c.queue /\ d.wire = c.wire /\ d.subs = c.subs
      /\ d.conn = c.conn /\ d.tcp = c.tcp /\ d.status = c.status
      /\ d.pending = c.pending /\ d.unacked = c.unacked
  BY <1>2, <1>5, <1>6 DEF ClientRecords
<1> HIDE DEF d
<1>8. StatusOK(d)
  BY <1>2, <1>7 DEF StatusOK, IsOnline
<1>9. SessionOK(p, d, joining)
  BY <1>2, <1>7, <1>8, SameMail
<1>10. /\ curval' = [a \in Apps |-> IF a \in Range(AppsOf(p)) THEN Recv(a, segment).value
                                    ELSE curval[a]]
       /\ out' = [a \in Apps |-> IF a \in Range(AppsOf(p)) THEN Recv(a, segment).level
                                 ELSE out[a]]
  BY <1>3 DEF protocol_received_cb
<1>11. ASSUME NEW q \in Clients PROVE SessionOK(q, client[q], joining)'
  <2>1. SessionOK(q, client'[q], joining')
    BY <1>1, <1>4, <1>7, <1>9 DEF Sessions
  <2> QED
    BY <1>4, <2>1, SameSession
<1>12. ASSUME NEW q \in Clients, NEW a \in Range(AppsOf(q))
       PROVE  ShowsOK(client[q], a, told[a], curval[a], out[a])'
  <2>1. a \in Apps /\ boot.apps[a].proto = q
    BY <1>1, OwnApps
  <2>2. CASE q = p
    <3>1. /\ client'[q] = d /\ told'[a] = told[a]
          /\ curval'[a] = Recv(a, segment).value /\ out'[a] = Recv(a, segment).level
      BY <1>1, <1>3, <1>4, <1>10, <2>1, <2>2 DEF Sessions
    <3>2. ~ d.odd => \A i \in DOMAIN segment \ ReadAt(segment) : segment[i].kind # "PUBLISH"
      BY <1>7 DEF lost
    <3>3. ShowsOK(c, a, told[a], curval[a], out[a])
      BY <1>2, <2>2
    <3>4. segment = SubSeq(c.inbox, 1, n) /\ d.inbox = SubSeq(c.inbox, n + 1, Len(c.inbox))
      BY <1>7 DEF segment, rest
    <3> HIDE DEF c
    <3>5. ShowsOK(d, a, told[a], Recv(a, segment).value, Recv(a, segment).level)
      BY <1>2, <1>5, <1>7, <3>2, <3>3, <3>4, Receives
    <3>6. ShowsOK(client'[q], a, told'[a], curval'[a], out'[a])
      BY <3>1, <3>5
    <3> QED
      BY <1>4, <3>6, SameShows
  <2>3. CASE q # p
    <3>1. a \notin Range(AppsOf(p))
      BY <1>1, <2>1, <2>3, OwnApps
    <3>2. /\ client'[q] = client[q] /\ told'[a] = told[a]
          /\ curval'[a] = curval[a] /\ out'[a] = out[a]
      BY <1>1, <1>3, <1>4, <1>10, <2>1, <2>3, <3>1 DEF Sessions
    <3>3. ShowsOK(client'[q], a, told'[a], curval'[a], out'[a])
      BY <1>1, <3>2 DEF Shows
    <3> QED
      BY <1>4, <3>3, SameShows
  <2> QED
    BY <2>2, <2>3
<1>13. /\ Clients' = Clients /\ ClientRecords' = ClientRecords /\ Apps' = Apps
       /\ \A q : AppsOf(q)' = AppsOf(q)
  BY <1>4, SameBoot
<1>14. client' \in [Clients -> ClientRecords]
  BY <1>1, <1>4, <1>7 DEF Sessions
<1>15. Sessions' /\ Shows'
  BY <1>11, <1>12, <1>13, <1>14 DEF Sessions, Shows
<1>16. Values'
  <2>1. ASSUME NEW a \in Apps
        PROVE  Recv(a, segment).value \in BOOLEAN /\ Recv(a, segment).level \in BOOLEAN
    <3>1. curval[a] \in BOOLEAN /\ out[a] \in BOOLEAN
      BY <1>1 DEF Values
    <3>2. /\ Value(a, segment, curval[a]) \in BOOLEAN
          /\ Value(a, segment, out[a]) \in BOOLEAN
      BY <1>5, <3>1, ValueType
    <3> QED
      BY <3>1, <3>2 DEF Recv, lamp_recv, switch_recv, switchlamp_recv
  <2>2. curval' \in [Apps -> BOOLEAN] /\ out' \in [Apps -> BOOLEAN]
    BY <1>1, <1>10, <2>1 DEF Values
  <2> QED
    BY <1>1, <1>3, <1>13, <2>2 DEF Values
<1>17. BootOK' /\ ButtonsOK' /\ JoiningOK'
  BY <1>1, <1>4, LoopsRest
<1>18. taskq' \in 0 .. Len(boot'.protos)
  BY <1>1, <1>3, <1>4, PostNames
<1> QED
  BY <1>15, <1>16, <1>17, <1>18 DEF ProtocolsInv
----------------------------------------------------------------------------
(* The interrupt's post, and the task taking it.                             *)
LEMMA PinsKeep ==
  ASSUME ProtocolsInv,
         \/ Idle /\ gpio_interrupt_cb_task
         \/ \E pins \in SUBSET Pins \ {{}} : gpio_intr_handler(pins)
  PROVE  ProtocolsInv'
<1>1. /\ BootOK /\ ButtonsOK /\ JoiningOK /\ taskq \in 0 .. Len(boot.protos)
      /\ Values /\ Sessions /\ Shows
  BY DEF ProtocolsInv
<1>2. /\ UNCHANGED <<boot, client, taskq, installed, curval, out, told, joining>>
      /\ gpioq' \subseteq gpioq \/ gpioq' \subseteq Pins
      /\ rising' \subseteq rising \/ (rising' \subseteq gpioq /\ joining = <<>>)
  BY DEF gpio_interrupt_cb_task, gpio_intr_handler, handlers, Idle
<1>3. /\ Clients' = Clients /\ ClientRecords' = ClientRecords /\ Apps' = Apps
      /\ \A q : AppsOf(q)' = AppsOf(q)
      /\ \A a : IsSwitch(a)' = IsSwitch(a)
      /\ BootOK'
  BY <1>1, <1>2, SameBoot
<1>4. ButtonsOK'
  <2>1. Pins' = Pins
    BY <1>2 DEF Pins
  <2>2. gpioq \subseteq Pins /\ rising \subseteq Pins /\ (rising # {} => joining = <<>>)
    BY <1>1 DEF ButtonsOK
  <2>3. \A pair \in installed' : /\ pair[2] \in Apps' /\ boot'.apps[pair[2]].proto # 0
                                 /\ IsSwitch(pair[2])'
    BY <1>1, <1>2, <1>3 DEF ButtonsOK
  <2>4. gpioq' \subseteq Pins' /\ rising' \subseteq Pins'
    BY <1>2, <2>1, <2>2
  <2>5. rising' # {} => joining' = <<>>
    BY <1>2, <2>2
  <2> QED
    BY <2>3, <2>4, <2>5 DEF ButtonsOK
<1>5. JoiningOK' /\ Values'
  BY <1>1, <1>2, <1>3 DEF JoiningOK, Values
<1>6. \A q \in Clients : SessionOK(q, client[q], joining)'
  BY <1>1, <1>2, SameSession DEF Sessions
<1>7. ASSUME NEW q \in Clients, NEW a \in Range(AppsOf(q))
      PROVE  ShowsOK(client[q], a, told[a], curval[a], out[a])'
  BY <1>1, <1>2, SameShows DEF Shows
<1>8. Sessions' /\ Shows'
  BY <1>1, <1>2, <1>3, <1>6, <1>7 DEF Sessions, Shows
<1> QED
  BY <1>1, <1>2, <1>3, <1>4, <1>5, <1>8 DEF ProtocolsInv

(* A callback of a button: what its application shows and sends is the same  *)
(* for a switch-lamp, and a switch shows what it did.                        *)
LEMMA ButtonKeeps ==
  ASSUME ProtocolsInv, gpio_interrupt_cb
  PROVE  ProtocolsInv'
<1>1. /\ BootOK /\ ButtonsOK /\ JoiningOK /\ taskq \in 0 .. Len(boot.protos)
      /\ Values /\ Sessions /\ Shows
  BY DEF ProtocolsInv
<1>2. PICK pin \in rising : rising' = rising \ {pin} /\ Pressed(AppAt(pin))
  BY DEF gpio_interrupt_cb
<1>3. /\ UNCHANGED <<boot, gpioq, installed, told, joining>> /\ joining = <<>>
  BY <1>1 DEF gpio_interrupt_cb, ButtonsOK
<1> DEFINE a == AppAt(pin)
           p == boot.apps[a].proto
           c == client[p]
           m == Pub(Config(a).surl, ~ curval[a])
<1>4. a \in Apps /\ p # 0 /\ IsSwitch(a)
  <2>1. \E pair \in installed : pair[1] = pin
    BY <1>1 DEF ButtonsOK, Pins
  <2>2. \E pair \in installed : a = pair[2]
    BY <2>1 DEF AppAt
  <2> QED
    BY <1>1, <2>2 DEF ButtonsOK
<1>5. p \in Clients /\ a \in Range(AppsOf(p))
  BY <1>1, <1>4 DEF BootOK
<1>6. /\ c \in ClientRecords /\ SessionOK(p, c, <<>>)
      /\ \A e \in Range(AppsOf(p)) : ShowsOK(c, e, told[e], curval[e], out[e])
  BY <1>3, <1>5, OfClient
<1>7. m \in Messages /\ m.kind = "PUBLISH" /\ m.url = Config(a).surl
  BY <1>4, MessageTypes DEF Pub
<1>8. PICK d \in Queued([c EXCEPT !.status = "SENDING"], m) :
        client' = [client EXCEPT ![p] = d] /\ taskq' \in {taskq, p}
  BY <1>2 DEF Pressed, switch_interrupt_cb, switchlamp_interrupt_cb, protocol_send, Post
<1>8b. \/ Config(a).type = "switch" /\ UNCHANGED <<curval, out>>
       \/ /\ Config(a).type # "switch"
          /\ curval' = [curval EXCEPT ![a] = ~curval[a]]
          /\ out' = [out EXCEPT ![a] = ~curval[a]]
  BY <1>2 DEF Pressed, switch_interrupt_cb, switchlamp_interrupt_cb
<1> HIDE DEF a, p, c, m
<1>9. /\ SessionOK(p, d, <<>>)
      /\ \A e, t, v, o : ShowsOK(c, e, t, v, o) => ShowsOK(d, e, t, v, o)
      /\ \A e, t, v, o : e \in Range(AppsOf(p)) /\ ConcernsIt(e, m) =>
           ShowsOK(d, e, t, v, o)
  BY <1>6, <1>7, <1>8, Publishes
<1>10. d \in ClientRecords
  BY <1>9 DEF SessionOK
<1>11. /\ client' \in [Clients -> ClientRecords]
       /\ \A q \in Clients : client'[q] = IF q = p THEN d ELSE client[q]
  BY <1>1, <1>5, <1>8, <1>10 DEF Sessions
<1>12. ASSUME NEW q \in Clients PROVE SessionOK(q, client[q], joining)'
  <2>1. SessionOK(q, client'[q], joining')
    BY <1>1, <1>3, <1>9, <1>11 DEF Sessions
  <2> QED
    BY <1>3, <2>1, SameSession
<1>13. ASSUME NEW q \in Clients, NEW e \in Range(AppsOf(q))
       PROVE  ShowsOK(client[q], e, told[e], curval[e], out[e])'
  <2>1. e \in Apps /\ boot.apps[e].proto = q
    BY <1>1, OwnApps
  <2>2. ShowsOK(client[q], e, told[e], curval[e], out[e])
    BY <1>1 DEF Shows
  <2>3. CASE curval'[e] = curval[e] /\ out'[e] = out[e]
    <3>1. ShowsOK(client'[q], e, told'[e], curval'[e], out'[e])
      BY <1>3, <1>9, <1>11, <2>2, <2>3 DEF c
    <3> QED
      BY <1>3, <3>1, SameShows
  <2>4. CASE ~ (curval'[e] = curval[e] /\ out'[e] = out[e])
    <3>1. e = a /\ Config(a).type # "switch"
      BY <1>1, <1>4, <1>8b, <2>1, <2>4 DEF Values
    <3>2. q = p /\ Config(a).type = "switchlamp"
      BY <1>4, <2>1, <3>1 DEF p, IsSwitch
    <3>3. CASE Echoed(a)
      <4>1. ConcernsIt(a, m)
        BY <1>7, <3>2, <3>3 DEF Echoed, ConcernsIt
      <4>2. ShowsOK(client'[q], e, told'[e], curval'[e], out'[e])
        BY <1>9, <1>11, <3>1, <3>2, <4>1
      <4> QED
        BY <1>3, <4>2, SameShows
    <3>4. CASE ~ Echoed(a)
      <4>1. ShowsOK(client'[q], e, told'[e], curval'[e], out'[e])
        BY <3>1, <3>4 DEF ShowsOK
      <4> QED
        BY <1>3, <4>1, SameShows
    <3> QED
      BY <3>3, <3>4
  <2> QED
    BY <2>3, <2>4
<1>14. /\ Clients' = Clients /\ ClientRecords' = ClientRecords /\ Apps' = Apps
       /\ \A q : AppsOf(q)' = AppsOf(q)
       /\ \A e : IsSwitch(e)' = IsSwitch(e)
       /\ BootOK'
  BY <1>1, <1>3, SameBoot
<1>15. Sessions' /\ Shows'
  BY <1>11, <1>12, <1>13, <1>14 DEF Sessions, Shows
<1>16. Values'
  <2>1. curval' \in [Apps -> BOOLEAN] /\ out' \in [Apps -> BOOLEAN]
    BY <1>1, <1>4, <1>8b DEF Values
  <2> QED
    BY <1>1, <1>3, <1>14, <2>1 DEF Values
<1>17. ButtonsOK'
  <2>1. Pins' = Pins
    BY <1>3 DEF Pins
  <2> QED
    BY <1>1, <1>2, <1>3, <1>14, <2>1 DEF ButtonsOK
<1>18. JoiningOK'
  BY <1>3 DEF JoiningOK
<1>19. taskq' \in 0 .. Len(boot'.protos)
  BY <1>1, <1>3, <1>5, <1>8 DEF BootOK
<1> QED
  BY <1>14, <1>15, <1>16, <1>17, <1>18, <1>19 DEF ProtocolsInv
----------------------------------------------------------------------------
(* user_init leaves every client without a connection.                       *)
LEMMA ProtocolsInit == Init => ProtocolsInv
<1> SUFFICES ASSUME Init PROVE ProtocolsInv
  OBVIOUS
<1>1. PICK configs \in Boards : boot = Booted(configs)
  BY DEF Init
<1>2. /\ client = [p \in Clients |-> Fresh]
      /\ taskq = IF Clients = {} THEN 0 ELSE 1
      /\ gpioq = {} /\ joining = <<>> /\ rising = {}
      /\ installed = {<<Config(a).swpin, a>> :
                        a \in {b \in Apps : Config(b).type = "switchlamp"}}
      /\ curval = [a \in Apps |-> FALSE] /\ out = [a \in Apps |-> FALSE]
      /\ told = [a \in Apps |-> {}]
  BY DEF Init
<1>3. BootOK
  <2>1. configs \in Seq(Range(configs))
    BY BoardsAssumption
  <2>2. BootInv(Range(configs), boot)
    BY <1>1, <2>1, BootKeepsLists
  <2>3. Clients = 1 .. Len(boot.protos) /\ Len(boot.protos) \in Nat
    BY <2>2 DEF BootInv, Clients
  <2>4. ASSUME NEW p \in Clients PROVE AppsOf(p) \in Seq(Apps)
    <3>1. boot.protos[p] \in ClientsFrom(Range(configs))
      BY <2>2, <2>4 DEF BootInv, Clients
    <3>2. AppsOf(p) \in Seq(Nat)
      BY <3>1 DEF ClientsFrom, AppsOf
    <3>3. \A i \in DOMAIN AppsOf(p) : AppsOf(p)[i] \in Apps
      BY <2>2, <2>4 DEF BootInv, ListsRefer, Clients, Apps, AppsOf
    <3> HIDE DEF AppsOf
    <3> QED
      BY <3>2, <3>3
  <2>5. \A p \in Clients : \A i \in DOMAIN AppsOf(p) : boot.apps[AppsOf(p)[i]].proto = p
    BY <2>2 DEF BootInv, ListsRefer, Clients, AppsOf
  <2>6. \A a \in Apps : boot.apps[a].proto # 0 =>
          boot.apps[a].proto \in Clients /\ a \in Range(AppsOf(boot.apps[a].proto))
    BY <2>2 DEF BootInv, ListsRefer, Clients, Apps, AppsOf
  <2>7. \A p \in Clients : \A a \in Range(AppsOf(p)) : boot.apps[a].proto = p
    BY <2>5 DEF Range
  <2> QED
    BY <2>3, <2>4, <2>6, <2>7 DEF BootOK
<1>4. ButtonsOK
  <2>1. \A a \in Apps : Config(a).type = "switchlamp" => boot.apps[a].proto # 0
    BY <1>1, BoardsAssumption DEF Apps, Config
  <2> QED
    BY <1>2, <2>1 DEF ButtonsOK, IsSwitch
<1>5. JoiningOK /\ Values
  BY <1>2 DEF JoiningOK, Values
<1>6. taskq \in 0 .. Len(boot.protos)
  BY <1>2, <1>3 DEF BootOK
<1>7. Fresh \in ClientRecords
  BY DEF Fresh, ClientRecords, Conns
<1>8. ASSUME NEW p \in Clients
      PROVE  /\ SessionOK(p, Fresh, joining)
             /\ \A a, t, v, o : ShowsOK(Fresh, a, t, v, o)
  <2>1. /\ Fresh.queue = <<>> /\ Fresh.wire = <<>> /\ Fresh.subs = {}
        /\ ~ IsOnline(Fresh)
    BY DEF Fresh, IsOnline
  <2>2. Len(Fresh.queue) <= QueueSlots
    BY <2>1, ProtocolsAssumption
  <2>3. SubscribesOwn(p, Fresh.queue) /\ SubscribesOwn(p, Fresh.wire)
    BY <2>1 DEF SubscribesOwn
  <2>4. WireFollowsTcp(Fresh) /\ StatusOK(Fresh)
    BY <2>1 DEF WireFollowsTcp, StatusOK
  <2> QED
    BY <1>7, <2>1, <2>2, <2>3, <2>4 DEF SessionOK, ShowsOK
<1>9. Sessions /\ Shows
  BY <1>2, <1>7, <1>8 DEF Sessions, Shows
<1> QED
  BY <1>3, <1>4, <1>5, <1>6, <1>9 DEF ProtocolsInv

(* Every callback, task, timer and interrupt keeps the invariant.            *)
LEMMA ProtocolsStep == ProtocolsInv /\ [Next]_vars => ProtocolsInv'
<1> SUFFICES ASSUME ProtocolsInv, [Next]_vars PROVE ProtocolsInv'
  OBVIOUS
<1>1. CASE UNCHANGED vars
  <2>1. /\ UNCHANGED <<boot, client, taskq, gpioq, installed, curval, out, told>>
        /\ joining' = joining /\ rising' = rising
    BY <1>1 DEF vars, handlers
  <2>2. /\ Clients' = Clients /\ ClientRecords' = ClientRecords /\ Apps' = Apps
        /\ \A q : AppsOf(q)' = AppsOf(q)
        /\ \A a : IsSwitch(a)' = IsSwitch(a)
        /\ BootOK' = BootOK
    BY <2>1, SameBoot
  <2>3. \A q \in Clients : SessionOK(q, client[q], joining)'
    BY <2>1, SameSession DEF ProtocolsInv, Sessions
  <2>4. ASSUME NEW q \in Clients, NEW a \in Range(AppsOf(q))
        PROVE  ShowsOK(client[q], a, told[a], curval[a], out[a])'
    BY <2>1, SameShows DEF ProtocolsInv, Shows
  <2>5. Sessions' /\ Shows'
    BY <2>1, <2>2, <2>3, <2>4 DEF ProtocolsInv, Sessions, Shows
  <2>6. JoiningOK' /\ ButtonsOK' /\ Values'
    BY <2>1, <2>2 DEF ProtocolsInv, JoiningOK, ButtonsOK, Pins, Values
  <2> QED
    BY <2>1, <2>2, <2>5, <2>6 DEF ProtocolsInv
<1>2. CASE Idle /\ Callback /\ UNCHANGED handlers
  <2>1. CASE WifiUp \/ WifiDown
    BY <1>2, <2>1, WifiKeeps
  <2>2. ASSUME NEW p \in Clients, SdkStep(p) PROVE ProtocolsInv'
    BY <1>2, <2>2, ConnectKeeps, CloseKeeps, ReportKeeps, BrokerReadsKeeps, RecvKeeps
       DEF SdkStep
  <2>3. ASSUME NEW p \in Clients, mqtt_timer(p) PROVE ProtocolsInv'
    BY <1>2, <2>3, KeepAliveKeeps, ReportKeeps, ReconnectKeeps DEF mqtt_timer
  <2>4. CASE MQTT_Task
    BY <1>2, <2>4, TaskKeeps
  <2>5. ASSUME NEW url \in Urls, NEW data \in BOOLEAN, OtherPublishes(url, data)
        PROVE  ProtocolsInv'
    BY <1>2, <2>5, OtherKeeps
  <2> QED
    BY <1>2, <2>1, <2>2, <2>3, <2>4, <2>5 DEF Callback
<1>3. ASSUME Idle, NEW p \in Clients, mqtt_connected_cb(p) PROVE ProtocolsInv'
  BY <1>3, ConnackKeeps
<1>4. CASE app_online
  BY <1>4, OnlineKeeps
<1>5. CASE \/ Idle /\ gpio_interrupt_cb_task
           \/ \E pins \in SUBSET Pins \ {{}} : gpio_intr_handler(pins)
  BY <1>5, PinsKeep
<1>6. CASE gpio_interrupt_cb
  BY <1>6, ButtonKeeps
<1> QED
  BY <1>1, <1>2, <1>3, <1>4, <1>5, <1>6 DEF Next

(* The invariant of every execution.                                         *)
LEMMA ProtocolsInvariant == Spec => []ProtocolsInv
  BY ProtocolsInit, ProtocolsStep, PTL DEF Spec
----------------------------------------------------------------------------
(* A client subscribes the topics of all its applications at every           *)
(* connection, and none of the subscriptions is lost on the board other than *)
(* for want of room (protocol_connected_cb, MQTT_Subscribe, MQTT_Task):      *)
(* whatever boards, whatever the size of the queue.                          *)
THEOREM TopicsAreSubscribed == Spec => []AllSubscribed
<1>1. ProtocolsInv => AllSubscribed
  <2> SUFFICES ASSUME ProtocolsInv, NEW p \in Clients, Online(p), ~ client[p].odd,
                      NEW a \in Range(AppsOf(p)) \ Range(joining)
               PROVE  \/ Config(a).url \in client[p].subs
                      \/ Sub(Config(a).url) \in Range(client[p].queue)
                                                  \cup Range(client[p].wire)
    BY DEF AllSubscribed
  <2>1. HasTopic(client[p], a)
    BY OfClient DEF SessionOK, Online, IsOnline
  <2> QED
    BY <2>1 DEF HasTopic, Range
<1> QED
  BY <1>1, ProtocolsInvariant, PTL

(* Whatever arrives in one segment or in several, and however a button's     *)
(* PUBLISH races with another device's (mqtt_tcpclient_recv,                 *)
(* protocol_received_cb, switchlamp_interrupt_cb): once nothing is on its    *)
(* way, an application shows what the broker sent it last.                   *)
THEOREM AppsShowTheLast == Spec => []Settles
<1>1. ProtocolsInv => Settles
  <2> SUFFICES ASSUME ProtocolsInv, NEW p \in Clients, NEW a \in Range(AppsOf(p)),
                      Online(p), ~ client[p].odd, told[a] # {}, Echoed(a),
                      ~ Concerns(a, client[p].queue), ~ Concerns(a, client[p].wire),
                      ~ Concerns(a, client[p].inbox)
               PROVE  /\ IsLamp(a) => told[a] = {out[a]}
                      /\ IsSwitch(a) => told[a] = {curval[a]}
    BY DEF Settles, Echoed
  <2> DEFINE c == client[p]
  <2>1. \A ms : (\E i \in DOMAIN ms : ConcernsIt(a, ms[i])) => Concerns(a, ms)
    BY DEF Concerns, ConcernsIt
  <2>2. ~ Echo(c, a)
    BY <2>1 DEF Echo, EchoInWire, EchoInQueue
  <2>3. Agrees(c, a, told[a], curval[a], out[a])
    BY <2>2, OfClient DEF ShowsOK, Online, IsOnline
  <2> QED
    BY <2>1, <2>3 DEF Agrees
<1> QED
  BY <1>1, ProtocolsInvariant, PTL

(* A protocol's status stays SENDING only while something is queued or       *)
(* unacknowledged, or after a lost message or a keep-alive (protocol_send,   *)
(* mqtt_sent_cb, MQTT_Task); and every variable keeps its type.              *)
THEOREM StatusIsRight == Spec => []StatusFollowsSession
<1>1. ProtocolsInv => TypeOK
  <2> SUFFICES ASSUME ProtocolsInv PROVE TypeOK
    OBVIOUS
  <2>1. ASSUME NEW p \in Clients
        PROVE  /\ client[p].conn \in Conns
               /\ client[p].tcp \in {"closed", "connecting", "open"}
               /\ client[p].status \in {"INIT", "CONNECTED", "SENDING"}
               /\ Len(client[p].queue) <= QueueSlots
               /\ client[p].subs \subseteq {Config(a).url : a \in Range(AppsOf(p))}
    <3>1. client[p] \in ClientRecords /\ SessionOK(p, client[p], joining)
      BY OfClient
    <3> QED
      BY <3>1 DEF ClientRecords, SessionOK, Topics
  <2>2. gpioq \in SUBSET {pair[1] : pair \in installed}
    BY DEF ProtocolsInv, ButtonsOK, Pins
  <2>3. taskq \in 0 .. Len(boot.protos) /\ curval \in [Apps -> BOOLEAN]
        /\ out \in [Apps -> BOOLEAN]
    BY DEF ProtocolsInv, Values
  <2> QED
    BY <2>1, <2>2, <2>3 DEF TypeOK
<1>2. ProtocolsInv => StatusFollowsSession
  <2> SUFFICES ASSUME ProtocolsInv, NEW p \in Clients, Online(p)
               PROVE  /\ client[p].status # "INIT"
                      /\ client[p].status = "SENDING" /\ client[p].queue = <<>>
                           /\ client[p].unacked = 0
                         => client[p].odd \/ client[p].pending = "PINGREQ"
    BY <1>1 DEF StatusFollowsSession
  <2>1. StatusOK(client[p])
    BY OfClient
  <2> QED
    BY <2>1 DEF StatusOK, Online, IsOnline
<1> QED
  BY <1>2, ProtocolsInvariant, PTL
=============================================================================
