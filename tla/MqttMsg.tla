------------------------------ MODULE MqttMsg ------------------------------
(* The MQTT packets of src/apps/mqtt/mqtt_msg.c: the functions that write    *)
(* one into the connection's buffer, with the message ids they hand out, and *)
(* the functions by which mqtt_tcpclient_recv and deliver_publish of mqtt.c  *)
(* read one.                                                                 *)
(*                                                                           *)
(* A packet is a sequence of byte values.  The code's byte has 256 values;   *)
(* with fewer the places where a length or an id needs one more byte, and    *)
(* the end of the ids, come within reach.  The first byte keeps its eight    *)
(* bits.                                                                     *)
EXTENDS Integers, Sequences

CONSTANTS Base,    \* the values of a byte, 256 in the code
          Ids,     \* the values of message_id, 65536 in the code
          BufLen,  \* MQTT_BUF_SIZE
          Window,  \* ids that must not repeat: the packets that may be under way
          Users,   \* client ids, users, passwords and wills, as byte sequences
          Texts,   \* topics and payloads, as byte sequences
          Qos      \* levels the application asks for

(* A remaining length takes two bytes of seven bits at most.                 *)
ASSUME BaseAssumption == Base \in Nat /\ Base > 1
ASSUME BufAssumption == BufLen \in 3 .. (Base \div 2) * (Base \div 2) + 2
ASSUME IdsAssumption == Ids \in 2 .. Base * Base
ASSUME WindowAssumption == Window \in 0 .. Ids - 1

ASSUME TextsAssumption == /\ Users \subseteq Seq(0 .. Base - 1)
                          /\ Texts \subseteq Seq(0 .. Base - 1) /\ Qos \subseteq 0 .. 2

VARIABLES message_id,  \* of mqtt_connection_t
          given,       \* the ids of the last Window packets that asked for one
          asked,       \* what the caller asked for, <<>> before the first call
          message      \* the packet, <<>> for a message of length 0

msgVars == <<message_id, given, asked, message>>

MQTT_MAX_FIXED_HEADER_SIZE == 3

CONNECT == 1
PUBLISH == 3
PUBACK == 4
PUBREC == 5
PUBREL == 6
PUBCOMP == 7
SUBSCRIBE == 8
SUBACK == 9
UNSUBSCRIBE == 10
UNSUBACK == 11
PINGREQ == 12
PINGRESP == 13
DISCONNECT == 14
----------------------------------------------------------------------------
(* A message under construction is what follows the place of the fixed       *)
(* header; the functions below take and return a set of one, or the empty    *)
(* set once one of them has refused.                                         *)
init_message == {<<>>}

Fits(body, n) == MQTT_MAX_FIXED_HEADER_SIZE + Len(body) + n <= BufLen

TwoBytes(n) == <<n \div Base, n % Base>>

append(bodies, bytes) == {b \o bytes : b \in {x \in bodies : Fits(x, Len(bytes))}}

append_string(bodies, s) == append(bodies, TwoBytes(Len(s)) \o s)

append_message_id(bodies, id) == append(bodies, TwoBytes(id))

(* The id given to a packet that comes with none; 0 is skipped.              *)
NextId == IF message_id + 1 < Ids THEN message_id + 1 ELSE 1

HeadByte(type, qos, retain) == 16 * type + 2 * qos + retain

Half == Base \div 2

(* Wrong variant: one byte of length where it takes two.                     *)
FiniOneByteMore(bodies, type, qos, retain) ==
  IF bodies = {} THEN <<>>
  ELSE LET body == CHOOSE b \in bodies : TRUE
           n == Len(body)
       IN  <<HeadByte(type, qos, retain)>>
             \o (IF n > Half THEN <<Half + (n % Half), n \div Half>> ELSE <<n>>) \o body

(* The fixed header goes in front of what was appended; fail_message and its *)
(* length 0 where nothing was.                                               *)
fini_message(bodies, type, qos, retain) ==
  IF bodies = {} THEN <<>>
  ELSE LET body == CHOOSE b \in bodies : TRUE
           n == Len(body)
       IN  <<HeadByte(type, qos, retain)>>
             \o (IF n > Half - 1 THEN <<Half + (n % Half), n \div Half>> ELSE <<n>>) \o body
----------------------------------------------------------------------------
(* The caller's wish, with 0 and <<>> for what the packet does not carry.    *)
Wish(type, topic, data, qos, retain, id) ==
  [type |-> type, topic |-> topic, data |-> data, qos |-> qos, retain |-> retain,
   id |-> id]

Remembered(id) ==
  IF Len(given) < Window THEN Append(given, id)
  ELSE IF Window = 0 THEN <<>> ELSE Append(Tail(given), id)

GivesId == message_id' = NextId /\ given' = Remembered(NextId)
KeepsIds == UNCHANGED <<message_id, given>>

MsgInit == message_id = 0 /\ given = <<>> /\ asked = <<>> /\ message = <<>>

(* Wrong variant: the memset covers the whole structure.                     *)
InitClearing == /\ asked' = <<>> /\ message' = <<>>
                /\ message_id' = 0 /\ UNCHANGED given

(* The memset of mqtt_msg_init covers as many bytes as a pointer has: it     *)
(* clears message.data and leaves message_id, so a reconnect goes on         *)
(* counting.                                                                 *)
mqtt_msg_init == asked' = <<>> /\ message' = <<>> /\ KeepsIds

(* The variable header of CONNECT: name and version of the protocol, the     *)
(* flags and the keep-alive time, twelve bytes for version 3.1.              *)
ConnectHeader(flags) ==
  TwoBytes(6) \o <<77, 81, 73, 115, 100, 112, 3, flags>> \o TwoBytes(1)

(* The client id is a must; topic and message of the will, user and password *)
(* follow when they are not empty, each with its flag.                       *)
mqtt_msg_connect(client, topic, text, qos, retain, user, password, clean) ==
  LET Optional(bodies, s) == IF s = <<>> THEN bodies ELSE append_string(bodies, s)
      WithWill(bodies) == IF topic = <<>> THEN bodies
                          ELSE append_string(append_string(bodies, topic), text)
      flags == (IF clean THEN 2 ELSE 0)
                 + (IF topic = <<>> THEN 0 ELSE 4 + 8 * qos + 32 * retain)
                 + (IF user = <<>> THEN 0 ELSE 128) + (IF password = <<>> THEN 0 ELSE 64)
      start == IF client = <<>> THEN {}
               ELSE append_string(append(init_message, ConnectHeader(flags)), client)
  IN  /\ message' = fini_message(Optional(Optional(WithWill(start), user), password),
                                 CONNECT, 0, 0)
      /\ asked' = [type |-> CONNECT, qos |-> 0, retain |-> 0, client |-> client,
                   topic |-> topic, text |-> text, user |-> user,
                   password |-> password]
      /\ KeepsIds

mqtt_msg_publish(topic, data, qos, retain) ==
  LET named == IF topic = <<>> THEN {} ELSE append_string(init_message, topic)
      numbered == IF qos > 0 THEN append_message_id(named, NextId) ELSE named
  IN  /\ message' = fini_message(append(numbered, data), PUBLISH, qos, retain)
      /\ IF qos > 0 /\ named # {} THEN GivesId ELSE KeepsIds
      /\ asked' = Wish(PUBLISH, topic, data, qos, retain, IF qos > 0 THEN NextId ELSE 0)

(* mqtt_msg_puback, pubrec, pubrel and pubcomp: the id is the one of the     *)
(* packet they answer, or a new one for 0.                                   *)
Acknowledge(type, id) ==
  LET own == IF id = 0 THEN NextId ELSE id
  IN  /\ message' = fini_message(append_message_id(init_message, own), type,
                                 IF type = PUBREL THEN 1 ELSE 0, 0)
      /\ IF id = 0 THEN GivesId ELSE KeepsIds
      /\ asked' = Wish(type, <<>>, <<>>, IF type = PUBREL THEN 1 ELSE 0, 0, own)

mqtt_msg_subscribe(topic, qos) ==
  LET numbered == IF topic = <<>> THEN {} ELSE append_message_id(init_message, NextId)
  IN  /\ message' = fini_message(append(append_string(numbered, topic), <<qos>>),
                                 SUBSCRIBE, 1, 0)
      /\ IF topic = <<>> THEN KeepsIds ELSE GivesId
      /\ asked' = Wish(SUBSCRIBE, topic, <<>>, 1, 0, NextId)

mqtt_msg_unsubscribe(topic) ==
  LET numbered == IF topic = <<>> THEN {} ELSE append_message_id(init_message, NextId)
  IN  /\ message' = fini_message(append_string(numbered, topic), UNSUBSCRIBE, 1, 0)
      /\ IF topic = <<>> THEN KeepsIds ELSE GivesId
      /\ asked' = Wish(UNSUBSCRIBE, topic, <<>>, 1, 0, NextId)

(* mqtt_msg_pingreq, pingresp and disconnect.                                *)
Bare(type) == /\ message' = fini_message(init_message, type, 0, 0)
              /\ asked' = Wish(type, <<>>, <<>>, 0, 0, 0)
              /\ KeepsIds

MsgNext ==
  \/ mqtt_msg_init
  \/ \E client, topic, text, user, password \in Users, clean \in BOOLEAN, qos \in Qos :
       mqtt_msg_connect(client, topic, text, qos, qos % 2, user, password, clean)
  \/ \E topic, data \in Texts, qos \in Qos, retain \in 0 .. 1 :
       mqtt_msg_publish(topic, data, qos, retain)
  \/ \E type \in {PUBACK, PUBREC, PUBREL, PUBCOMP}, id \in {0, 1, Ids - 1} :
       Acknowledge(type, id)
  \/ \E topic \in Texts, qos \in Qos : mqtt_msg_subscribe(topic, qos)
  \/ \E topic \in Texts : mqtt_msg_unsubscribe(topic)
  \/ \E type \in {PINGREQ, PINGRESP, DISCONNECT} : Bare(type)

MsgSpec == MsgInit /\ [][MsgNext]_msgVars
----------------------------------------------------------------------------
(* Reading: the bytes a segment brought, places counted from 0 as in the     *)
(* code.                                                                     *)
At(buffer, i) == buffer[i + 1]

mqtt_get_type(buffer) == At(buffer, 0) \div 16
mqtt_get_qos(buffer) == (At(buffer, 0) \div 2) % 4
mqtt_get_retain(buffer) == At(buffer, 0) % 2

(* Behind the fixed header: the first byte after one without the             *)
(* continuation bit, or the end.                                             *)
AfterLength(buffer) ==
  LET last == {i \in 1 .. Len(buffer) - 1 : At(buffer, i) < Half}
  IN  IF last = {} THEN Len(buffer) ELSE 1 + CHOOSE i \in last : \A j \in last : i <= j

RemainingLength(buffer) ==
  LET digit(i) == IF i < AfterLength(buffer) THEN At(buffer, i) % Half ELSE 0
  IN  digit(1) + digit(2) * Half

mqtt_get_total_length(buffer) == RemainingLength(buffer) + AfterLength(buffer)

Assembled(buffer, i) == At(buffer, i) * Base + At(buffer, i + 1)

(* The part of the buffer from place i on, n bytes of it.                    *)
Bytes(buffer, i, n) == SubSeq(buffer, i + 1, i + n)

(* Where the topic starts and how long it is said to be; {} when the bytes   *)
(* of its length did not all come.                                           *)
TopicOf(buffer) ==
  LET i == AfterLength(buffer)
  IN  IF i + 2 >= Len(buffer) THEN {} ELSE {[at |-> i + 2, length |-> Assembled(buffer, i)]}

(* A text found is in a set of one, a NULL is the empty set.                 *)
mqtt_get_publish_topic(buffer) ==
  {Bytes(buffer, t.at, t.length) :
     t \in {x \in TopicOf(buffer) : x.at + x.length <= Len(buffer)}}

(* Where the bytes behind the topic start; they need one byte at least.      *)
BehindTopic(buffer) ==
  {t.at + t.length : t \in {x \in TopicOf(buffer) : x.at + x.length < Len(buffer)}}

BehindId(buffer) ==
  IF mqtt_get_qos(buffer) = 0 THEN BehindTopic(buffer)
  ELSE {i + 2 : i \in {x \in BehindTopic(buffer) : x + 2 < Len(buffer)}}

(* As much of the data as the buffer holds.                                  *)
mqtt_get_publish_data(buffer) ==
  LET total == mqtt_get_total_length(buffer)
  IN  {Bytes(buffer, i, (IF total <= Len(buffer) THEN total ELSE Len(buffer)) - i) :
         i \in {x \in BehindId(buffer) : total >= x}}

(* The id of a PUBLISH needs a byte of data behind it.                       *)
PublishId(buffer) ==
  IF mqtt_get_qos(buffer) = 0 \/ BehindId(buffer) = {} THEN 0
  ELSE Assembled(buffer, (CHOOSE i \in BehindId(buffer) : TRUE) - 2)

mqtt_get_id(buffer) ==
  CASE mqtt_get_type(buffer) = PUBLISH -> PublishId(buffer)
    [] /\ mqtt_get_type(buffer) \in {PUBACK, PUBREC, PUBREL, PUBCOMP, SUBSCRIBE, SUBACK,
                                    UNSUBACK}
       /\ Len(buffer) >= 4 /\ At(buffer, 1) < Half -> Assembled(buffer, 2)
    [] OTHER -> 0
----------------------------------------------------------------------------
(* Every id is one the protocol allows, and none comes twice among the last  *)
(* Window of them, also across the end of the ids and across reconnects,     *)
(* where the packets still in msgQueue keep the ids they were given.         *)
FreshIds ==
  /\ \A i \in DOMAIN given : given[i] \in 1 .. Ids - 1
  /\ \A i, j \in DOMAIN given : i # j => given[i] # given[j]

(* The reading of a CONNECT the protocol prescribes: texts follow the        *)
(* header, and its flags say which.  Reading one of them takes the texts     *)
(* read so far and the place behind them.                                    *)
Flag(body, flag) == (body[10] \div flag) % 2

ReadText(body, read) ==
  LET n == Assembled(body, read.at)
  IN  [at |-> read.at + 2 + n, texts |-> Append(read.texts, Bytes(body, read.at + 2, n))]

ReadIf(body, flag, read) == IF Flag(body, flag) = 1 THEN ReadText(body, read) ELSE read

ConnectRead(body) ==
  LET client == ReadText(body, [at |-> 12, texts |-> <<>>])
      will == ReadIf(body, 4, ReadIf(body, 4, client))
  IN  ReadIf(body, 64, ReadIf(body, 128, will))

(* The texts the caller gave, those not empty; a will has two.               *)
Given(s) == IF s = <<>> THEN <<>> ELSE <<s>>

ConnectReadable ==
  LET body == SubSeq(message, AfterLength(message) + 1, Len(message))
      will == IF asked.topic = <<>> THEN <<>> ELSE <<asked.topic, asked.text>>
      texts == <<asked.client>> \o will \o Given(asked.user) \o Given(asked.password)
  IN  /\ ConnectRead(body) = [at |-> Len(body), texts |-> texts]
      /\ Flag(body, 4) = 1 <=> asked.topic # <<>>
      /\ Flag(body, 128) = 1 <=> asked.user # <<>>
      /\ Flag(body, 64) = 1 <=> asked.password # <<>>

Cut(n) == SubSeq(message, 1, n)

(* The text read is the whole of s, or nothing was read.                     *)
WholeOf(read, s) == \A r \in read : r = s
StartOf(read, s) == \A r \in read : Len(r) <= Len(s) /\ r = SubSeq(s, 1, Len(r))

(* A packet is written in full when it fits into the buffer and not at all   *)
(* otherwise; read back, it is what was asked for, and after any cut of it   *)
(* by the end of a segment the parts read are parts of what was asked for.   *)
(* A PUBLISH without data is read back without its id.                       *)
ReadsWhatItWrites ==
  message # <<>> =>
    /\ Len(message) <= BufLen
    /\ mqtt_get_type(message) = asked.type /\ mqtt_get_qos(message) = asked.qos
    /\ mqtt_get_retain(message) = asked.retain
    /\ mqtt_get_total_length(message) = Len(message)
    /\ asked.type = CONNECT => ConnectReadable
    /\ asked.type = PUBLISH =>
         /\ asked.data # <<>> => /\ mqtt_get_id(message) = asked.id
                                 /\ mqtt_get_publish_topic(message) = {asked.topic}
                                 /\ mqtt_get_publish_data(message) = {asked.data}
         /\ \A n \in 1 .. Len(message) :
              /\ mqtt_get_id(Cut(n)) \in {0, asked.id}
              /\ WholeOf(mqtt_get_publish_topic(Cut(n)), asked.topic)
              /\ StartOf(mqtt_get_publish_data(Cut(n)), asked.data)
    /\ (asked.type \in {PUBACK, PUBREC, PUBREL, PUBCOMP, SUBSCRIBE}
          /\ At(message, 1) < Half) => mqtt_get_id(message) = asked.id
=============================================================================
