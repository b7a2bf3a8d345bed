----------------------------- MODULE ProtoQueue -----------------------------
(* The outgoing message queue of the MQTT client: queue.c over proto.c over  *)
(* the ring buffer, with its three users in mqtt.c.  A message is framed     *)
(* 7E ... 7F, with 7D escaping the bytes 7D, 7E and 7F.  The byte loops of   *)
(* PROTO_AddRb and PROTO_ParseRb are taken one byte per step; pc says which  *)
(* loop is running, and nothing else runs until it returns.                  *)
EXTENDS Integers, Sequences, FiniteSets

CONSTANTS Size,       \* QUEUE_BUFFER_SIZE
          MaxLen,     \* MQTT_BUF_SIZE, the buffer QUEUE_Gets fills
          Messages    \* the messages the client may queue

ESC == "7D"
BEG == "7E"
END == "7F"

(* Two ordinary bytes, the three special ones and what these are escaped to. *)
Byte == {"41", "61", "5D", "5E", "5F", "7D", "7E", "7F"}

(* The bytes PROTO_AddRb escapes.                                            *)
Special == {ESC, BEG, END}

(* value ^ 0x20                                                              *)
Xor20(b) == CASE b = "41" -> "61" [] b = "61" -> "41"
              [] b = "5D" -> "7D" [] b = "7D" -> "5D"
              [] b = "5E" -> "7E" [] b = "7E" -> "5E"
              [] b = "5F" -> "7F" [] b = "7F" -> "5F"

ASSUME QueueSizeAssumption == Size \in Nat /\ Size >= 2
ASSUME MessagesAssumption == /\ MaxLen \in Nat
                             /\ Messages \subseteq Seq(Byte)
                             /\ \A m \in Messages : Len(m) <= MaxLen

VARIABLES fifo, c, rc,   \* the ring buffer, BoundedFifo
          pc,            \* the loop that is running
          user,          \* who called: "reply", "publish" or "task"
          packet, i,     \* PROTO_AddRb's message and position in it
          parser,        \* PROTO_ParseRb's PROTO_PARSER
          ret,           \* what the last MQTT_Publish or MQTT_Subscribe returned
          got,           \* the message MQTT_Task got last, <<>> before the first
          queued         \* history: the messages the queue should now hold

fifoVars == <<fifo, c, rc>>
protoVars == <<fifo, c, rc, pc, user, packet, i, parser, ret, got, queued>>

Ring == INSTANCE BoundedFifo
Abstract == INSTANCE MsgQueue

(* PROTO_Init sets every field but isBegin, which the stack leaves as it was *)
(* before: "junk" reads as either value.                                     *)
PROTO_Init == [isEsc |-> FALSE, isBegin |-> "junk", data |-> <<>>]

Parsers == [isEsc : BOOLEAN, isBegin : {"junk", "no", "yes"}, data : Seq(Byte)]

QueueTypeOK == /\ Ring!FifoTypeOK
               /\ pc \in {"idle", "begin", "payload", "escaped", "parse"}
               /\ user \in {"reply", "publish", "task"}
               /\ packet \in Seq(Byte)
               /\ i \in 1 .. Len(packet) + 1
               /\ parser \in Parsers
               /\ ret \in BOOLEAN
               /\ got \in Seq(Seq(Byte))
               /\ queued \in Seq(Seq(Byte))

QueueInit == /\ Ring!FifoInit
             /\ pc = "idle" /\ user = "task"
             /\ packet = <<>> /\ i = 1
             /\ parser = PROTO_Init
             /\ ret = TRUE
             /\ got = <<>>
             /\ queued = <<>>
----------------------------------------------------------------------------
(* QUEUE_Puts called for a reply to the broker (PUBACK, PUBREC, PUBREL, ...) *)
(* or by MQTT_Publish and MQTT_Subscribe.                                    *)
QUEUE_Puts(u, m) ==
  /\ pc = "idle"
  /\ pc' = "begin"
  /\ user' = u
  /\ packet' = m
  /\ i' = 1
  /\ UNCHANGED <<fifo, c, rc, parser, ret, got, queued>>

(* RINGBUF_Put returned -1 inside PROTO_AddRb: what was written stays in the *)
(* ring.  A reply is given up; a publish first drops the oldest message.     *)
AddRefused ==
  /\ pc' = IF user = "publish" THEN "parse" ELSE "idle"
  /\ parser' = IF user = "publish" THEN PROTO_Init ELSE parser

(* Write one byte of the frame and go on at pc next, position j.             *)
AddByte(b, next, j) ==
  /\ Ring!Put(b)
  /\ IF rc' = 0 THEN pc' = next /\ i' = j /\ UNCHANGED parser
                ELSE AddRefused /\ UNCHANGED i
  /\ UNCHANGED <<user, packet, ret, got, queued>>

AddBegin == pc = "begin" /\ AddByte(BEG, "payload", 1)

AddPlain == /\ pc = "payload" /\ i <= Len(packet)
            /\ packet[i] \notin Special
            /\ AddByte(packet[i], "payload", i + 1)

AddEscape == /\ pc = "payload" /\ i <= Len(packet)
             /\ packet[i] \in Special
             /\ AddByte(ESC, "escaped", i)

AddEscaped == pc = "escaped" /\ AddByte(Xor20(packet[i]), "payload", i + 1)

AddEnd == /\ pc = "payload" /\ i > Len(packet)
          /\ Ring!Put(END)
          /\ IF rc' = 0
             THEN /\ pc' = "idle"
                  /\ queued' = Append(queued, packet)
                  /\ ret' = (user = "publish" \/ ret)
                  /\ UNCHANGED parser
             ELSE AddRefused /\ UNCHANGED <<queued, ret>>
          /\ UNCHANGED <<user, packet, i, got>>
----------------------------------------------------------------------------
(* MQTT_Task in MQTT_DATA, with the queue not empty: QUEUE_Gets.             *)
QUEUE_Gets == /\ pc = "idle" /\ fifo # <<>>
              /\ pc' = "parse"
              /\ user' = "task"
              /\ parser' = PROTO_Init
              /\ UNCHANGED <<fifo, c, rc, packet, i, ret, got, queued>>

(* Wrong variant: 7E does not clear isEsc, so a frame cut after its 7D       *)
(* spoils the first byte of the next one.                                    *)
ParseByteKeepingEsc(p, value) ==
  CASE value = ESC -> {[p EXCEPT !.isEsc = TRUE]}
    [] value = BEG -> {[p EXCEPT !.isBegin = "yes", !.data = <<>>]}
    [] OTHER -> {[p EXCEPT !.isEsc = FALSE,
                           !.data = Append(p.data, IF p.isEsc THEN Xor20(value)
                                                              ELSE value)]}

(* PROTO_ParseByte on a byte other than 7F: the parser it may leave.         *)
PROTO_ParseByte(p, value) ==
  CASE value = ESC -> {[p EXCEPT !.isEsc = TRUE]}
    [] value = BEG -> {[isEsc |-> FALSE, isBegin |-> "yes", data |-> <<>>]}
    [] OTHER ->
       (IF p.isBegin = "yes" THEN {} ELSE {p})
       \cup
       (IF p.isBegin = "no" THEN {}
        ELSE {[p EXCEPT !.isEsc = FALSE,
                        !.data = IF Len(p.data) < MaxLen
                                 THEN Append(p.data, IF p.isEsc THEN Xor20(value)
                                                                ELSE value)
                                 ELSE p.data]})

(* PROTO_ParseRb reads a byte that does not end a message.                   *)
ParseByte == /\ pc = "parse"
             /\ Ring!Get
             /\ rc' = 0 /\ c' # END
             /\ parser' \in PROTO_ParseByte(parser, c')
             /\ UNCHANGED <<pc, user, packet, i, ret, got, queued>>

(* Wrong variant: after the oldest message is dropped the refused one goes   *)
(* on where it stopped instead of starting over.                             *)
CompleteResuming ==
  /\ pc = "parse"
  /\ Ring!Get
  /\ rc' = 0 /\ c' = END
  /\ parser' = [parser EXCEPT !.isBegin = "no"]
  /\ queued' = SubSeq(queued, 2, Len(queued))
  /\ IF user = "task"
     THEN pc' = "idle" /\ got' = <<parser.data>>
     ELSE pc' = "payload" /\ UNCHANGED got
  /\ UNCHANGED <<user, packet, i, ret>>

(* PROTO_ParseRb returns 0: MQTT_Task takes the message, MQTT_Publish throws *)
(* it away and tries its own once more.                                      *)
ParseComplete ==
  /\ pc = "parse"
  /\ Ring!Get
  /\ rc' = 0 /\ c' = END
  /\ parser' = [parser EXCEPT !.isBegin = "no"]
  /\ queued' = SubSeq(queued, 2, Len(queued))
  /\ IF user = "task"
     THEN pc' = "idle" /\ got' = <<parser.data>> /\ UNCHANGED i
     ELSE pc' = "begin" /\ i' = 1 /\ UNCHANGED got
  /\ UNCHANGED <<user, packet, ret>>

(* Wrong variant: the result of QUEUE_Gets is ignored and the put retried.   *)
ExhaustedRetrying ==
  /\ pc = "parse"
  /\ Ring!Get
  /\ rc' = -1
  /\ pc' = IF user = "publish" THEN "begin" ELSE "idle"
  /\ UNCHANGED <<user, packet, i, parser, ret, got, queued>>

(* PROTO_ParseRb returns -1, the ring is drained: MQTT_Publish gives up with *)
(* FALSE ("Serious buffer error").                                           *)
ParseExhausted ==
  /\ pc = "parse"
  /\ Ring!Get
  /\ rc' = -1
  /\ pc' = "idle"
  /\ ret' = (user # "publish" /\ ret)
  /\ UNCHANGED <<user, packet, i, parser, got, queued>>

AddRb == AddBegin \/ AddPlain \/ AddEscape \/ AddEscaped \/ AddEnd
ParseRb == ParseByte \/ ParseComplete \/ ParseExhausted

Call == \E u \in {"reply", "publish"}, m \in Messages : QUEUE_Puts(u, m)

QueueNext == Call \/ QUEUE_Gets \/ AddRb \/ ParseRb

QueueSpec == QueueInit /\ [][QueueNext]_protoVars

(* A loop that was entered goes on: it runs inside one handler.              *)
FairSpec == QueueSpec /\ WF_protoVars(AddRb \/ ParseRb)
----------------------------------------------------------------------------
(* A frame that found no room leaves its head in the ring, and PROTO_Init    *)
(* leaves isBegin uninitialised.  Both are harmless as long as reading       *)
(* always starts at a 7E: the first byte PROTO_ParseRb sees resets the       *)
(* parser, and the byte after every 7F is again a 7E.                        *)
ReadsFromFrameStart ==
  /\ (pc # "parse" \/ parser.isBegin # "yes") =>
        (fifo = <<>> \/ fifo[1] = BEG)
  /\ \A k \in 1 .. Len(fifo) - 1 : fifo[k] = END => fifo[k + 1] = BEG

(* Where the ring holds the byte that ends a frame.                          *)
Ends == {k \in 1 .. Len(fifo) : fifo[k] = END}

(* The ring holds exactly one end byte per message that is still owed to     *)
(* MQTT_Task, whatever garbage refused frames left between them; so          *)
(* QUEUE_IsEmpty never hides a message.                                      *)
OneEndPerMessage == Len(queued) = Cardinality(Ends)

(* Messages leave the queue whole, unchanged and oldest first, for           *)
(* transmission (QUEUE_Gets in MQTT_Task) or to make room (in MQTT_Publish); *)
(* no other message is lost, even when a frame is refused half written.      *)
QueueKeepsMessages == Abstract!QSpec

(* MQTT_Publish and MQTT_Subscribe return FALSE only after everything that   *)
(* was queued has been dropped, and leave an empty ring.                     *)
GivesUpOnlyWhenDrained ==
  [][ret /\ ~ret' => queued = <<>> /\ fifo' = <<>>]_protoVars

(* The loop "put, or drop the oldest and put again" of MQTT_Publish ends,    *)
(* although each failed put adds a partial frame to the ring.                *)
HandlersReturn == pc # "idle" ~> pc = "idle"
=============================================================================
