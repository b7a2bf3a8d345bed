----------------------------- MODULE Mqtt_proofs -----------------------------
(* Proofs about the MQTT client: its queue, its life and its packets.        *)
(*                                                                           *)
(* ProtoQueue, for every ring size and every set of messages: reading always *)
(* starts at a frame, the ring holds one end byte per queued message, the    *)
(* publish calls fail only with a drained ring, and the whole implements     *)
(* MsgQueue, which is how MqttClient sees it.                                *)
(*                                                                           *)
(* MqttClient, for all timeouts, queue sizes and packet types: connState     *)
(* agrees with the connection, no wakeup of MQTT_Task is lost, and only      *)
(* CONNECT goes out before CONNACK.                                          *)
(*                                                                           *)
(* MqttMsg, for every size of byte, buffer and id: the message ids do not    *)
(* repeat within a window smaller than their number, and every packet        *)
(* written is read back.                                                     *)
EXTENDS MqttMsg, ProtoQueue, MqttClient, FiniteSetTheorems, FunctionTheorems,
        SequenceTheorems, TLAPS

(* While a frame is being written the last byte of the ring belongs to it    *)
(* and is not an end byte; an escape is only pending for a special byte.     *)
Writing ==
  /\ pc \in {"payload", "escaped"} => fifo # <<>> /\ fifo[Len(fifo)] # END
  /\ pc = "escaped" => i \in 1 .. Len(packet) /\ packet[i] \in Special
  /\ user = "reply" => pc # "parse"
  /\ user = "task" => pc \in {"idle", "parse"}

QueueInv == QueueTypeOK /\ ReadsFromFrameStart /\ Writing /\ OneEndPerMessage

----------------------------------------------------------------------------
(* x ^ 0x20 stays in the byte set, and what a special byte is escaped to is  *)
(* no longer special.                                                        *)
LEMMA XorFacts ==
  /\ \A b \in Byte : Xor20(b) \in Byte
  /\ \A b \in Special : Xor20(b) \notin Special
BY DEF Xor20, Byte, Special, ESC, BEG, END

(* What PROTO_ParseByte leaves is a parser, and one that has seen a 7E keeps *)
(* collecting.                                                               *)
LEMMA ParseByteFacts ==
  ASSUME NEW p \in Parsers, NEW v \in Byte,
         NEW q \in PROTO_ParseByte(p, v)
  PROVE  /\ q \in Parsers
         /\ p.isBegin = "yes" \/ v = BEG => q.isBegin = "yes"
<1>0. ESC # BEG BY DEF ESC, BEG
<1>1. CASE v = ESC
  <2>1. q = [p EXCEPT !.isEsc = TRUE] BY <1>0, <1>1 DEF PROTO_ParseByte
  <2> QED BY <1>0, <1>1, <2>1 DEF Parsers
<1>2. CASE v = BEG
  <2>1. q = [isEsc |-> FALSE, isBegin |-> "yes", data |-> <<>>]
    BY <1>0, <1>2 DEF PROTO_ParseByte
  <2> QED BY <2>1 DEF Parsers
<1>3. CASE v # ESC /\ v # BEG
  <2> DEFINE w == IF p.isEsc THEN Xor20(v) ELSE v
             d == IF Len(p.data) < MaxLen THEN Append(p.data, w) ELSE p.data
             r == [p EXCEPT !.isEsc = FALSE, !.data = d]
  <2>0. PROTO_ParseByte(p, v) = (IF p.isBegin = "yes" THEN {} ELSE {p}) \cup
                                (IF p.isBegin = "no" THEN {} ELSE {r})
    BY <1>3 DEF PROTO_ParseByte
  <2>1. \/ q = p /\ p.isBegin # "yes"
        \/ q = r
    <3> HIDE DEF r
    <3> QED BY <2>0
  <2>2. p.data \in Seq(Byte) BY DEF Parsers
  <2>3. w \in Byte BY XorFacts
  <2>4. d \in Seq(Byte) BY <2>2, <2>3
  <2> HIDE DEF w, d
  <2> QED BY <1>3, <2>1, <2>4 DEF Parsers
<1> QED BY <1>1, <1>2, <1>3

(* Appending an end byte adds one to the end bytes, appending another byte   *)
(* adds none.                                                                *)
LEMMA EndsAppend ==
  ASSUME NEW f \in Seq(Byte), NEW b \in Byte,
         NEW E, E = {k \in 1 .. Len(f) : f[k] = END},
         NEW F, F = {k \in 1 .. Len(Append(f, b)) : Append(f, b)[k] = END}
  PROVE  /\ IsFiniteSet(E) /\ IsFiniteSet(F)
         /\ Cardinality(F) = IF b = END THEN Cardinality(E) + 1
                                        ELSE Cardinality(E)
<1>1. IsFiniteSet(1 .. Len(f))
  BY FS_Interval
<1>2. IsFiniteSet(E)
  BY <1>1, FS_Subset
<1>3. CASE b = END
  <2> DEFINE x == Len(f) + 1
  <2>1. F = E \cup {x} BY <1>3
  <2>2. x \notin E OBVIOUS
  <2> HIDE DEF x
  <2>3. /\ IsFiniteSet(E \cup {x})
        /\ Cardinality(E \cup {x}) =
             IF x \in E THEN Cardinality(E) ELSE Cardinality(E) + 1
    BY ONLY <1>2, FS_AddElement, Zenon
  <2>4. IsFiniteSet(F) /\ Cardinality(F) = Cardinality(E) + 1
    BY <2>1, <2>2, <2>3
  <2> QED BY <1>2, <1>3, <2>4
<1>4. CASE b # END
  <2>1. F = E BY <1>4
  <2> QED BY <1>2, <1>4, <2>1
<1> QED BY <1>3, <1>4

(* Removing the head removes one end byte if it was one, and none otherwise. *)
LEMMA EndsTail ==
  ASSUME NEW f \in Seq(Byte), f # <<>>,
         NEW E, E = {k \in 1 .. Len(f) : f[k] = END},
         NEW F, F = {k \in 1 .. Len(Tail(f)) : Tail(f)[k] = END}
  PROVE  /\ IsFiniteSet(E) /\ IsFiniteSet(F)
         /\ Cardinality(E) \in Nat
         /\ Cardinality(F) = IF Head(f) = END THEN Cardinality(E) - 1
                                              ELSE Cardinality(E)
<1> DEFINE G == E \ {1}
           shift == [k \in G |-> k - 1]
<1>1. IsFiniteSet(1 .. Len(f)) /\ IsFiniteSet(1 .. Len(Tail(f)))
  BY FS_Interval
<1>2. IsFiniteSet(E) /\ IsFiniteSet(F)
  BY <1>1, FS_Subset
<1>3. IsFiniteSet(G) /\ Cardinality(G) = IF 1 \in E THEN Cardinality(E) - 1
                                                    ELSE Cardinality(E)
  BY <1>2, FS_RemoveElement
<1>4. 1 \in E <=> Head(f) = END
  OBVIOUS
<1>5. Cardinality(F) = Cardinality(G)
  <2>1. /\ Tail(f) \in Seq(Byte) /\ Len(Tail(f)) = Len(f) - 1
        /\ \A k \in 1 .. Len(f) - 1 : Tail(f)[k] = f[k + 1]
    OBVIOUS
  <2>2. shift \in Bijection(G, F)
    <3>1. \A k \in G : k \in 2 .. Len(f) /\ f[k] = END OBVIOUS
    <3>2. \A k \in G : k - 1 \in F BY <2>1, <3>1
    <3>3. \A k \in F : k + 1 \in G /\ shift[k + 1] = k BY <2>1
    <3>4. shift \in [G -> F] BY <3>2
    <3>5. \A k, l \in G : shift[k] = shift[l] => k = l BY <3>1
    <3> HIDE DEF G, shift
    <3>6. \A y \in F : \E x \in G : shift[x] = y BY <3>3
    <3> QED BY <3>4, <3>5, <3>6, Fun_IsBij
  <2> HIDE DEF G, shift
  <2>3. ExistsBijection(G, F) BY <2>2 DEF ExistsBijection
  <2> QED BY <1>3, <2>3, FS_Bijection
<1>6. Cardinality(E) \in Nat BY <1>2, FS_CardinalityType
<1> HIDE DEF G
<1> QED BY <1>2, <1>3, <1>4, <1>5, <1>6
----------------------------------------------------------------------------
(* The empty queue satisfies the invariant.                                  *)
LEMMA QueueInvInit == QueueInit => QueueInv
<1> SUFFICES ASSUME QueueInit PROVE QueueInv
  OBVIOUS
<1> USE QueueSizeAssumption
<1>1. QueueTypeOK
  BY DEF QueueInit, QueueTypeOK, Ring!FifoInit, Ring!FifoTypeOK, PROTO_Init, Parsers
<1>2. ReadsFromFrameStart /\ Writing
  BY DEF QueueInit, Ring!FifoInit, ReadsFromFrameStart, Writing
<1>3. OneEndPerMessage
  <2>1. Ends = {} BY DEF QueueInit, Ring!FifoInit, Ends
  <2> QED BY <2>1, FS_EmptySet DEF QueueInit, OneEndPerMessage
<1> QED BY <1>1, <1>2, <1>3 DEF QueueInv

(* A byte of a frame, other than its last one, keeps the invariant.          *)
LEMMA AddByteInv ==
  ASSUME QueueInv,
         NEW b \in Byte \ {END}, NEW next \in {"payload", "escaped"},
         NEW j \in 1 .. Len(packet) + 1,
         pc \in {"begin", "payload", "escaped"},
         b = BEG <=> pc = "begin",
         next = "escaped" => j <= Len(packet) /\ packet[j] \in Special,
         AddByte(b, next, j)
  PROVE  QueueInv'
<1> USE QueueSizeAssumption
<1>1. CASE Len(fifo) >= Size
  <2>1. /\ rc' = -1 /\ fifo' = fifo /\ c' = c /\ i' = i
        /\ pc' = (IF user = "publish" THEN "parse" ELSE "idle")
        /\ parser' = (IF user = "publish" THEN PROTO_Init ELSE parser)
        /\ UNCHANGED <<user, packet, ret, got, queued>>
    BY <1>1 DEF AddByte, AddRefused, Ring!Put, QueueInv, QueueTypeOK, Ring!FifoTypeOK
  <2>2. QueueTypeOK'
    BY <2>1 DEF QueueInv, QueueTypeOK, Ring!FifoTypeOK, PROTO_Init, Parsers
  <2>3. ReadsFromFrameStart'
    BY <2>1 DEF QueueInv, ReadsFromFrameStart
  <2>4. Writing'
    BY <2>1 DEF QueueInv, Writing, QueueTypeOK
  <2>5. OneEndPerMessage'
    BY <2>1 DEF QueueInv, OneEndPerMessage, Ends
  <2> QED BY <2>2, <2>3, <2>4, <2>5 DEF QueueInv
<1>2. CASE Len(fifo) < Size
  <2>1. /\ rc' = 0 /\ fifo' = Append(fifo, b) /\ c' = c
        /\ pc' = next /\ i' = j
        /\ UNCHANGED <<parser, user, packet, ret, got, queued>>
    BY <1>2 DEF AddByte, Ring!Put, QueueInv, QueueTypeOK, Ring!FifoTypeOK
  <2>2. QueueTypeOK'
    BY <1>2, <2>1 DEF QueueInv, QueueTypeOK, Ring!FifoTypeOK
  <2>3. fifo \in Seq(Byte) BY DEF QueueInv, QueueTypeOK, Ring!FifoTypeOK
  <2>4. ReadsFromFrameStart'
    BY <2>1, <2>3 DEF QueueInv, ReadsFromFrameStart, Writing
  <2>5. Writing'
    <3>1. fifo' # <<>> /\ fifo'[Len(fifo')] # END BY <2>1, <2>3
    <3> QED BY <2>1, <3>1 DEF QueueInv, Writing
  <2>6. OneEndPerMessage'
    <3>1. Cardinality(Ends') = Cardinality(Ends)
      BY <2>1, <2>3, EndsAppend DEF Ends
    <3> QED BY <2>1, <3>1 DEF QueueInv, OneEndPerMessage
  <2> QED BY <2>2, <2>4, <2>5, <2>6 DEF QueueInv
<1> QED BY <1>1, <1>2 DEF QueueInv, QueueTypeOK, Ring!FifoTypeOK

(* PROTO_AddRb, byte by byte, keeps the invariant.                           *)
LEMMA AddRbInv == ASSUME QueueInv, AddRb PROVE QueueInv'
<1> USE QueueSizeAssumption
<1>0. /\ packet \in Seq(Byte) /\ i \in 1 .. Len(packet) + 1
      /\ fifo \in Seq(Byte)
  BY DEF QueueInv, QueueTypeOK, Ring!FifoTypeOK
<1>1. CASE AddBegin
  <2>1. BEG \in Byte \ {END} BY DEF BEG, END, Byte
  <2>2. 1 \in 1 .. Len(packet) + 1 BY <1>0
  <2> QED BY <1>1, <2>1, <2>2, AddByteInv DEF AddBegin
<1>2. CASE AddPlain
  <2>1. packet[i] \in Byte \ {END} /\ packet[i] # BEG
    BY <1>0, <1>2 DEF AddPlain, Special
  <2>2. i + 1 \in 1 .. Len(packet) + 1 BY <1>0, <1>2 DEF AddPlain
  <2> QED BY <1>2, <2>1, <2>2, AddByteInv DEF AddPlain
<1>3. CASE AddEscape
  <2>1. ESC \in Byte \ {END} /\ ESC # BEG BY DEF ESC, BEG, END, Byte
  <2> QED BY <1>0, <1>3, <2>1, AddByteInv DEF AddEscape
<1>4. CASE AddEscaped
  <2>1. i \in 1 .. Len(packet) /\ packet[i] \in Special
    BY <1>4 DEF AddEscaped, QueueInv, Writing
  <2>2. Xor20(packet[i]) \in Byte \ {END} /\ Xor20(packet[i]) # BEG
    BY <1>0, <2>1, XorFacts DEF Special
  <2>3. i + 1 \in 1 .. Len(packet) + 1 BY <1>0, <2>1
  <2> QED BY <1>4, <2>2, <2>3, AddByteInv DEF AddEscaped
<1>5. CASE AddEnd
  <2>1. CASE Len(fifo) >= Size
    <3>1. /\ rc' = -1 /\ fifo' = fifo /\ c' = c /\ i' = i
          /\ pc' = (IF user = "publish" THEN "parse" ELSE "idle")
          /\ parser' = (IF user = "publish" THEN PROTO_Init ELSE parser)
          /\ UNCHANGED <<user, packet, ret, got, queued>>
      BY <1>5, <2>1 DEF AddEnd, AddRefused, Ring!Put, QueueInv, QueueTypeOK,
                        Ring!FifoTypeOK
    <3>2. QueueTypeOK'
      BY <3>1 DEF QueueInv, QueueTypeOK, Ring!FifoTypeOK, PROTO_Init, Parsers
    <3>3. ReadsFromFrameStart'
      BY <1>5, <3>1 DEF QueueInv, ReadsFromFrameStart, AddEnd
    <3>4. Writing'
      BY <1>5, <3>1 DEF QueueInv, Writing, QueueTypeOK, AddEnd
    <3>5. OneEndPerMessage'
      BY <3>1 DEF QueueInv, OneEndPerMessage, Ends
    <3> QED BY <3>2, <3>3, <3>4, <3>5 DEF QueueInv
  <2>2. CASE Len(fifo) < Size
    <3>1. /\ rc' = 0 /\ fifo' = Append(fifo, END) /\ c' = c
          /\ pc' = "idle"
          /\ queued' = Append(queued, packet)
          /\ ret' = (user = "publish" \/ ret)
          /\ UNCHANGED <<parser, user, packet, i, got>>
      BY <1>5, <2>2 DEF AddEnd, Ring!Put, QueueInv, QueueTypeOK, Ring!FifoTypeOK
    <3>2. END \in Byte BY DEF END, Byte
    <3>3. QueueTypeOK'
      BY <1>0, <2>2, <3>1, <3>2 DEF QueueInv, QueueTypeOK, Ring!FifoTypeOK
    <3>4. ReadsFromFrameStart'
      BY <1>0, <1>5, <3>1 DEF QueueInv, ReadsFromFrameStart, Writing, AddEnd
    <3>5. Writing'
      BY <1>5, <3>1 DEF QueueInv, Writing, AddEnd
    <3>6. OneEndPerMessage'
      <4>1. Cardinality(Ends') = Cardinality(Ends) + 1
        BY <1>0, <3>1, <3>2, EndsAppend DEF Ends
      <4>2. queued \in Seq(Seq(Byte)) BY DEF QueueInv, QueueTypeOK
      <4>3. Len(queued') = Len(queued) + 1 BY <1>0, <3>1, <4>2
      <4> QED BY <4>1, <4>3 DEF QueueInv, OneEndPerMessage
    <3> QED BY <3>3, <3>4, <3>5, <3>6 DEF QueueInv
  <2> QED BY <2>1, <2>2, <1>0
<1> QED BY <1>1, <1>2, <1>3, <1>4, <1>5 DEF AddRb

(* PROTO_ParseRb, byte by byte, keeps the invariant.                         *)
LEMMA ParseRbInv == ASSUME QueueInv, ParseRb PROVE QueueInv'
<1> USE QueueSizeAssumption
<1>0. /\ fifo \in Seq(Byte) /\ Len(fifo) <= Size
      /\ queued \in Seq(Seq(Byte)) /\ parser \in Parsers
      /\ pc = "parse" /\ user # "reply"
  BY DEF QueueInv, QueueTypeOK, Ring!FifoTypeOK, Writing, ParseRb, ParseByte,
         ParseComplete, ParseExhausted
<1>1. CASE ParseExhausted
  <2>1. /\ fifo = <<>> /\ fifo' = fifo /\ c' = c /\ rc' = -1
        /\ pc' = "idle" /\ ret' \in BOOLEAN
        /\ UNCHANGED <<user, packet, i, parser, got, queued>>
    BY <1>1 DEF ParseExhausted, Ring!Get, QueueInv, QueueTypeOK
  <2>2. QueueTypeOK' BY <2>1 DEF QueueInv, QueueTypeOK, Ring!FifoTypeOK
  <2>3. ReadsFromFrameStart' BY <2>1 DEF QueueInv, ReadsFromFrameStart
  <2>4. Writing' BY <2>1 DEF QueueInv, Writing
  <2>5. OneEndPerMessage' BY <2>1 DEF QueueInv, OneEndPerMessage, Ends
  <2> QED BY <2>2, <2>3, <2>4, <2>5 DEF QueueInv
<1>2. ASSUME ParseByte \/ ParseComplete
      PROVE  /\ fifo # <<>> /\ c' = Head(fifo) /\ fifo' = Tail(fifo) /\ rc' = 0
             /\ c' \in Byte /\ fifo' \in Seq(Byte) /\ Len(fifo') <= Size
             /\ \A k \in 1 .. Len(fifo') - 1 :
                    fifo'[k] = END => fifo'[k + 1] = BEG
             /\ Head(fifo) = END => fifo' = <<>> \/ fifo'[1] = BEG
             /\ Cardinality(Ends') = IF Head(fifo) = END
                                     THEN Cardinality(Ends) - 1
                                     ELSE Cardinality(Ends)
             /\ Cardinality(Ends) \in Nat
  <2>1. fifo # <<>> /\ c' = Head(fifo) /\ fifo' = Tail(fifo) /\ rc' = 0
    BY <1>2 DEF ParseByte, ParseComplete, Ring!Get
  <2>2. /\ fifo' \in Seq(Byte) /\ Len(fifo') = Len(fifo) - 1 /\ c' \in Byte
        /\ \A k \in 1 .. Len(fifo) - 1 : fifo'[k] = fifo[k + 1]
    BY <1>0, <2>1
  <2>3. \A k \in 1 .. Len(fifo) - 1 : fifo[k] = END => fifo[k + 1] = BEG
    BY DEF QueueInv, ReadsFromFrameStart
  <2>4. \A k \in 1 .. Len(fifo') - 1 : fifo'[k] = END => fifo'[k + 1] = BEG
    <3> SUFFICES ASSUME NEW k \in 1 .. Len(fifo') - 1, fifo'[k] = END
                 PROVE  fifo'[k + 1] = BEG
      OBVIOUS
    <3>1. /\ k \in 1 .. Len(fifo) - 1 /\ k + 1 \in 1 .. Len(fifo) - 1
          /\ Len(fifo) \in Nat
      BY <1>0, <2>2
    <3>2. fifo[k + 1] = END BY <2>2, <3>1
    <3>3. fifo[k + 1 + 1] = BEG BY <2>3, <3>1, <3>2
    <3> QED BY <2>2, <3>1, <3>3
  <2>5. Head(fifo) = END => fifo' = <<>> \/ fifo'[1] = BEG
    BY <1>0, <2>1, <2>2, <2>3
  <2>6. /\ Cardinality(Ends) \in Nat
        /\ Cardinality(Ends') = IF Head(fifo) = END THEN Cardinality(Ends) - 1
                                                    ELSE Cardinality(Ends)
    BY <1>0, <2>1, EndsTail DEF Ends
  <2> QED BY <1>0, <2>1, <2>2, <2>4, <2>5, <2>6
<1>3. CASE ParseByte
  <2>1. /\ c' = Head(fifo) /\ c' # END
        /\ parser' \in PROTO_ParseByte(parser, c')
        /\ UNCHANGED <<pc, user, packet, i, ret, got, queued>>
    BY <1>2, <1>3 DEF ParseByte
  <2>2. parser' \in Parsers
    BY <1>0, <1>2, <1>3, <2>1, ParseByteFacts
  <2>3. parser'.isBegin = "yes"
    <3>1. parser.isBegin = "yes" \/ c' = BEG
      BY <1>0, <1>2, <1>3 DEF QueueInv, ReadsFromFrameStart
    <3> QED BY <1>0, <1>2, <1>3, <2>1, <3>1, ParseByteFacts
  <2>4. QueueTypeOK'
    BY <1>2, <1>3, <2>1, <2>2 DEF QueueInv, QueueTypeOK, Ring!FifoTypeOK
  <2>5. ReadsFromFrameStart'
    BY <1>0, <1>2, <1>3, <2>1, <2>3 DEF ReadsFromFrameStart
  <2>6. Writing'
    BY <1>0, <2>1 DEF QueueInv, Writing
  <2>7. OneEndPerMessage'
    BY <1>2, <1>3, <2>1 DEF QueueInv, OneEndPerMessage
  <2> QED BY <2>4, <2>5, <2>6, <2>7 DEF QueueInv
<1>4. CASE ParseComplete
  <2>1. /\ c' = Head(fifo) /\ c' = END
        /\ parser' = [parser EXCEPT !.isBegin = "no"]
        /\ queued' = SubSeq(queued, 2, Len(queued))
        /\ \/ pc' = "idle" /\ got' = <<parser.data>> /\ i' = i /\ user = "task"
           \/ pc' = "begin" /\ i' = 1 /\ got' = got /\ user # "task"
        /\ UNCHANGED <<user, packet, ret>>
    BY <1>2, <1>4 DEF ParseComplete
  <2>2. Len(queued) # 0
    <3>1. 1 \in Ends BY <1>0, <1>2, <1>4, <2>1 DEF Ends
    <3>2. IsFiniteSet(Ends)
      <4>1. IsFiniteSet(1 .. Len(fifo)) BY <1>0, FS_Interval
      <4> QED BY <4>1, FS_Subset DEF Ends
    <3>3. Cardinality(Ends) # 0 BY <3>1, <3>2, FS_EmptySet
    <3> QED BY <3>3 DEF QueueInv, OneEndPerMessage
  <2>3. /\ queued' \in Seq(Seq(Byte))
        /\ Len(queued') = Len(queued) - 1
    <3>1. queued # <<>> BY <2>2
    <3>2. queued' = Tail(queued) BY <1>0, <2>1, <3>1, TailIsSubSeq
    <3> QED BY <1>0, <3>1, <3>2
  <2>4. QueueTypeOK'
    <3>1. parser' \in Parsers BY <1>0, <2>1 DEF Parsers
    <3>2. parser.data \in Seq(Byte) BY <1>0 DEF Parsers
    <3>3. got' \in Seq(Seq(Byte))
      <4>1. <<parser.data>> \in Seq(Seq(Byte)) BY <3>2
      <4> QED BY <2>1, <4>1 DEF QueueInv, QueueTypeOK
    <3>4. i' \in 1 .. Len(packet') + 1
      <4>1. packet \in Seq(Byte) /\ i \in 1 .. Len(packet) + 1
        BY DEF QueueInv, QueueTypeOK
      <4> QED BY <2>1, <4>1
    <3> QED BY <1>2, <1>4, <2>1, <2>3, <3>1, <3>3, <3>4
            DEF QueueInv, QueueTypeOK, Ring!FifoTypeOK
  <2>5. ReadsFromFrameStart'
    BY <1>2, <1>4, <2>1 DEF ReadsFromFrameStart
  <2>6. Writing'
    BY <1>0, <2>1 DEF QueueInv, QueueTypeOK, Writing
  <2>7. OneEndPerMessage'
    BY <1>2, <1>4, <2>1, <2>3 DEF QueueInv, OneEndPerMessage
  <2> QED BY <2>4, <2>5, <2>6, <2>7 DEF QueueInv
<1> QED BY <1>1, <1>3, <1>4 DEF ParseRb

(* Every step keeps the invariant.                                           *)
LEMMA QueueInvNext == QueueInv /\ [QueueNext]_protoVars => QueueInv'
<1> SUFFICES ASSUME QueueInv, [QueueNext]_protoVars PROVE QueueInv'
  OBVIOUS
<1>1. ASSUME NEW u \in {"reply", "publish"}, NEW m \in Messages,
             QUEUE_Puts(u, m)
      PROVE  QueueInv'
  <2>1. m \in Seq(Byte) BY MessagesAssumption
  <2>2. QueueTypeOK'
    BY <1>1, <2>1 DEF QUEUE_Puts, QueueInv, QueueTypeOK, Ring!FifoTypeOK
  <2>3. ReadsFromFrameStart'
    BY <1>1 DEF QUEUE_Puts, QueueInv, ReadsFromFrameStart
  <2>4. Writing' BY <1>1 DEF QUEUE_Puts, QueueInv, Writing
  <2>5. OneEndPerMessage'
    BY <1>1 DEF QUEUE_Puts, QueueInv, OneEndPerMessage, Ends
  <2> QED BY <2>2, <2>3, <2>4, <2>5 DEF QueueInv
<1>2. CASE QUEUE_Gets
  <2>1. QueueTypeOK'
    BY <1>2 DEF QUEUE_Gets, QueueInv, QueueTypeOK, Ring!FifoTypeOK, PROTO_Init,
                Parsers
  <2>2. ReadsFromFrameStart'
    BY <1>2 DEF QUEUE_Gets, QueueInv, ReadsFromFrameStart
  <2>3. Writing' BY <1>2 DEF QUEUE_Gets, QueueInv, Writing
  <2>4. OneEndPerMessage'
    BY <1>2 DEF QUEUE_Gets, QueueInv, OneEndPerMessage, Ends
  <2> QED BY <2>1, <2>2, <2>3, <2>4 DEF QueueInv
<1>3. CASE UNCHANGED protoVars
  BY <1>3 DEF protoVars, QueueInv, QueueTypeOK, Ring!FifoTypeOK, ReadsFromFrameStart,
              Writing, OneEndPerMessage, Ends
<1> QED BY <1>1, <1>2, <1>3, AddRbInv, ParseRbInv DEF QueueNext, Call

(* The state of the queue is well typed; the ring never holds more than its  *)
(* size and the parser stays within its fields.                              *)
THEOREM QueueTypeCorrect == QueueSpec => []QueueTypeOK
<1>1. QueueInv => QueueTypeOK BY DEF QueueInv
<1> QED BY QueueInvInit, QueueInvNext, <1>1, PTL DEF QueueSpec

(* PROTO_ParseRb always starts reading at a 7E, so that the uninitialised    *)
(* isBegin and the garbage of refused frames never reach a message.          *)
THEOREM QueueReadsFrames == QueueSpec => []ReadsFromFrameStart
<1>1. QueueInv => ReadsFromFrameStart BY DEF QueueInv
<1> QED BY QueueInvInit, QueueInvNext, <1>1, PTL DEF QueueSpec

(* The ring holds one end byte for every message still owed.                 *)
THEOREM QueueOwesEnds == QueueSpec => []OneEndPerMessage
<1>1. QueueInv => OneEndPerMessage BY DEF QueueInv
<1> QED BY QueueInvInit, QueueInvNext, <1>1, PTL DEF QueueSpec

(* MQTT_Publish and MQTT_Subscribe fail only when nothing is queued any more *)
(* and the ring is empty.                                                    *)
THEOREM PublishFailsDrained == QueueSpec => GivesUpOnlyWhenDrained
<1>1. QueueInv /\ [QueueNext]_protoVars
        => [ret /\ ~ret' => queued = <<>> /\ fifo' = <<>>]_protoVars
  <2> SUFFICES ASSUME QueueInv, QueueNext, ret, ~ret'
               PROVE  queued = <<>> /\ fifo' = <<>>
    BY DEF protoVars
  <2>1. ParseExhausted
    BY DEF QueueNext, Call, QUEUE_Puts, QUEUE_Gets, AddRb, AddBegin, AddPlain,
           AddEscape, AddEscaped, AddByte, AddEnd, ParseRb, ParseByte,
           ParseComplete
  <2>2. fifo = <<>> /\ fifo' = <<>>
    BY <2>1 DEF ParseExhausted, Ring!Get
  <2>3. Ends = {} BY <2>2 DEF Ends
  <2>4. Len(queued) = 0
    BY <2>3, FS_EmptySet DEF QueueInv, OneEndPerMessage
  <2> QED BY <2>2, <2>4 DEF QueueInv, QueueTypeOK
<1> QED BY QueueInvInit, QueueInvNext, <1>1, PTL DEF QueueSpec, GivesUpOnlyWhenDrained
----------------------------------------------------------------------------
(* That the queue implements MsgQueue takes more than the count of the end   *)
(* bytes: what PROTO_ParseRb will make of the ring.  Frames are what the      *)
(* buffer of QUEUE_Gets holds; Reads is one byte that does not end a frame,  *)
(* from isEsc and data before it to those behind it.                         *)
Frames == {s \in Seq(Byte) : Len(s) <= MaxLen}

Reads(b, esc, data, esc2, data2) ==
  \/ b = ESC /\ esc2 = TRUE /\ data2 = data
  \/ b = BEG /\ esc2 = FALSE /\ data2 = <<>>
  \/ b \notin Special /\ esc2 = FALSE
                      /\ data2 = Append(data, IF esc THEN Xor20(b) ELSE b)

(* Reading the ring f to its end: behind its k-th byte the parser has isEsc  *)
(* esc[k] and data[k], and has passed num[k] ends, at each of which it held  *)
(* the next message of q.                                                    *)
Decodes(f, q, esc, data, num) ==
  /\ esc \in [0 .. Len(f) -> BOOLEAN] /\ data \in [0 .. Len(f) -> Frames]
  /\ num \in [0 .. Len(f) -> Nat]
  /\ num[0] = 0 /\ num[Len(f)] = Len(q)
  /\ \A j, k \in 0 .. Len(f) : j <= k => num[j] <= num[k]
  /\ \A k \in 1 .. Len(f) :
       \/ /\ f[k] # END /\ num[k] = num[k - 1]
          /\ Reads(f[k], esc[k - 1], data[k - 1], esc[k], data[k])
       \/ f[k] = END /\ num[k] = num[k - 1] + 1 /\ data[k - 1] = q[num[k]]

(* It starts where the parser is, and ends where the writer is.              *)
FromParser(esc, data) ==
  pc = "parse" /\ parser.isBegin = "yes" =>
    esc[0] = parser.isEsc /\ data[0] = parser.data
UpToWriter(esc, data) ==
  pc \in {"payload", "escaped"} =>
    /\ data[Len(fifo)] = SubSeq(packet, 1, i - 1)
    /\ esc[Len(fifo)] = (pc = "escaped")

RingHoldsQueued ==
  \E esc, data, num : /\ Decodes(fifo, queued, esc, data, num)
                      /\ FromParser(esc, data) /\ UpToWriter(esc, data)

(* Whoever waits for room still has its own message.                         *)
OwnMessage == user # "task" => packet \in Messages

RefInv == QueueInv /\ RingHoldsQueued /\ OwnMessage

(* What is escaped is restored.                                              *)
LEMMA XorTwice == \A b \in Byte : Xor20(Xor20(b)) = b
BY DEF Xor20, Byte

(* A byte behind the ring, other than an end, goes on where it ended.        *)
LEMMA DecodesByte ==
  ASSUME NEW f \in Seq(Byte), NEW q \in Seq(Seq(Byte)), NEW b \in Byte \ {END},
         NEW esc, NEW data, NEW num, Decodes(f, q, esc, data, num),
         NEW esc2 \in BOOLEAN, NEW data2 \in Frames,
         Reads(b, esc[Len(f)], data[Len(f)], esc2, data2)
  PROVE  \E e, d, n : /\ Decodes(Append(f, b), q, e, d, n)
                      /\ e[Len(f) + 1] = esc2 /\ d[Len(f) + 1] = data2
                      /\ e[0] = esc[0] /\ d[0] = data[0]
<1> DEFINE N == Len(f)
           g == Append(f, b)
           e == [k \in 0 .. N + 1 |-> IF k = N + 1 THEN esc2 ELSE esc[k]]
           d == [k \in 0 .. N + 1 |-> IF k = N + 1 THEN data2 ELSE data[k]]
           n == [k \in 0 .. N + 1 |-> IF k = N + 1 THEN num[N] ELSE num[k]]
<1>1. /\ N \in Nat /\ Len(g) = N + 1 /\ g[N + 1] = b
      /\ \A k \in 1 .. N : g[k] = f[k]
  OBVIOUS
<1>2. /\ esc \in [0 .. N -> BOOLEAN] /\ data \in [0 .. N -> Frames]
      /\ num \in [0 .. N -> Nat] /\ num[0] = 0 /\ num[N] = Len(q)
      /\ \A j, k \in 0 .. N : j <= k => num[j] <= num[k]
  BY DEF Decodes
<1>3. \A k \in 1 .. N :
        \/ /\ f[k] # END /\ num[k] = num[k - 1]
           /\ Reads(f[k], esc[k - 1], data[k - 1], esc[k], data[k])
        \/ f[k] = END /\ num[k] = num[k - 1] + 1 /\ data[k - 1] = q[num[k]]
  BY DEF Decodes
<1>4. /\ e[N + 1] = esc2 /\ d[N + 1] = data2 /\ n[N + 1] = num[N]
      /\ \A k \in 0 .. N : e[k] = esc[k] /\ d[k] = data[k] /\ n[k] = num[k]
  BY <1>1
<1>5. /\ e \in [0 .. N + 1 -> BOOLEAN] /\ d \in [0 .. N + 1 -> Frames]
      /\ n \in [0 .. N + 1 -> Nat]
  BY <1>1, <1>2
<1> HIDE DEF N, g, e, d, n
<1>6. \A j, k \in 0 .. N + 1 : j <= k => n[j] <= n[k]
  BY <1>1, <1>2, <1>4
<1>7. ASSUME NEW k \in 1 .. N + 1
      PROVE  \/ /\ g[k] # END /\ n[k] = n[k - 1]
                /\ Reads(g[k], e[k - 1], d[k - 1], e[k], d[k])
             \/ g[k] = END /\ n[k] = n[k - 1] + 1 /\ d[k - 1] = q[n[k]]
  <2>1. CASE k = N + 1
    <3>1. k - 1 = N /\ N \in 0 .. N BY <1>1, <2>1
    <3>2. Reads(b, esc[N], data[N], esc2, data2) BY DEF N
    <3> QED BY <1>1, <1>4, <2>1, <3>1, <3>2
  <2>2. CASE k # N + 1
    <3>1. k \in 1 .. N /\ k \in 0 .. N /\ k - 1 \in 0 .. N BY <1>1, <2>2
    <3>2. /\ g[k] = f[k] /\ e[k] = esc[k] /\ d[k] = data[k] /\ n[k] = num[k]
          /\ e[k - 1] = esc[k - 1] /\ d[k - 1] = data[k - 1] /\ n[k - 1] = num[k - 1]
      BY <1>1, <1>4, <3>1
    <3> QED BY <1>3, <3>1, <3>2
  <2> QED BY <2>1, <2>2
<1>8. 0 \in 0 .. N BY <1>1
<1>9. n[0] = 0 /\ n[Len(g)] = Len(q) BY <1>1, <1>2, <1>4, <1>8
<1>10. Decodes(g, q, e, d, n)
  BY <1>1, <1>5, <1>6, <1>7, <1>9 DEF Decodes
<1>11. e[N + 1] = esc2 /\ d[N + 1] = data2 /\ e[0] = esc[0] /\ d[0] = data[0]
  BY <1>4, <1>8
<1> QED BY <1>10, <1>11 DEF g, N

(* An end behind the ring adds the message that was being read.              *)
LEMMA DecodesEnd ==
  ASSUME NEW f \in Seq(Byte), NEW q \in Seq(Seq(Byte)),
         NEW esc, NEW data, NEW num, Decodes(f, q, esc, data, num)
  PROVE  \E e, d, n : Decodes(Append(f, END), Append(q, data[Len(f)]), e, d, n)
<1> DEFINE N == Len(f)
           g == Append(f, END)
           p == Append(q, data[N])
           e == [k \in 0 .. N + 1 |-> IF k = N + 1 THEN esc[N] ELSE esc[k]]
           d == [k \in 0 .. N + 1 |-> IF k = N + 1 THEN data[N] ELSE data[k]]
           n == [k \in 0 .. N + 1 |-> IF k = N + 1 THEN num[N] + 1 ELSE num[k]]
<1>1. /\ N \in Nat /\ Len(g) = N + 1 /\ g[N + 1] = END
      /\ \A k \in 1 .. N : g[k] = f[k]
  BY DEF END, Byte
<1>2. /\ esc \in [0 .. N -> BOOLEAN] /\ data \in [0 .. N -> Frames]
      /\ num \in [0 .. N -> Nat] /\ num[0] = 0 /\ num[N] = Len(q)
      /\ \A j, k \in 0 .. N : j <= k => num[j] <= num[k]
  BY DEF Decodes
<1>3. \A k \in 1 .. N :
        \/ /\ f[k] # END /\ num[k] = num[k - 1]
           /\ Reads(f[k], esc[k - 1], data[k - 1], esc[k], data[k])
        \/ f[k] = END /\ num[k] = num[k - 1] + 1 /\ data[k - 1] = q[num[k]]
  BY DEF Decodes
<1>4. /\ e[N + 1] = esc[N] /\ d[N + 1] = data[N] /\ n[N + 1] = num[N] + 1
      /\ \A k \in 0 .. N : e[k] = esc[k] /\ d[k] = data[k] /\ n[k] = num[k]
  BY <1>1
<1>5. /\ e \in [0 .. N + 1 -> BOOLEAN] /\ d \in [0 .. N + 1 -> Frames]
      /\ n \in [0 .. N + 1 -> Nat]
  <2>1. \A k \in 0 .. N + 1 : k # N + 1 => k \in 0 .. N BY <1>1
  <2>2. N \in 0 .. N BY <1>1
  <2>3. esc[N] \in BOOLEAN /\ data[N] \in Frames /\ num[N] + 1 \in Nat
    BY <1>2, <2>2
  <2> HIDE DEF N
  <2> QED BY <1>2, <2>1, <2>3
<1>6. /\ Len(p) = Len(q) + 1 /\ p[Len(q) + 1] = data[N]
      /\ \A m \in 1 .. Len(q) : p[m] = q[m]
  <2>1. N \in 0 .. N BY <1>1
  <2>2. data[N] \in Frames BY <1>2, <2>1
  <2>3. data[N] \in Seq(Byte) BY <2>2 DEF Frames
  <2> QED BY <2>3
<1> HIDE DEF N, g, p, e, d, n
<1>7. \A j, k \in 0 .. N + 1 : j <= k => n[j] <= n[k]
  <2> SUFFICES ASSUME NEW j \in 0 .. N + 1, NEW k \in 0 .. N + 1, j <= k
               PROVE  n[j] <= n[k]
    OBVIOUS
  <2>1. N \in 0 .. N BY <1>1
  <2>2. CASE k # N + 1
    <3>1. j \in 0 .. N /\ k \in 0 .. N BY <1>1, <2>2
    <3> QED BY <1>2, <1>4, <3>1
  <2>3. CASE k = N + 1 /\ j # N + 1
    <3>1. j \in 0 .. N /\ j <= N BY <1>1, <2>3
    <3>2. num[j] <= num[N] /\ num[j] \in Nat /\ num[N] \in Nat
      BY <1>2, <2>1, <3>1
    <3>3. n[j] = num[j] BY <1>4, <3>1
    <3>4. n[k] = num[N] + 1 BY ONLY <1>4, <2>3
    <3> QED BY ONLY <3>2, <3>3, <3>4
  <2>4. CASE k = N + 1 /\ j = N + 1
    <3>1. num[N] \in Nat BY <1>2, <2>1
    <3> QED BY <1>4, <2>4, <3>1
  <2> QED BY <2>2, <2>3, <2>4
<1>8. ASSUME NEW k \in 1 .. N + 1
      PROVE  \/ /\ g[k] # END /\ n[k] = n[k - 1]
                /\ Reads(g[k], e[k - 1], d[k - 1], e[k], d[k])
             \/ g[k] = END /\ n[k] = n[k - 1] + 1 /\ d[k - 1] = p[n[k]]
  <2>1. CASE k = N + 1
    <3>1. k - 1 = N /\ N \in 0 .. N BY <1>1, <2>1
    <3> QED BY <1>1, <1>2, <1>4, <1>6, <2>1, <3>1
  <2>2. CASE k # N + 1
    <3>1. k \in 1 .. N /\ k \in 0 .. N /\ k - 1 \in 0 .. N /\ N \in 0 .. N
      BY <1>1, <2>2
    <3>2. /\ g[k] = f[k] /\ e[k] = esc[k] /\ d[k] = data[k] /\ n[k] = num[k]
          /\ e[k - 1] = esc[k - 1] /\ d[k - 1] = data[k - 1] /\ n[k - 1] = num[k - 1]
      BY <1>1, <1>4, <3>1
    <3>3. /\ num[k] \in Nat /\ num[k - 1] \in Nat /\ num[k] <= Len(q)
      <4>1. k <= N BY <1>1, <3>1
      <4> QED BY <1>2, <3>1, <4>1
    <3>4. num[k] = num[k - 1] + 1 => p[num[k]] = q[num[k]]
      BY <1>6, <3>3
    <3> QED BY <1>3, <3>1, <3>2, <3>4
  <2> QED BY <2>1, <2>2
<1>9. 0 \in 0 .. N BY <1>1
<1>10. n[0] = 0 /\ n[Len(g)] = Len(p) BY <1>1, <1>2, <1>4, <1>6, <1>9
<1>11. Decodes(g, p, e, d, n)
  BY <1>1, <1>5, <1>7, <1>8, <1>10 DEF Decodes
<1> QED BY <1>11 DEF g, p, N

(* The first byte taken from the ring leaves what follows it, and the first  *)
(* end takes the first message with it.                                      *)
LEMMA DecodesTail ==
  ASSUME NEW f \in Seq(Byte), f # <<>>, NEW q \in Seq(Seq(Byte)),
         NEW esc, NEW data, NEW num, Decodes(f, q, esc, data, num)
  PROVE  /\ Head(f) = END => /\ q # <<>> /\ Head(q) = data[0]
                             /\ \E e, d, n : Decodes(Tail(f), Tail(q), e, d, n)
         /\ Head(f) # END =>
              /\ Reads(Head(f), esc[0], data[0], esc[1], data[1])
              /\ data[1] \in Frames
              /\ \E e, d, n : /\ Decodes(Tail(f), q, e, d, n)
                              /\ e[0] = esc[1] /\ d[0] = data[1]
<1> DEFINE p == IF Head(f) = END THEN Tail(q) ELSE q
           N == Len(f) - 1
           g == Tail(f)
           one == IF Head(f) = END THEN 1 ELSE 0
           e == [k \in 0 .. N |-> esc[k + 1]]
           d == [k \in 0 .. N |-> data[k + 1]]
           n == [k \in 0 .. N |-> num[k + 1] - one]
<1>1. /\ N \in Nat /\ Len(f) = N + 1 /\ Len(g) = N /\ Head(f) = f[1]
      /\ \A k \in 1 .. N : g[k] = f[k + 1]
  OBVIOUS
<1>2. /\ esc \in [0 .. N + 1 -> BOOLEAN] /\ data \in [0 .. N + 1 -> Frames]
      /\ num \in [0 .. N + 1 -> Nat] /\ num[0] = 0 /\ num[N + 1] = Len(q)
      /\ \A j, k \in 0 .. N + 1 : j <= k => num[j] <= num[k]
  BY <1>1 DEF Decodes
<1>3. \A k \in 1 .. N + 1 :
        \/ /\ f[k] # END /\ num[k] = num[k - 1]
           /\ Reads(f[k], esc[k - 1], data[k - 1], esc[k], data[k])
        \/ f[k] = END /\ num[k] = num[k - 1] + 1 /\ data[k - 1] = q[num[k]]
  BY <1>1 DEF Decodes
<1>4. \A k \in 0 .. N : e[k] = esc[k + 1] /\ d[k] = data[k + 1]
                        /\ n[k] = num[k + 1] - one
  OBVIOUS
<1>5. one \in {0, 1} /\ (one = 1 <=> Head(f) = END)
  OBVIOUS
<1>0. p = IF Head(f) = END THEN Tail(q) ELSE q
  OBVIOUS
<1> HIDE DEF N, g, p, one, e, d, n
<1>6. 1 \in 1 .. N + 1 /\ 0 \in 0 .. N + 1 /\ 1 \in 0 .. N + 1 /\ 1 - 1 = 0
  BY <1>1
<1>7. num[1] = one
  BY <1>1, <1>2, <1>3, <1>5, <1>6
<1>8. \A k \in 0 .. N : num[k + 1] >= one /\ num[k + 1] \in Nat
  <2> TAKE k \in 0 .. N
  <2>1. k + 1 \in 0 .. N + 1 /\ 1 <= k + 1 BY <1>1
  <2> QED BY <1>2, <1>6, <1>7, <2>1
<1>9. Head(f) = END => q # <<>> /\ Head(q) = data[0]
  <2> SUFFICES ASSUME Head(f) = END PROVE q # <<>> /\ Head(q) = data[0]
    OBVIOUS
  <2>1. num[1] = 1 /\ data[0] = q[1]
    BY <1>1, <1>3, <1>5, <1>6, <1>7
  <2>2. N + 1 \in 0 .. N + 1 /\ 1 <= N + 1 BY <1>1
  <2>3. Len(q) >= 1
    BY <1>2, <1>6, <2>1, <2>2
  <2> QED BY <2>1, <2>3
<1>10. Head(f) # END => Reads(Head(f), esc[0], data[0], esc[1], data[1])
  BY <1>1, <1>3, <1>6
<1>11. data[1] \in Frames BY <1>2, <1>6
<1>12. /\ Len(p) = Len(q) - one
       /\ \A m \in 1 .. Len(q) - one : p[m] = q[m + one]
  <2>1. CASE Head(f) = END
    <3>1. q # <<>> /\ p = Tail(q) BY <1>0, <1>9, <2>1
    <3> QED BY <1>5, <2>1, <3>1
  <2>2. CASE Head(f) # END
    <3>1. p = q /\ one = 0 BY <1>0, <1>5, <2>2
    <3> QED BY <3>1
  <2> QED BY <2>1, <2>2
<1>13. /\ e \in [0 .. N -> BOOLEAN] /\ d \in [0 .. N -> Frames]
       /\ n \in [0 .. N -> Nat]
  <2>1. \A k \in 0 .. N : k + 1 \in 0 .. N + 1 BY <1>1
  <2>2. /\ \A k \in 0 .. N : esc[k + 1] \in BOOLEAN /\ data[k + 1] \in Frames
        /\ \A k \in 0 .. N : num[k + 1] - one \in Nat
    BY <1>2, <1>5, <1>8, <2>1
  <2> QED BY <2>2 DEF e, d, n
<1>14. \A j, k \in 0 .. N : j <= k => n[j] <= n[k]
  <2> SUFFICES ASSUME NEW j \in 0 .. N, NEW k \in 0 .. N, j <= k
               PROVE  n[j] <= n[k]
    OBVIOUS
  <2>1. j + 1 \in 0 .. N + 1 /\ k + 1 \in 0 .. N + 1 /\ j + 1 <= k + 1 BY <1>1
  <2>2. num[j + 1] <= num[k + 1] BY <1>2, <2>1
  <2>3. num[j + 1] \in Nat /\ num[k + 1] \in Nat BY <1>8
  <2>4. n[j] = num[j + 1] - one /\ n[k] = num[k + 1] - one /\ one \in Nat
    BY <1>4, <1>5
  <2> QED BY ONLY <2>2, <2>3, <2>4
<1>15. ASSUME NEW k \in 1 .. N
       PROVE  \/ /\ g[k] # END /\ n[k] = n[k - 1]
                 /\ Reads(g[k], e[k - 1], d[k - 1], e[k], d[k])
              \/ g[k] = END /\ n[k] = n[k - 1] + 1 /\ d[k - 1] = p[n[k]]
  <2>1. /\ k + 1 \in 1 .. N + 1 /\ k \in 0 .. N /\ k - 1 \in 0 .. N
        /\ (k + 1) - 1 = k /\ (k - 1) + 1 = k
    BY <1>1
  <2>2. /\ g[k] = f[k + 1] /\ e[k] = esc[k + 1] /\ d[k] = data[k + 1]
        /\ n[k] = num[k + 1] - one
        /\ e[k - 1] = esc[k] /\ d[k - 1] = data[k] /\ n[k - 1] = num[k] - one
    BY <1>1, <1>4, <2>1
  <2>3. num[k + 1] \in Nat /\ num[k] \in Nat /\ num[k] >= one
    BY <1>8, <2>1
  <2>4. CASE /\ f[k + 1] # END /\ num[k + 1] = num[k]
             /\ Reads(f[k + 1], esc[k], data[k], esc[k + 1], data[k + 1])
    BY <2>2, <2>4
  <2>5. CASE /\ f[k + 1] = END /\ num[k + 1] = num[k] + 1
             /\ data[k] = q[num[k + 1]]
    <3>1. num[k + 1] <= Len(q)
      <4>1. k + 1 \in 0 .. N + 1 /\ N + 1 \in 0 .. N + 1 /\ k + 1 <= N + 1
        BY <1>1
      <4> QED BY <1>2, <4>1
    <3>2. num[k + 1] - one \in 1 .. Len(q) - one
      <4>1. one \in Nat /\ Len(q) \in Nat BY <1>5
      <4>2. \A x, y, z, u \in Nat : x = y + 1 /\ y >= u /\ x <= z
                                   => x - u \in 1 .. z - u
        OBVIOUS
      <4>3. num[k + 1] = num[k] + 1 BY <2>5
      <4> QED BY ONLY <2>3, <3>1, <4>1, <4>2, <4>3
    <3>3. p[num[k + 1] - one] = q[num[k + 1] - one + one]
      BY <1>12, <3>2
    <3>4. num[k + 1] - one + one = num[k + 1]
      BY <1>5, <2>3
    <3>5. n[k] = n[k - 1] + 1
      BY <1>5, <2>2, <2>3, <2>5
    <3> QED BY <2>2, <2>5, <3>3, <3>4, <3>5
  <2> QED BY <1>3, <2>1, <2>4, <2>5
<1>16. /\ n[0] = 0 /\ n[N] = Len(p)
       /\ e[0] = esc[1] /\ d[0] = data[1]
  <2>1. 0 \in 0 .. N /\ N \in 0 .. N /\ 0 + 1 = 1 BY <1>1
  <2>2. n[0] = one - one /\ e[0] = esc[1] /\ d[0] = data[1]
    BY <1>4, <1>7, <2>1
  <2>3. n[N] = Len(q) - one BY <1>2, <1>4, <2>1
  <2> QED BY <1>5, <1>12, <2>2, <2>3
<1>17. Decodes(g, p, e, d, n)
  BY <1>1, <1>13, <1>14, <1>15, <1>16 DEF Decodes
<1>18. CASE Head(f) = END
  <2>1. Decodes(Tail(f), Tail(q), e, d, n) BY <1>0, <1>17, <1>18 DEF g
  <2> QED BY <1>9, <1>18, <2>1
<1>19. CASE Head(f) # END
  <2>1. Decodes(Tail(f), q, e, d, n) BY <1>0, <1>17, <1>19 DEF g
  <2> QED BY <1>10, <1>11, <1>16, <1>19, <2>1
<1> QED BY <1>18, <1>19

(* The empty queue.                                                          *)
LEMMA RefInit == QueueInit => RefInv /\ Abstract!QInit
<1> SUFFICES ASSUME QueueInit PROVE RefInv /\ Abstract!QInit
  OBVIOUS
<1>1. QueueInv BY QueueInvInit
<1>2. OwnMessage /\ Abstract!QInit BY DEF QueueInit, OwnMessage, Abstract!QInit
<1>3. RingHoldsQueued
  <2> DEFINE e == [k \in 0 .. 0 |-> FALSE]
             d == [k \in 0 .. 0 |-> <<>>]
             n == [k \in 0 .. 0 |-> 0]
  <2>1. fifo = <<>> /\ queued = <<>> /\ pc = "idle" /\ Len(<<>>) = 0
    BY DEF QueueInit, Ring!FifoInit
  <2>2. <<>> \in Frames BY MessagesAssumption DEF Frames
  <2>3. Decodes(fifo, queued, e, d, n)
    BY <2>1, <2>2 DEF Decodes
  <2>4. FromParser(e, d) /\ UpToWriter(e, d)
    BY <2>1 DEF FromParser, UpToWriter
  <2> QED BY <2>3, <2>4 DEF RingHoldsQueued
<1> QED BY <1>1, <1>2, <1>3 DEF RefInv

(* One more byte of a message.                                               *)
LEMMA PrefixGrows ==
  ASSUME NEW s \in Seq(Byte), NEW k \in 1 .. Len(s)
  PROVE  SubSeq(s, 1, k) = Append(SubSeq(s, 1, k - 1), s[k])
OBVIOUS

(* Of one byte of a frame the queue sees nothing: it is behind the ring, or  *)
(* refused.                                                                  *)
LEMMA AddByteRef ==
  ASSUME RefInv, user # "task", pc \in {"begin", "payload", "escaped"},
         NEW b \in Byte \ {END}, NEW next \in {"payload", "escaped"},
         NEW j \in 1 .. Len(packet) + 1, AddByte(b, next, j),
         NEW esc, NEW data, NEW num, Decodes(fifo, queued, esc, data, num),
         NEW esc2 \in BOOLEAN, esc2 = (next = "escaped"),
         Reads(b, esc[Len(fifo)], data[Len(fifo)], esc2, SubSeq(packet, 1, j - 1))
  PROVE  RingHoldsQueued' /\ OwnMessage' /\ UNCHANGED <<queued, got>>
<1> USE QueueSizeAssumption
<1>0. /\ fifo \in Seq(Byte) /\ queued \in Seq(Seq(Byte)) /\ packet \in Seq(Byte)
      /\ packet \in Messages
  BY DEF RefInv, QueueInv, QueueTypeOK, Ring!FifoTypeOK, OwnMessage
<1>1. UNCHANGED <<user, packet, queued, got>> /\ OwnMessage'
  BY <1>0 DEF AddByte, OwnMessage
<1>2. CASE Len(fifo) >= Size
  <2>1. /\ fifo' = fifo /\ pc' \in {"parse", "idle"}
        /\ pc' = "parse" => parser' = PROTO_Init
    BY <1>0, <1>2 DEF AddByte, AddRefused, Ring!Put
  <2>2. FromParser(esc, data)' /\ UpToWriter(esc, data)'
    BY <2>1 DEF FromParser, UpToWriter, PROTO_Init
  <2>3. Decodes(fifo', queued', esc, data, num)
    BY <1>1, <2>1
  <2> QED BY <1>1, <2>2, <2>3 DEF RingHoldsQueued
<1>3. CASE Len(fifo) < Size
  <2>1. fifo' = Append(fifo, b) /\ pc' = next /\ i' = j
    BY <1>0, <1>3 DEF AddByte, Ring!Put
  <2> DEFINE data2 == SubSeq(packet, 1, j - 1)
  <2>2. data2 \in Frames
    <3>1. Len(packet) <= MaxLen /\ MaxLen \in Nat
      BY <1>0, MessagesAssumption
    <3> QED BY <1>0, <3>1 DEF Frames
  <2> HIDE DEF data2
  <2>3. Reads(b, esc[Len(fifo)], data[Len(fifo)], esc2, data2)
    BY DEF data2
  <2>4. PICK e, d, n : /\ Decodes(Append(fifo, b), queued, e, d, n)
                       /\ e[Len(fifo) + 1] = esc2 /\ d[Len(fifo) + 1] = data2
    <3>1. /\ fifo \in Seq(Byte) /\ queued \in Seq(Seq(Byte))
          /\ b \in Byte \ {END} /\ esc2 \in BOOLEAN
          /\ Decodes(fifo, queued, esc, data, num)
      BY <1>0
    <3> QED BY ONLY <2>2, <2>3, <3>1, DecodesByte
  <2>5. Len(fifo') = Len(fifo) + 1 BY <1>0, <2>1
  <2>6. FromParser(e, d)' BY <2>1 DEF FromParser
  <2>7. UpToWriter(e, d)'
    BY <1>1, <2>1, <2>4, <2>5 DEF UpToWriter, data2
  <2>8. Decodes(fifo', queued', e, d, n)
    BY <1>1, <2>1, <2>4
  <2> QED BY <1>1, <2>6, <2>7, <2>8 DEF RingHoldsQueued
<1> QED BY <1>0, <1>2, <1>3

(* PROTO_AddRb: the message is in the queue when its end is written.         *)
LEMMA AddRbRef ==
  ASSUME RefInv, AddRb
  PROVE  RingHoldsQueued' /\ OwnMessage' /\ [Abstract!QNext]_<<queued, got>>
<1> USE QueueSizeAssumption
<1>0. /\ fifo \in Seq(Byte) /\ queued \in Seq(Seq(Byte)) /\ packet \in Seq(Byte)
      /\ i \in 1 .. Len(packet) + 1
      /\ pc \in {"begin", "payload", "escaped"} /\ user # "task"
      /\ packet \in Messages
  BY DEF RefInv, QueueInv, QueueTypeOK, Ring!FifoTypeOK, OwnMessage, Writing, AddRb,
         AddBegin, AddPlain, AddEscape, AddEscaped, AddEnd
<1>a. PICK esc, data, num : /\ Decodes(fifo, queued, esc, data, num)
                            /\ FromParser(esc, data) /\ UpToWriter(esc, data)
  BY DEF RefInv, RingHoldsQueued
<1> DEFINE esc1 == esc[Len(fifo)]
           data1 == data[Len(fifo)]
<1>b. pc # "begin" => data1 = SubSeq(packet, 1, i - 1) /\ esc1 = (pc = "escaped")
  BY <1>0, <1>a DEF UpToWriter
<1>c. /\ ("payload" = "escaped") = FALSE /\ ("escaped" = "escaped") = TRUE
      /\ TRUE \in BOOLEAN /\ FALSE \in BOOLEAN
  OBVIOUS
<1> HIDE DEF esc1, data1
<1>1. CASE AddBegin
  <2>1. BEG \in Byte \ {END} /\ 1 \in 1 .. Len(packet) + 1
    BY <1>0 DEF BEG, END, Byte
  <2>2. SubSeq(packet, 1, 1 - 1) = <<>> BY <1>0
  <2>3. Reads(BEG, esc1, data1, FALSE, SubSeq(packet, 1, 1 - 1))
    BY <2>2 DEF Reads
  <2> QED BY <1>0, <1>1, <1>a, <1>c, <2>1, <2>3, AddByteRef
          DEF AddBegin, esc1, data1
<1>2. CASE AddPlain
  <2>1. /\ pc = "payload" /\ packet[i] \in Byte \ {END} /\ packet[i] \notin Special
        /\ i + 1 \in 1 .. Len(packet) + 1 /\ i \in 1 .. Len(packet)
        /\ (i + 1) - 1 = i
    BY <1>0, <1>2 DEF AddPlain, Special
  <2>2. SubSeq(packet, 1, (i + 1) - 1) = Append(SubSeq(packet, 1, i - 1), packet[i])
    BY <1>0, <2>1, PrefixGrows
  <2>3. Reads(packet[i], esc1, data1, FALSE, SubSeq(packet, 1, (i + 1) - 1))
    BY <1>b, <2>1, <2>2 DEF Reads
  <2> QED BY <1>0, <1>2, <1>a, <1>c, <2>1, <2>3, AddByteRef
          DEF AddPlain, esc1, data1
<1>3. CASE AddEscape
  <2>1. pc = "payload" /\ ESC \in Byte \ {END}
    BY <1>3 DEF AddEscape, ESC, END, Byte
  <2>2. Reads(ESC, esc1, data1, TRUE, SubSeq(packet, 1, i - 1))
    BY <1>b, <2>1 DEF Reads
  <2> QED BY <1>0, <1>3, <1>a, <1>c, <2>1, <2>2, AddByteRef
          DEF AddEscape, esc1, data1
<1>4. CASE AddEscaped
  <2>1. pc = "escaped" /\ i \in 1 .. Len(packet) /\ packet[i] \in Special
    BY <1>4 DEF AddEscaped, RefInv, QueueInv, Writing
  <2> DEFINE b == Xor20(packet[i])
  <2>2. /\ b \in Byte \ {END} /\ b \notin Special /\ Xor20(b) = packet[i]
        /\ i + 1 \in 1 .. Len(packet) + 1 /\ (i + 1) - 1 = i
    BY <1>0, <2>1, XorFacts, XorTwice DEF Special
  <2>3. SubSeq(packet, 1, (i + 1) - 1) = Append(SubSeq(packet, 1, i - 1), packet[i])
    BY <1>0, <2>1, <2>2, PrefixGrows
  <2>4. AddByte(b, "payload", i + 1)
    BY <1>4 DEF AddEscaped
  <2> HIDE DEF b
  <2>5. Reads(b, esc1, data1, FALSE, SubSeq(packet, 1, (i + 1) - 1))
    BY <1>b, <2>1, <2>2, <2>3 DEF Reads
  <2> QED BY <1>0, <1>a, <1>c, <2>2, <2>4, <2>5, AddByteRef DEF esc1, data1
<1>5. CASE AddEnd
  <2>2. /\ pc = "payload" /\ i = Len(packet) + 1
        /\ UNCHANGED <<user, packet, got>>
    BY <1>0, <1>5 DEF AddEnd
  <2>3. OwnMessage' BY <1>0, <2>2 DEF OwnMessage
  <2>4. CASE Len(fifo) >= Size
    <3>1. /\ fifo' = fifo /\ queued' = queued /\ pc' \in {"parse", "idle"}
          /\ pc' = "parse" => parser' = PROTO_Init
      BY <1>0, <1>5, <2>4 DEF AddEnd, AddRefused, Ring!Put
    <3>2. FromParser(esc, data)' /\ UpToWriter(esc, data)'
      BY <3>1 DEF FromParser, UpToWriter, PROTO_Init
    <3>3. Decodes(fifo', queued', esc, data, num)
      BY <1>a, <3>1
    <3> QED BY <2>2, <2>3, <3>1, <3>2, <3>3 DEF RingHoldsQueued
  <2>5. CASE Len(fifo) < Size
    <3>1. /\ fifo' = Append(fifo, END) /\ queued' = Append(queued, packet)
          /\ pc' = "idle"
      BY <1>0, <1>5, <2>5 DEF AddEnd, Ring!Put
    <3>2. data[Len(fifo)] = packet
      <4>1. i - 1 = Len(packet) BY <1>0, <2>2
      <4>2. SubSeq(packet, 1, Len(packet)) = packet BY <1>0, SubSeqFull
      <4> QED BY <1>a, <2>2, <4>1, <4>2 DEF UpToWriter
    <3>3. PICK e, d, n : Decodes(fifo', queued', e, d, n)
      BY <1>0, <1>a, <3>1, <3>2, DecodesEnd
    <3>4. FromParser(e, d)' /\ UpToWriter(e, d)'
      BY <3>1 DEF FromParser, UpToWriter
    <3>5. Abstract!Accept(packet)
      BY <2>2, <3>1 DEF Abstract!Accept
    <3> QED BY <1>0, <2>3, <3>3, <3>4, <3>5 DEF RingHoldsQueued, Abstract!QNext
  <2> QED BY <1>0, <2>4, <2>5
<1> QED BY <1>1, <1>2, <1>3, <1>4, <1>5 DEF AddRb

(* PROTO_ParseRb: what it returns is the oldest message, which leaves.       *)
LEMMA ParseRbRef ==
  ASSUME RefInv, ParseRb
  PROVE  RingHoldsQueued' /\ OwnMessage' /\ [Abstract!QNext]_<<queued, got>>
<1>0. /\ fifo \in Seq(Byte) /\ queued \in Seq(Seq(Byte)) /\ parser \in Parsers
      /\ pc = "parse" /\ UNCHANGED <<user, packet>>
  BY DEF RefInv, QueueInv, QueueTypeOK, Ring!FifoTypeOK, ParseRb, ParseByte,
         ParseComplete, ParseExhausted
<1>1. PICK esc, data, num : /\ Decodes(fifo, queued, esc, data, num)
                            /\ FromParser(esc, data) /\ UpToWriter(esc, data)
  BY DEF RefInv, RingHoldsQueued
<1>2. OwnMessage' BY <1>0 DEF RefInv, OwnMessage
<1>3. CASE ParseExhausted
  <2>1. fifo' = fifo /\ pc' = "idle" /\ UNCHANGED <<queued, got>>
    BY <1>3 DEF ParseExhausted, Ring!Get
  <2>2. FromParser(esc, data)' /\ UpToWriter(esc, data)'
    BY <2>1 DEF FromParser, UpToWriter
  <2>3. Decodes(fifo', queued', esc, data, num) BY <1>1, <2>1
  <2> QED BY <1>2, <2>1, <2>2, <2>3 DEF RingHoldsQueued
<1>4. CASE ParseByte
  <2>1. /\ fifo # <<>> /\ c' = Head(fifo) /\ fifo' = Tail(fifo) /\ c' # END
        /\ parser' \in PROTO_ParseByte(parser, c')
        /\ UNCHANGED <<pc, queued, got>>
    BY <1>4 DEF ParseByte, Ring!Get
  <2>2. /\ Reads(c', esc[0], data[0], esc[1], data[1]) /\ data[1] \in Frames
        /\ \E e, d, n : /\ Decodes(fifo', queued', e, d, n)
                        /\ e[0] = esc[1] /\ d[0] = data[1]
    BY <1>0, <1>1, <2>1, DecodesTail
  <2>3. PICK e, d, n : /\ Decodes(fifo', queued', e, d, n)
                       /\ e[0] = esc[1] /\ d[0] = data[1]
    BY <2>2
  <2>4. /\ c' # BEG => parser.isBegin = "yes"
        /\ parser.isBegin = "yes" => esc[0] = parser.isEsc /\ data[0] = parser.data
    BY <1>0, <1>1, <2>1 DEF RefInv, QueueInv, ReadsFromFrameStart, FromParser
  <2>5. parser'.isEsc = esc[1] /\ parser'.data = data[1]
    <3>1. ESC # BEG /\ ESC \in Special /\ BEG \in Special
      BY DEF ESC, BEG, Special
    <3>2. CASE c' = ESC
      <4>1. parser' = [parser EXCEPT !.isEsc = TRUE]
        BY <2>1, <3>1, <3>2 DEF PROTO_ParseByte
      <4> QED BY <1>0, <2>2, <2>4, <3>1, <3>2, <4>1 DEF Reads, Parsers
    <3>3. CASE c' = BEG
      <4>1. parser' = [isEsc |-> FALSE, isBegin |-> "yes", data |-> <<>>]
        BY <2>1, <3>1, <3>3 DEF PROTO_ParseByte
      <4> QED BY <2>2, <3>1, <3>3, <4>1 DEF Reads
    <3>4. CASE c' # ESC /\ c' # BEG
      <4> DEFINE x == IF parser.isEsc THEN Xor20(c') ELSE c'
      <4>1. parser' = [parser EXCEPT !.isEsc = FALSE,
                                     !.data = IF Len(parser.data) < MaxLen
                                              THEN Append(parser.data, x)
                                              ELSE parser.data]
        BY <2>1, <2>4, <3>4 DEF PROTO_ParseByte
      <4>2. esc[1] = FALSE /\ data[1] = Append(parser.data, x)
        BY <2>2, <2>4, <3>4 DEF Reads
      <4>3. parser.data \in Seq(Byte) BY <1>0 DEF Parsers
      <4>4. Len(parser.data) < MaxLen
        <5>1. Len(data[1]) <= MaxLen BY <2>2 DEF Frames
        <5>2. Len(Append(parser.data, x)) = Len(parser.data) + 1 BY <4>3
        <5> QED BY <4>2, <4>3, <5>1, <5>2, MessagesAssumption
      <4> HIDE DEF x
      <4> QED BY <1>0, <4>1, <4>2, <4>4 DEF Parsers
    <3> QED BY <3>2, <3>3, <3>4
  <2>6. FromParser(e, d)' /\ UpToWriter(e, d)'
    BY <1>0, <2>1, <2>3, <2>5 DEF FromParser, UpToWriter
  <2> QED BY <1>2, <2>1, <2>3, <2>6 DEF RingHoldsQueued
<1>5. CASE ParseComplete
  <2>1. /\ fifo # <<>> /\ Head(fifo) = END /\ fifo' = Tail(fifo)
        /\ queued' = SubSeq(queued, 2, Len(queued))
        /\ \/ pc' = "idle" /\ got' = <<parser.data>>
           \/ pc' = "begin" /\ got' = got
    BY <1>5 DEF ParseComplete, Ring!Get
  <2>2. /\ queued # <<>> /\ Head(queued) = data[0]
        /\ \E e, d, n : Decodes(Tail(fifo), Tail(queued), e, d, n)
    <3> HIDE DEF END
    <3> QED BY <1>0, <1>1, <2>1, DecodesTail
  <2>3. queued' = Tail(queued) BY <1>0, <2>1, <2>2, TailIsSubSeq
  <2>4. PICK e, d, n : Decodes(fifo', queued', e, d, n)
    BY <2>1, <2>2, <2>3
  <2>5. FromParser(e, d)' /\ UpToWriter(e, d)'
    BY <2>1 DEF FromParser, UpToWriter
  <2>6. parser.data = data[0]
    <3>1. parser.isBegin = "yes"
      <4>1. END # BEG BY DEF END, BEG
      <4> QED BY <1>0, <2>1, <4>1 DEF RefInv, QueueInv, ReadsFromFrameStart
    <3> QED BY <1>0, <1>1, <3>1 DEF FromParser
  <2>7. Abstract!Take \/ Abstract!DropOldest
    BY <2>1, <2>2, <2>3, <2>6 DEF Abstract!Take, Abstract!DropOldest
  <2> QED BY <1>2, <2>4, <2>5, <2>7 DEF RingHoldsQueued, Abstract!QNext
<1> QED BY <1>3, <1>4, <1>5 DEF ParseRb

(* Every step of the code is a step of MsgQueue, or none that it sees.       *)
LEMMA RefNext ==
  RefInv /\ [QueueNext]_protoVars => RefInv' /\ [Abstract!QNext]_<<queued, got>>
<1> SUFFICES ASSUME RefInv, [QueueNext]_protoVars
             PROVE  RefInv' /\ [Abstract!QNext]_<<queued, got>>
  OBVIOUS
<1>0. QueueInv' BY QueueInvNext DEF RefInv
<1>1. ASSUME fifo' = fifo, queued' = queued, pc' \notin {"payload", "escaped"},
             pc' = "parse" => parser' = PROTO_Init
      PROVE  RingHoldsQueued'
  <2>1. PICK esc, data, num : Decodes(fifo, queued, esc, data, num)
    BY DEF RefInv, RingHoldsQueued
  <2>2. FromParser(esc, data)' /\ UpToWriter(esc, data)'
    BY <1>1 DEF FromParser, UpToWriter, PROTO_Init
  <2>3. Decodes(fifo', queued', esc, data, num) BY <1>1, <2>1
  <2> QED BY <2>2, <2>3 DEF RingHoldsQueued
<1>2. ASSUME NEW u \in {"reply", "publish"}, NEW m \in Messages,
             QUEUE_Puts(u, m)
      PROVE  RefInv' /\ UNCHANGED <<queued, got>>
  <2>1. RingHoldsQueued' BY <1>1, <1>2 DEF QUEUE_Puts
  <2>2. OwnMessage' BY <1>2 DEF QUEUE_Puts, OwnMessage
  <2> QED BY <1>0, <1>2, <2>1, <2>2 DEF QUEUE_Puts, RefInv
<1>3. CASE QUEUE_Gets
  <2>1. RingHoldsQueued' BY <1>1, <1>3 DEF QUEUE_Gets
  <2>2. OwnMessage' BY <1>3 DEF QUEUE_Gets, OwnMessage
  <2> QED BY <1>0, <1>3, <2>1, <2>2 DEF QUEUE_Gets, RefInv
<1>4. CASE UNCHANGED protoVars
  <2>1. RingHoldsQueued' /\ OwnMessage'
    BY <1>4 DEF RefInv, RingHoldsQueued, OwnMessage, FromParser, UpToWriter, protoVars
  <2> QED BY <1>0, <1>4, <2>1 DEF RefInv, protoVars
<1> QED BY <1>0, <1>2, <1>3, <1>4, AddRbRef, ParseRbRef DEF QueueNext, Call, RefInv

(* For every ring size and every set of messages, queue.c, proto.c and the   *)
(* ring buffer are a queue of whole messages: what MQTT_Task gets is the     *)
(* oldest one that was accepted, unchanged, however many frames were refused *)
(* half written or dropped before, and no message leaves in another way.     *)
THEOREM QueueImplementsMsgQueue == QueueSpec => QueueKeepsMessages
<1>1. RefInv /\ [QueueNext]_protoVars => RefInv' /\ [Abstract!QNext]_Abstract!queueVars
  BY RefNext DEF Abstract!queueVars
<1> QED BY RefInit, <1>1, PTL DEF QueueSpec, QueueKeepsMessages, Abstract!QSpec
----------------------------------------------------------------------------
(* Without an address there is no live connection, only a name is looked up, *)
(* and only an open connection has packets under way and a CONNACK behind    *)
(* it.                                                                       *)
OnlyOpenIsBusy ==
  /\ ~wifi => tcp \in {"none", "closed"}
  /\ tcp = "resolving" => UseDns
  /\ tcp # "open" => sending = 0 /\ segment = 0 /\ ~accepted

ClientInv == TypeOK /\ StateMatchesConnection /\ OnlyOpenIsBusy /\ NoLostWakeup
             /\ (tcp = "open" /\ sendTimeout > 0 => sending > 0)

USE TimeoutAssumption, BoundAssumption

IsQueue(q) == q \in Seq(OutTypes) /\ Len(q) <= QueueSlots
----------------------------------------------------------------------------
(* The empty queue and the empty inbox are well typed.                       *)
LEMMA EmptyTyped == /\ <<>> \in Seq(InTypes) /\ <<>> \in Seq(OutTypes)
                    /\ Len(<<>>) = 0 /\ 0 \in 0 .. Len(<<>>)
<1>1. Len(<<>>) = 0 OBVIOUS
<1> QED BY <1>1

(* The type invariant in three parts: sequences, counters, states and flags. *)
QueuesOK == /\ IsQueue(msgQueue)
            /\ inbox \in Seq(InTypes) /\ Len(inbox) <= InboxBound
            /\ segment \in 0 .. Len(inbox)

CountersOK == /\ keepAliveTick \in 0 .. KeepAlive
              /\ reconnectTick \in 0 .. ReconnectTimeout
              /\ sendTimeout \in 0 .. SendTimeout
              /\ sending \in 0 .. InFlightBound

FlagsOK == /\ connState \in ConnStates
           /\ pending \in OutTypes \cup {"none"}
           /\ pCon \in BOOLEAN /\ timer \in BOOLEAN /\ posted \in BOOLEAN
           /\ wifi \in BOOLEAN
           /\ tcp \in {"none", "resolving", "ignored", "connecting", "open",
                      "closing", "closed"}
           /\ accepted \in BOOLEAN /\ ip \in BOOLEAN

(* The type in the parts a callback can disturb.                             *)
LEMMA TypeParts == TypeOK <=> QueuesOK /\ CountersOK /\ FlagsOK
BY DEF TypeOK, QueuesOK, CountersOK, FlagsOK, IsQueue

(* The same in the next state.                                               *)
LEMMA TypePartsPrimed == TypeOK' <=> QueuesOK' /\ CountersOK' /\ FlagsOK'
BY DEF TypeOK, QueuesOK, CountersOK, FlagsOK, IsQueue

(* A dropped connection leaves a well-typed inbox.                           *)
LEMMA InboxCleared ==
  QueuesOK /\ UNCHANGED msgQueue /\ inbox' = <<>> /\ segment' = 0 => QueuesOK'
BY EmptyTyped DEF QueuesOK

(* What is left of a queue without its oldest messages is well typed.        *)
LEMMA RestTyped ==
  ASSUME NEW q \in Seq(OutTypes), NEW k \in 1 .. Len(q)
  PROVE  /\ WithoutOldest(q, k) \in Seq(OutTypes)
         /\ Len(WithoutOldest(q, k)) = Len(q) - k
<1>1. \A j \in k + 1 .. Len(q) : q[j] \in OutTypes OBVIOUS
<1>2. k + 1 \in Int /\ Len(q) \in Int OBVIOUS
<1>3. /\ SubSeq(q, k + 1, Len(q)) \in Seq(OutTypes)
      /\ Len(SubSeq(q, k + 1, Len(q))) =
           IF k + 1 <= Len(q) THEN Len(q) - (k + 1) + 1 ELSE 0
  BY <1>1, <1>2, SubSeqProperties
<1> QED BY <1>3 DEF WithoutOldest

(* Queueing a reply or a publish keeps the queue a queue.                    *)
LEMMA QueueOps ==
  ASSUME NEW q, IsQueue(q), NEW m \in OutTypes
  PROVE  /\ IsQueue(Reply(q, m))
         /\ \A r \in Queued(q, m) : IsQueue(r)
<1>1. IsQueue(Reply(q, m)) BY DEF IsQueue, Reply
<1>2. CASE Len(q) < QueueSlots BY <1>1, <1>2 DEF IsQueue, Queued
<1>3. CASE Len(q) = QueueSlots
  <2>1. ASSUME NEW k \in 1 .. Len(q) PROVE IsQueue(Append(WithoutOldest(q, k), m))
    <3>1. /\ WithoutOldest(q, k) \in Seq(OutTypes)
          /\ Len(WithoutOldest(q, k)) = Len(q) - k
      BY RestTyped DEF IsQueue
    <3> QED BY <1>3, <2>1, <3>1 DEF IsQueue
  <2>2. IsQueue(<<>>) BY EmptyTyped DEF IsQueue
  <2>3. Queued(q, m) = {Append(WithoutOldest(q, k), m) : k \in 1 .. Len(q)} \cup {<<>>}
    BY <1>3 DEF Queued
  <2> QED BY <1>1, <2>1, <2>2, <2>3
<1> QED BY <1>2, <1>3 DEF IsQueue

(* The subscribe and the publish of mqttConnectedCb do too.                  *)
LEMMA ConnectedCbQueue ==
  ASSUME NEW q, IsQueue(q), NEW r \in mqttConnectedCb(q)
  PROVE  IsQueue(r)
<1>1. "SUBSCRIBE" \in OutTypes /\ "PUBLISH" \in OutTypes BY DEF OutTypes
<1>2. PICK s \in Queued(q, "SUBSCRIBE") : r \in Queued(s, "PUBLISH")
  BY DEF mqttConnectedCb
<1>3. IsQueue(s) BY <1>1, <1>2, QueueOps
<1> QED BY <1>1, <1>2, <1>3, QueueOps

(* What is left of the inbox after a segment is well typed.                  *)
LEMMA InboxRest ==
  ASSUME NEW b \in Seq(InTypes), NEW n \in 0 .. Len(b)
  PROVE  /\ SubSeq(b, n + 1, Len(b)) \in Seq(InTypes)
         /\ Len(SubSeq(b, n + 1, Len(b))) = Len(b) - n
<1>1. \A k \in n + 1 .. Len(b) : b[k] \in InTypes OBVIOUS
<1>2. n + 1 \in Int /\ Len(b) \in Int OBVIOUS
<1>3. /\ SubSeq(b, n + 1, Len(b)) \in Seq(InTypes)
      /\ Len(SubSeq(b, n + 1, Len(b))) =
           IF n + 1 <= Len(b) THEN Len(b) - (n + 1) + 1 ELSE 0
  BY <1>1, <1>2, SubSeqProperties
<1> QED BY <1>3

(* The freshly initialised client satisfies the invariant.                   *)
LEMMA ClientInvInit == Init => ClientInv
<1> SUFFICES ASSUME Init PROVE ClientInv
  OBVIOUS
<1>1. Len(msgQueue) <= QueueSlots /\ Len(inbox) <= InboxBound
  BY EmptyTyped DEF Init
<1>2. /\ keepAliveTick \in 0 .. KeepAlive /\ reconnectTick \in 0 .. ReconnectTimeout
      /\ sendTimeout \in 0 .. SendTimeout /\ sending \in 0 .. InFlightBound
  BY DEF Init
<1>3. TypeOK
  BY <1>1, <1>2, EmptyTyped DEF Init, TypeOK, ConnStates
<1> QED BY <1>3 DEF Init, ClientInv, StateMatchesConnection, OnlyOpenIsBusy,
                    NoLostWakeup
----------------------------------------------------------------------------
(* MQTT_Connect and MQTT_Disconnect, called on Wi-Fi changes.                *)
LEMMA WifiInv == ASSUME ClientInv, Wifi PROVE ClientInv'
<1>1. CASE WifiUp
  <2>0. inbox' = <<>> /\ segment' = 0 /\ tcp' \in {"resolving", "connecting"}
    BY <1>1, DnsAssumption DEF WifiUp, MQTT_Connect
  <2>1. QueuesOK' BY <1>1, <2>0, InboxCleared, TypeParts DEF WifiUp, ClientInv
  <2>2. CountersOK'
    BY <1>1, <2>0, TypeParts DEF WifiUp, MQTT_Connect, ClientInv, CountersOK, ConnStates
  <2>3. FlagsOK'
    BY <1>1, <2>0, TypeParts DEF WifiUp, MQTT_Connect, ClientInv, FlagsOK, ConnStates
  <2> QED BY <1>1, <2>0, <2>1, <2>2, <2>3, TypePartsPrimed DEF WifiUp, MQTT_Connect, ClientInv, OnlyOpenIsBusy,
                            StateMatchesConnection, NoLostWakeup
<1>2. CASE WifiDown
  <2>1. QueuesOK'
    BY <1>2, InboxCleared, TypeParts DEF WifiDown, MQTT_Disconnect, ClientInv
  <2>2. CountersOK'
    BY <1>2, TypeParts DEF WifiDown, MQTT_Disconnect, ClientInv, CountersOK
  <2>3. FlagsOK'
    BY <1>2, TypeParts DEF WifiDown, MQTT_Disconnect, ClientInv, FlagsOK
  <2> QED BY <1>2, <2>1, <2>2, <2>3, TypePartsPrimed DEF WifiDown, MQTT_Disconnect, ClientInv, OnlyOpenIsBusy,
                            StateMatchesConnection, NoLostWakeup
<1> QED BY <1>1, <1>2 DEF Wifi

(* The callbacks of the SDK's DNS and TCP.                                   *)
LEMMA TcpInv == ASSUME ClientInv, Tcp PROVE ClientInv'
<1>1. CASE mqtt_dns_found
  <2>1. QueuesOK'
    <3>1. CASE UNCHANGED <<inbox, segment>>
      BY <1>1, <3>1, TypeParts DEF mqtt_dns_found, ClientInv, QueuesOK
    <3>2. CASE Closed
      BY <1>1, <3>2, InboxCleared, TypeParts DEF mqtt_dns_found, Closed, ClientInv
    <3> QED BY <1>1, <3>1, <3>2 DEF mqtt_dns_found
  <2>2. CountersOK'
    BY <1>1, TypeParts
    DEF mqtt_dns_found, Closed, system_os_post, ClientInv, CountersOK, ConnStates
  <2>3. FlagsOK'
    BY <1>1, TypeParts
    DEF mqtt_dns_found, Closed, system_os_post, ClientInv, FlagsOK, ConnStates
  <2>4. connState = "TCP_CONNECTING" /\ pCon /\ timer /\ wifi /\ UseDns
    BY <1>1 DEF mqtt_dns_found, ClientInv, OnlyOpenIsBusy, StateMatchesConnection
  <2>5. StateMatchesConnection' /\ OnlyOpenIsBusy' /\ NoLostWakeup'
    BY <1>1, <2>4
    DEF mqtt_dns_found, Closed, system_os_post, ClientInv, OnlyOpenIsBusy,
        StateMatchesConnection, NoLostWakeup
  <2>6. tcp' # "open" BY <1>1 DEF mqtt_dns_found, Closed
  <2> QED BY <2>1, <2>2, <2>3, <2>5, <2>6, TypePartsPrimed DEF ClientInv
<1>2. CASE mqtt_tcpclient_connect_cb
  <2>1. TypeOK'
    BY <1>2 DEF mqtt_tcpclient_connect_cb, system_os_post, ClientInv, TypeOK,
                ConnStates, OutTypes
  <2>2. accepted' = accepted /\ ~accepted'
    BY <1>2 DEF mqtt_tcpclient_connect_cb, ClientInv, OnlyOpenIsBusy
  <2> QED BY <1>2, <2>1, <2>2
          DEF mqtt_tcpclient_connect_cb, system_os_post, ClientInv,
              OnlyOpenIsBusy, StateMatchesConnection, NoLostWakeup, MaySend
<1>3. CASE mqtt_tcpclient_down_cb
  <2>1. QueuesOK'
    BY <1>3, InboxCleared, TypeParts DEF mqtt_tcpclient_down_cb, Closed, ClientInv
  <2>2. CountersOK'
    BY <1>3, TypeParts
    DEF mqtt_tcpclient_down_cb, Closed, system_os_post, ClientInv, CountersOK,
        ConnStates
  <2>3. FlagsOK'
    BY <1>3, TypeParts
    DEF mqtt_tcpclient_down_cb, Closed, system_os_post, ClientInv, FlagsOK,
        ConnStates
  <2> QED BY <1>3, <2>1, <2>2, <2>3, TypePartsPrimed DEF mqtt_tcpclient_down_cb, Closed, system_os_post,
                            ClientInv, OnlyOpenIsBusy, StateMatchesConnection,
                            NoLostWakeup
<1>4. CASE mqtt_tcpclient_sent_cb
  <2>1. TypeOK'
    BY <1>4 DEF mqtt_tcpclient_sent_cb, system_os_post, ClientInv, TypeOK
  <2> QED BY <1>4, <2>1 DEF mqtt_tcpclient_sent_cb, system_os_post, ClientInv,
                            OnlyOpenIsBusy, StateMatchesConnection, NoLostWakeup
<1> QED BY <1>1, <1>2, <1>3, <1>4 DEF Tcp

(* Packets arriving from the broker.                                         *)
LEMMA BrokerInv == ASSUME ClientInv, Broker PROVE ClientInv'
<1>1. ASSUME NEW p \in InTypes, BrokerSends(p) PROVE ClientInv'
  <2>1. TypeOK'
    BY <1>1 DEF BrokerSends, ClientInv, TypeOK
  <2> QED BY <1>1, <2>1 DEF BrokerSends, ClientInv, OnlyOpenIsBusy,
                            StateMatchesConnection, NoLostWakeup, MaySend
<1>2. ASSUME NEW n \in 1 .. InboxBound, Receive(n) PROVE ClientInv'
  <2>1. TypeOK'
    BY <1>2 DEF Receive, ClientInv, TypeOK
  <2> QED BY <1>2, <2>1 DEF Receive, ClientInv, TypeOK, OnlyOpenIsBusy,
                            StateMatchesConnection, NoLostWakeup, MaySend
<1> QED BY <1>1, <1>2 DEF Broker

(* One packet read by mqtt_tcpclient_recv.                                   *)
LEMMA ReadPacketInv == ASSUME ClientInv, READPACKET PROVE ClientInv'
<1>0. /\ IsQueue(msgQueue)
      /\ inbox \in Seq(InTypes) /\ Len(inbox) <= InboxBound
      /\ segment \in 1 .. Len(inbox) /\ tcp = "open" /\ wifi
  BY DEF READPACKET, RecvBeforeData, RecvData, ClientInv, TypeOK, OnlyOpenIsBusy,
         IsQueue
<1>1. ASSUME LastPacket
      PROVE  /\ inbox' \in Seq(InTypes) /\ Len(inbox') <= InboxBound
             /\ segment' = 0 /\ segment' \in 0 .. Len(inbox') /\ posted' = TRUE
  <2>1. /\ inbox' \in Seq(InTypes) /\ Len(inbox') = Len(inbox) - segment
    BY <1>0, <1>1, InboxRest DEF LastPacket
  <2> QED BY <1>0, <1>1, <2>1 DEF LastPacket, system_os_post
<1>2. CASE RecvBeforeData
  <2>1. connState = "MQTT_CONNECT_SENDING" /\ pending = "CONNECT"
    BY <1>0, <1>2 DEF RecvBeforeData, ClientInv, StateMatchesConnection
  <2>2. /\ \/ /\ connState' = "MQTT_DATA" /\ accepted' = TRUE
              /\ msgQueue' \in mqttConnectedCb(msgQueue)
           \/ UNCHANGED <<connState, accepted, msgQueue>>
        /\ tcp' = "open"
        /\ LastPacket
        /\ UNCHANGED <<keepAliveTick, reconnectTick, sendTimeout, pending, pCon,
                       timer, wifi, sending, ip>>
    BY <1>0, <1>2, <2>1 DEF RecvBeforeData
  <2>3. IsQueue(msgQueue') BY <1>0, <2>2, ConnectedCbQueue
  <2>4. TypeOK'
    BY <1>1, <2>2, <2>3 DEF ClientInv, TypeOK, ConnStates, IsQueue
  <2> QED BY <1>0, <1>1, <2>1, <2>2, <2>4 DEF ClientInv, OnlyOpenIsBusy,
                            StateMatchesConnection, NoLostWakeup
<1>3. CASE RecvData
  <2> DEFINE p == Head(inbox)
  <2>1. ReplyTo(p) = "none" \/ ReplyTo(p) \in OutTypes
    BY DEF ReplyTo, OutTypes
  <2>2. msgQueue' = msgQueue
          \/ (ReplyTo(p) \in OutTypes /\ msgQueue' = Reply(msgQueue, ReplyTo(p)))
    BY <1>3, <2>1 DEF RecvData
  <2>3. IsQueue(msgQueue') BY <1>0, <2>2, QueueOps
  <2>4. (segment > 1 /\ NextPacket) \/ LastPacket BY <1>3 DEF RecvData
  <2>5. UNCHANGED <<connState, keepAliveTick, reconnectTick, sendTimeout, pending,
                    pCon, timer, wifi, tcp, sending, accepted, ip>>
    BY <1>3 DEF RecvData
  <2>6. CASE segment > 1 /\ NextPacket
    <3>1. /\ inbox' \in Seq(InTypes) /\ Len(inbox') = Len(inbox) - 1
          /\ segment' = segment - 1 /\ posted' = posted
      BY <1>0, <2>6 DEF NextPacket
    <3>2. TypeOK'
      BY <1>0, <2>3, <2>5, <2>6, <3>1 DEF ClientInv, TypeOK, IsQueue
    <3> QED BY <1>0, <2>5, <2>6, <3>1, <3>2 DEF ClientInv, OnlyOpenIsBusy,
                            StateMatchesConnection, NoLostWakeup
  <2>7. CASE LastPacket
    <3>1. TypeOK'
      BY <1>1, <2>3, <2>5, <2>7 DEF ClientInv, TypeOK, IsQueue
    <3> QED BY <1>1, <2>5, <2>7, <3>1 DEF ClientInv, OnlyOpenIsBusy,
                            StateMatchesConnection, NoLostWakeup
  <2> QED BY <2>4, <2>6, <2>7
<1> QED BY <1>2, <1>3 DEF READPACKET

(* A publish by the application posts the task, or returns FALSE and leaves  *)
(* an empty queue.                                                           *)
LEMMA PublishInv == ASSUME ClientInv, MQTT_Publish PROVE ClientInv'
<1>1. IsQueue(msgQueue) BY DEF ClientInv, TypeOK, IsQueue
<1>2. "PUBLISH" \in OutTypes BY DEF OutTypes
<1>3. IsQueue(msgQueue') BY <1>1, <1>2, QueueOps DEF MQTT_Publish
<1>4. TypeOK'
  BY <1>3 DEF MQTT_Publish, system_os_post, ClientInv, TypeOK, IsQueue
<1> QED BY <1>4 DEF MQTT_Publish, system_os_post, ClientInv, OnlyOpenIsBusy,
                    StateMatchesConnection, NoLostWakeup, MaySend

(* espconn_sent leaves something outstanding on an open connection.          *)
LEMMA SentFacts ==
  ASSUME ClientInv, espconn_sent
  PROVE  /\ sending' \in 0 .. InFlightBound
         /\ tcp = "open" => sending' > 0
         /\ tcp # "open" => sending' = sending
BY DEF espconn_sent, ClientInv, TypeOK

(* The one-second timer.                                                     *)
LEMMA TimerInv == ASSUME ClientInv, mqtt_timer PROVE ClientInv'
<1>0. /\ CountDown(sendTimeout) \in 0 .. SendTimeout
      /\ CountDown(SendTimeout) \in 0 .. SendTimeout
      /\ CountDown(sendTimeout) > 0 => sendTimeout > 0
      /\ UNCHANGED <<msgQueue, pCon, timer, wifi, tcp, inbox, segment, accepted,
                     ip>>
  BY DEF CountDown, ClientInv, TypeOK, mqtt_timer
<1>1. CASE TimerPing
  <2>1. sending' \in 0 .. InFlightBound /\ (tcp = "open" => sending' > 0)
        /\ (tcp # "open" => sending' = sending)
    BY <1>1, SentFacts DEF TimerPing
  <2>2. TypeOK'
    BY <1>0, <1>1, <2>1 DEF TimerPing, system_os_post, ClientInv, TypeOK, OutTypes
  <2> QED BY <1>0, <1>1, <2>1, <2>2
          DEF TimerPing, system_os_post, ClientInv, OnlyOpenIsBusy,
              StateMatchesConnection, NoLostWakeup
<1>2. CASE TimerKeepAlive
  <2>1. TypeOK' BY <1>0, <1>2 DEF TimerKeepAlive, ClientInv, TypeOK
  <2>2. tcp = "open" /\ sendTimeout > 0 => sending > 0 BY DEF ClientInv
  <2> QED BY <1>0, <1>2, <2>1, <2>2
          DEF TimerKeepAlive, ClientInv, TypeOK, OnlyOpenIsBusy, CountDown,
              StateMatchesConnection, NoLostWakeup, MaySend
<1>3. CASE TimerReconnect
  <2>1. TypeOK' BY <1>0, <1>3 DEF TimerReconnect, system_os_post, ClientInv, TypeOK,
                                  ConnStates
  <2> QED BY <1>0, <1>3, <2>1
          DEF TimerReconnect, system_os_post, ClientInv, OnlyOpenIsBusy,
              StateMatchesConnection, NoLostWakeup
<1>4. CASE TimerWait
  <2>1. TypeOK' BY <1>0, <1>4 DEF TimerWait, ClientInv, TypeOK
  <2> QED BY <1>0, <1>4, <2>1
          DEF TimerWait, ClientInv, TypeOK, OnlyOpenIsBusy,
              StateMatchesConnection, NoLostWakeup, MaySend
<1>5. CASE TimerOther
  <2>1. TypeOK' BY <1>0, <1>5 DEF TimerOther, ClientInv, TypeOK
  <2> QED BY <1>0, <1>5, <2>1
          DEF TimerOther, ClientInv, TypeOK, OnlyOpenIsBusy,
              StateMatchesConnection, NoLostWakeup, MaySend
<1> QED BY <1>1, <1>2, <1>3, <1>4, <1>5 DEF mqtt_timer

(* The posted task.                                                          *)
LEMMA TaskInv == ASSUME ClientInv, MQTT_Task PROVE ClientInv'
<1>0. posted' = FALSE /\ wifi' = wifi BY DEF MQTT_Task
<1>1. CASE TaskReconnect
  <2>0. inbox' = <<>> /\ segment' = 0
        /\ tcp' \in IF wifi THEN {"resolving", "connecting"} ELSE {"closed"}
    BY <1>1, DnsAssumption DEF TaskReconnect, MQTT_Connect, ClientInv, TypeOK
  <2>1. QueuesOK' BY <1>1, <2>0, InboxCleared, TypeParts DEF TaskReconnect, ClientInv
  <2>2. CountersOK'
    BY <1>0, <1>1, <2>0, TypeParts
    DEF TaskReconnect, MQTT_Connect, ClientInv, CountersOK, ConnStates
  <2>3. FlagsOK'
    BY <1>0, <1>1, <2>0, TypeParts
    DEF TaskReconnect, MQTT_Connect, ClientInv, FlagsOK, ConnStates
  <2> QED BY <1>0, <1>1, <2>0, <2>1, <2>2, <2>3, TypePartsPrimed
          DEF TaskReconnect, MQTT_Connect, ClientInv, OnlyOpenIsBusy,
              StateMatchesConnection, NoLostWakeup
<1>2. CASE TaskSend
  <2>1. sending' \in 0 .. InFlightBound /\ (tcp = "open" => sending' > 0)
        /\ (tcp # "open" => sending' = sending)
    BY <1>2, SentFacts DEF TaskSend
  <2>2. /\ Tail(msgQueue) \in Seq(OutTypes) /\ Head(msgQueue) \in OutTypes
        /\ Len(Tail(msgQueue)) <= QueueSlots
    BY <1>2 DEF TaskSend, MaySend, ClientInv, TypeOK
  <2>3. QueuesOK' BY <1>2, <2>2, TypeParts DEF TaskSend, ClientInv, QueuesOK, IsQueue
  <2>4. CountersOK'
    BY <1>0, <1>2, <2>1, <2>2, TypeParts DEF TaskSend, ClientInv, CountersOK
  <2>5. FlagsOK'
    BY <1>0, <1>2, <2>1, <2>2, TypeParts DEF TaskSend, ClientInv, FlagsOK
  <2> QED BY <1>0, <1>2, <2>1, <2>3, <2>4, <2>5, TypePartsPrimed
          DEF TaskSend, MaySend, ClientInv, OnlyOpenIsBusy,
              StateMatchesConnection, NoLostWakeup
<1>3. CASE TaskNothing
  <2>1. TypeOK' BY <1>0, <1>3 DEF TaskNothing, ClientInv, TypeOK
  <2> QED BY <1>0, <1>3, <2>1
          DEF TaskNothing, ClientInv, OnlyOpenIsBusy,
              StateMatchesConnection, NoLostWakeup, MaySend
<1> QED BY <1>1, <1>2, <1>3 DEF MQTT_Task

(* Every step keeps the invariant.                                           *)
LEMMA ClientInvNext == ClientInv /\ [Next]_vars => ClientInv'
<1> SUFFICES ASSUME ClientInv, [Next]_vars PROVE ClientInv'
  OBVIOUS
<1>1. CASE UNCHANGED vars
  BY <1>1 DEF vars, ClientInv, TypeOK, OnlyOpenIsBusy, StateMatchesConnection,
              NoLostWakeup, MaySend
<1> QED BY <1>1, WifiInv, TcpInv, BrokerInv, PublishInv, TimerInv, TaskInv,
           ReadPacketInv DEF Next
----------------------------------------------------------------------------
(* Every counter, queue and state of the client stays in its range.          *)
THEOREM ClientTypeCorrect == Spec => []TypeOK
<1>1. ClientInv => TypeOK BY DEF ClientInv
<1> QED BY ClientInvInit, ClientInvNext, <1>1, PTL DEF Spec

(* connState agrees with the connection, and a reconnect always has          *)
(* something under way that will carry it out, except where mqtt_dns_found   *)
(* ignores the address of a name.                                            *)
THEOREM ClientStateMatches == Spec => []StateMatchesConnection
<1>1. ClientInv => StateMatchesConnection BY DEF ClientInv
<1> QED BY ClientInvInit, ClientInvNext, <1>1, PTL DEF Spec

(* No wakeup of MQTT_Task is lost.                                           *)
THEOREM ClientNoLostWakeup == Spec => []NoLostWakeup
<1>1. ClientInv => NoLostWakeup BY DEF ClientInv
<1> QED BY ClientInvInit, ClientInvNext, <1>1, PTL DEF Spec

(* MQTT_Task takes messages off the queue only for an accepted connection,   *)
(* or while Wi-Fi is down.                                                   *)
THEOREM ClientDequeuesConnected == Spec => DequeuesOnlyWhenConnected
<1>1. ClientInv /\ [Next]_vars
        => [(MQTT_Task /\ msgQueue' # msgQueue)
              => (~wifi \/ (tcp = "open" /\ accepted))]_vars
  BY DEF MQTT_Task, TaskReconnect, TaskSend, TaskNothing, MaySend, ClientInv,
         StateMatchesConnection
<1> QED BY ClientInvInit, ClientInvNext, <1>1, PTL
        DEF Spec, DequeuesOnlyWhenConnected

(* Nothing but CONNECT goes out on a connection before its CONNACK.          *)
THEOREM ClientDataAfterConnack == Spec => DataOnlyAfterConnack
<1>1. ClientInv /\ [Next]_vars
        => [sending' > sending /\ tcp = "open" => accepted]_vars
  <2> SUFFICES ASSUME ClientInv, Next, sending' > sending, tcp = "open"
               PROVE  accepted
    BY DEF vars
  <2>0. sending \in Nat /\ wifi
    BY DEF ClientInv, TypeOK, OnlyOpenIsBusy
  <2>1. connState = "MQTT_DATA"
    <3>1. ~(sending' = sending) /\ ~(sending' = sending - 1) /\ ~(sending' = 0)
      BY <2>0
    <3>2. (segment = 0 /\ mqtt_timer) \/ (segment = 0 /\ MQTT_Task)
      BY <3>1 DEF Next, Wifi, WifiUp, WifiDown, MQTT_Connect, MQTT_Disconnect,
                  Tcp, mqtt_dns_found, mqtt_tcpclient_connect_cb, Closed,
                  mqtt_tcpclient_down_cb, mqtt_tcpclient_sent_cb, Broker,
                  BrokerSends, Receive, MQTT_Publish, READPACKET, RecvBeforeData,
                  RecvData
    <3> QED BY <3>1, <3>2
            DEF mqtt_timer, TimerPing, TimerKeepAlive, TimerReconnect, TimerWait,
                TimerOther, MQTT_Task, TaskReconnect, MQTT_Connect, TaskSend,
                TaskNothing, MaySend
  <2> QED BY <2>0, <2>1 DEF ClientInv, StateMatchesConnection
<1> QED BY ClientInvInit, ClientInvNext, <1>1, PTL DEF Spec, DataOnlyAfterConnack
----------------------------------------------------------------------------
(* The ids handed out lie behind message_id on the circle 1 .. Ids - 1, the  *)
(* n-th last one n - 1 places; the circle's end lies between or not.         *)
Behind(m, g, v) == \/ m - g[v] = Len(g) - v
                   \/ m - g[v] = Len(g) - v - (Ids - 1)

IInv == /\ message_id \in 0 .. Ids - 1
        /\ given \in Seq(1 .. Ids - 1)
        /\ Len(given) <= Window
        /\ \A v \in 1 .. Len(given) : Behind(message_id, given, v)

(* append_message_id skips 0 and stays within uint16_t.                      *)
LEMMA NextIdType == ASSUME message_id \in 0 .. Ids - 1
                    PROVE  NextId \in 1 .. Ids - 1
  BY IdsAssumption DEF NextId

(* An id is remembered behind the others, the oldest forgotten when the      *)
(* window is full.                                                           *)
LEMMA RememberedIs ==
  ASSUME given \in Seq(1 .. Ids - 1), Len(given) <= Window,
         NEW id \in 1 .. Ids - 1
  PROVE  LET g == Remembered(id) IN
         /\ g \in Seq(1 .. Ids - 1)
         /\ Len(g) <= Window
         /\ \A v \in 1 .. Len(g) :
              \/ v = Len(g) /\ g[v] = id
              \/ /\ v < Len(g) /\ Len(g) = Len(given) + 1
                 /\ v \in 1 .. Len(given) /\ g[v] = given[v]
              \/ /\ v < Len(g) /\ Len(g) = Len(given)
                 /\ v + 1 \in 1 .. Len(given) /\ g[v] = given[v + 1]
<1>1. Len(given) \in Nat /\ Window \in Nat
  BY WindowAssumption, IdsAssumption
<1>2. CASE Len(given) < Window
  BY <1>1, <1>2 DEF Remembered
<1>3. CASE Len(given) >= Window /\ Window = 0
  BY <1>1, <1>3 DEF Remembered
<1>4. CASE Len(given) >= Window /\ Window # 0
  <2>1. Len(given) = Window /\ given # <<>>
    BY <1>1, <1>4
  <2>2. /\ Tail(given) \in Seq(1 .. Ids - 1)
        /\ Len(Tail(given)) = Len(given) - 1
        /\ \A v \in 1 .. Len(given) - 1 : Tail(given)[v] = given[v + 1]
    BY <2>1
  <2>3. Remembered(id) = Append(Tail(given), id)
    BY <1>1, <1>4 DEF Remembered
  <2> QED
    BY <1>1, <2>1, <2>2, <2>3
<1> QED
  BY <1>1, <1>2, <1>3, <1>4

(* A new id moves every earlier one a place further back.                    *)
LEMMA GivesIdKeeps == IInv /\ GivesId => IInv'
<1> SUFFICES ASSUME IInv, GivesId PROVE IInv'
  OBVIOUS
<1> DEFINE g == Remembered(NextId)
<1>1. message_id' = NextId /\ given' = g
  BY DEF GivesId
<1>2. NextId \in 1 .. Ids - 1
  BY NextIdType DEF IInv
<1>3. /\ g \in Seq(1 .. Ids - 1) /\ Len(g) <= Window
      /\ \A v \in 1 .. Len(g) :
           \/ v = Len(g) /\ g[v] = NextId
           \/ /\ v < Len(g) /\ Len(g) = Len(given) + 1
              /\ v \in 1 .. Len(given) /\ g[v] = given[v]
           \/ /\ v < Len(g) /\ Len(g) = Len(given)
              /\ v + 1 \in 1 .. Len(given) /\ g[v] = given[v + 1]
  BY <1>2, RememberedIs DEF IInv
<1>4. ASSUME NEW v \in 1 .. Len(given)
      PROVE  \/ NextId - given[v] = Len(given) + 1 - v
             \/ NextId - given[v] = Len(given) + 1 - v - (Ids - 1)
  <2>1. given[v] \in 1 .. Ids - 1 /\ Len(given) \in Nat /\ Len(given) < Ids
    BY WindowAssumption, IdsAssumption, <1>4 DEF IInv
  <2>2. Behind(message_id, given, v) /\ message_id \in 0 .. Ids - 1
    BY <1>4 DEF IInv
  <2> QED
    BY <2>1, <2>2, IdsAssumption, <1>4 DEF Behind, NextId
<1> HIDE DEF g
<1>5. ASSUME NEW v \in 1 .. Len(g)
      PROVE  Behind(NextId, g, v)
  <2>1. Len(g) \in Nat /\ Len(given) \in Nat
    BY <1>3 DEF IInv
  <2>2. CASE v = Len(g) /\ g[v] = NextId
    BY <1>2, <2>1, <2>2, IdsAssumption DEF Behind
  <2>3. CASE /\ v < Len(g) /\ Len(g) = Len(given) + 1
             /\ v \in 1 .. Len(given) /\ g[v] = given[v]
    <3>1. \/ NextId - given[v] = Len(given) + 1 - v
          \/ NextId - given[v] = Len(given) + 1 - v - (Ids - 1)
      BY <1>4, <2>3
    <3> QED
      BY <2>1, <2>3, <3>1, IdsAssumption DEF Behind
  <2>4. CASE /\ v < Len(g) /\ Len(g) = Len(given)
             /\ v + 1 \in 1 .. Len(given) /\ g[v] = given[v + 1]
    <3>1. \/ NextId - given[v + 1] = Len(given) + 1 - (v + 1)
          \/ NextId - given[v + 1] = Len(given) + 1 - (v + 1) - (Ids - 1)
      BY <1>4, <2>4
    <3> QED
      BY <2>1, <2>4, <3>1, IdsAssumption DEF Behind
  <2> QED
    BY <1>3, <1>5, <2>2, <2>3, <2>4
<1> QED
  BY <1>1, <1>2, <1>3, <1>5 DEF IInv

(* Every function of mqtt_msg.c gives one new id or none.                    *)
LEMMA StepsGiveIds == MsgNext => GivesId \/ KeepsIds
<1> SUFFICES ASSUME MsgNext PROVE GivesId \/ KeepsIds
  OBVIOUS
<1>1. CASE mqtt_msg_init
  BY <1>1 DEF mqtt_msg_init
<1>2. CASE \E client, topic, text, login, password \in Users, clean \in BOOLEAN,
              qos \in Qos :
             mqtt_msg_connect(client, topic, text, qos, qos % 2, login, password, clean)
  BY <1>2 DEF mqtt_msg_connect
<1>3. CASE \E topic, data \in Texts, qos \in Qos, retain \in 0 .. 1 :
             mqtt_msg_publish(topic, data, qos, retain)
  BY <1>3 DEF mqtt_msg_publish
<1>4. CASE \E type \in {PUBACK, PUBREC, PUBREL, PUBCOMP}, id \in {0, 1, Ids - 1} :
             Acknowledge(type, id)
  BY <1>4 DEF Acknowledge
<1>5. CASE \E topic \in Texts, qos \in Qos : mqtt_msg_subscribe(topic, qos)
  BY <1>5 DEF mqtt_msg_subscribe
<1>6. CASE \E topic \in Texts : mqtt_msg_unsubscribe(topic)
  BY <1>6 DEF mqtt_msg_unsubscribe
<1>7. CASE \E type \in {PINGREQ, PINGRESP, DISCONNECT} : Bare(type)
  BY <1>7 DEF Bare
<1> QED
  BY <1>1, <1>2, <1>3, <1>4, <1>5, <1>6, <1>7 DEF MsgNext

(* Two ids of the window are less than the whole circle apart.               *)
LEMMA BehindFresh == IInv => FreshIds
<1> SUFFICES ASSUME IInv PROVE FreshIds
  OBVIOUS
<1>1. /\ message_id \in 0 .. Ids - 1 /\ Len(given) \in Nat /\ Len(given) < Ids
      /\ DOMAIN given = 1 .. Len(given)
      /\ \A v \in 1 .. Len(given) : given[v] \in 1 .. Ids - 1
  BY WindowAssumption, IdsAssumption DEF IInv
<1>2. ASSUME NEW v \in 1 .. Len(given), NEW j \in 1 .. Len(given), v # j
      PROVE  given[v] # given[j]
  <2>1. Behind(message_id, given, v) /\ Behind(message_id, given, j)
    BY DEF IInv
  <2> QED
    BY <1>1, <1>2, <2>1, IdsAssumption DEF Behind
<1> QED
  BY <1>1, <1>2 DEF FreshIds

(* Every step keeps the ids in their places behind message_id.              *)
LEMMA IdsKept == IInv /\ [MsgNext]_msgVars => IInv'
<1> SUFFICES ASSUME IInv, [MsgNext]_msgVars PROVE IInv'
  OBVIOUS
<1>1. CASE GivesId
  BY <1>1, GivesIdKeeps
<1>2. CASE KeepsIds
  BY <1>2 DEF KeepsIds, IInv, Behind
<1>3. CASE UNCHANGED msgVars
  BY <1>3 DEF msgVars, IInv, Behind
<1> QED
  BY <1>1, <1>2, <1>3, StepsGiveIds

(* For every number of ids and every window smaller than it: the ids of      *)
(* append_message_id are never 0 and none comes twice in the window, also    *)
(* across the wrap-around of message_id and across reconnects.               *)
THEOREM IdsAreFresh == MsgSpec => []FreshIds
<1>1. MsgInit => IInv
  BY IdsAssumption, WindowAssumption DEF MsgInit, IInv
<1> QED
  BY <1>1, IdsKept, BehindFresh, PTL DEF MsgSpec
----------------------------------------------------------------------------
(* Division and remainder of naturals.                                       *)
LEMMA DivMod ==
  ASSUME NEW k \in Nat, k > 0, NEW n \in Nat
  PROVE  /\ (n \div k) * k + (n % k) = n
         /\ n % k \in 0 .. k - 1 /\ n \div k \in Nat
OBVIOUS

(* The part above the last digit of a number of two digits is one digit.     *)
LEMMA TwoDigits ==
  ASSUME NEW k \in Nat, k > 0, NEW n \in Nat, n < k * k
  PROVE  n \div k < k
<1> DEFINE q == n \div k
<1>1. n = q * k + (n % k) /\ q \in Nat /\ n % k \in Nat
  BY DivMod
<1>2. q * k <= n
  BY <1>1
<1>3. ASSUME q >= k PROVE FALSE
  <2>1. q * k >= k * k
    BY <1>1, <1>3
  <2> QED
    BY <1>1, <1>2, <2>1
<1> QED
  BY <1>1, <1>3

(* The continuation bit does not change the digit it is added to.            *)
LEMMA DigitRead ==
  ASSUME NEW k \in Nat, k > 0, NEW d \in 0 .. k - 1
  PROVE  (k + d) % k = d /\ d % k = d
OBVIOUS

HalfAssumption == Half \in Nat /\ Half > 0 /\ BufLen \in 3 .. Half * Half + 2

(* A byte has seven bits for a digit of the length.                          *)
LEMMA HalfIs == HalfAssumption
<1>1. Base \div 2 \in Nat /\ Base \div 2 > 0
  <2>1. Base = (Base \div 2) * 2 + (Base % 2) /\ Base \div 2 \in Nat /\ Base % 2 \in 0 .. 1
    BY BaseAssumption, DivMod
  <2>2. Base > 1 /\ Base \in Nat
    BY BaseAssumption
  <2> DEFINE q == Base \div 2
             r == Base % 2
  <2> HIDE DEF q, r
  <2>3. q \in Nat /\ q > 0
    BY <2>1, <2>2 DEF q, r
  <2> QED
    BY <2>3 DEF q
<1> QED
  BY <1>1, BufAssumption DEF HalfAssumption, Half

(* append_string and append_message_id write numbers in two bytes.           *)
LEMMA TwoBytesHold ==
  ASSUME NEW n \in Nat
  PROVE  /\ TwoBytes(n) \in Seq(Nat) /\ Len(TwoBytes(n)) = 2
         /\ TwoBytes(n)[1] * Base + TwoBytes(n)[2] = n
<1>1. (n \div Base) * Base + (n % Base) = n /\ n % Base \in Nat /\ n \div Base \in Nat
  BY BaseAssumption, DivMod
<1> DEFINE q == n \div Base
           r == n % Base
<1>2. TwoBytes(n) = <<q, r>> /\ q \in Nat /\ r \in Nat
  BY <1>1 DEF TwoBytes
<1> HIDE DEF q, r
<1>3. <<q, r>> \in Seq(Nat) /\ Len(<<q, r>>) = 2 /\ <<q, r>>[1] = q /\ <<q, r>>[2] = r
  BY <1>2
<1> QED
  BY <1>1, <1>2, <1>3 DEF q, r

(* What stands behind what.                                                  *)
LEMMA Joined ==
  ASSUME NEW s \in Seq(Nat), NEW t \in Seq(Nat)
  PROVE  /\ s \o t \in Seq(Nat) /\ Len(s \o t) = Len(s) + Len(t)
         /\ \A v \in 1 .. Len(s) : (s \o t)[v] = s[v]
         /\ \A v \in 1 .. Len(t) : (s \o t)[Len(s) + v] = t[v]
<1>1. /\ s \o t \in Seq(Nat) /\ Len(s \o t) = Len(s) + Len(t)
      /\ \A v \in 1 .. Len(s) + Len(t) : (s \o t)[v] =
           IF v <= Len(s) THEN s[v] ELSE t[v - Len(s)]
  BY ConcatProperties
<1>2. Len(s) \in Nat /\ Len(t) \in Nat
  OBVIOUS
<1>3. ASSUME NEW v \in 1 .. Len(s) PROVE (s \o t)[v] = s[v]
  BY <1>1, <1>2
<1>4. ASSUME NEW v \in 1 .. Len(t) PROVE (s \o t)[Len(s) + v] = t[v]
  <2>1. Len(s) + v \in 1 .. Len(s) + Len(t) /\ ~(Len(s) + v <= Len(s)) /\ Len(s) + v - Len(s) = v
    BY <1>2
  <2> QED
    BY <1>1, <2>1
<1> QED
  BY <1>1, <1>3, <1>4

(* A text in a packet: its length and its bytes.                             *)
Enc(s) == TwoBytes(Len(s)) \o s

(* append_string writes the length and then the bytes.                       *)
LEMMA EncHolds ==
  ASSUME NEW s \in Seq(Nat)
  PROVE  /\ Enc(s) \in Seq(Nat) /\ Len(Enc(s)) = 2 + Len(s)
         /\ Enc(s)[1] * Base + Enc(s)[2] = Len(s)
         /\ \A v \in 1 .. Len(s) : Enc(s)[2 + v] = s[v]
<1> DEFINE w == TwoBytes(Len(s))
<1>0. Len(s) \in Nat
  OBVIOUS
<1>1. w \in Seq(Nat) /\ Len(w) = 2 /\ w[1] * Base + w[2] = Len(s)
  BY <1>0, TwoBytesHold
<1>2. Enc(s) = w \o s
  BY DEF Enc
<1> HIDE DEF w
<1>3. /\ w \o s \in Seq(Nat) /\ Len(w \o s) = 2 + Len(s)
      /\ (w \o s)[1] = w[1] /\ (w \o s)[2] = w[2]
      /\ \A v \in 1 .. Len(s) : (w \o s)[2 + v] = s[v]
  <2>1. /\ w \o s \in Seq(Nat) /\ Len(w \o s) = Len(w) + Len(s)
        /\ \A v \in 1 .. Len(w) : (w \o s)[v] = w[v]
        /\ \A v \in 1 .. Len(s) : (w \o s)[Len(w) + v] = s[v]
    BY <1>1, Joined
  <2> QED
    BY <1>1, <2>1
<1> QED
  BY <1>1, <1>2, <1>3

(* Messages under construction.                                              *)
Room(b) == b \in Seq(Nat) /\ MQTT_MAX_FIXED_HEADER_SIZE + Len(b) <= BufLen
Bodies(bs) == bs = {} \/ \E b \in Seq(Nat) : bs = {b} /\ Room(b)

(* init_message, then bytes appended one behind the other: all of them or    *)
(* none.                                                                     *)
LEMMA BodyStarts == Bodies(init_message) /\ Room(<<>>)
<1>1. <<>> \in Seq(Nat) /\ Len(<<>>) = 0
  OBVIOUS
<1>2. BufLen >= 3 /\ BufLen \in Nat
  BY HalfIs DEF HalfAssumption
<1>3. Room(<<>>)
  BY <1>1, <1>2 DEF Room, MQTT_MAX_FIXED_HEADER_SIZE
<1> QED
  BY <1>1, <1>3 DEF Bodies, init_message

(* append adds the bytes behind what is there, or refuses.                   *)
LEMMA BodyGrows ==
  ASSUME NEW bs, Bodies(bs), NEW s \in Seq(Nat)
  PROVE  /\ Bodies(append(bs, s))
         /\ append(bs, s) # {} => \E b \in Seq(Nat) :
              bs = {b} /\ append(bs, s) = {b \o s} /\ Room(b \o s)
<1>1. CASE bs = {}
  BY <1>1 DEF append, Bodies
<1>2. CASE bs # {}
  <2>1. PICK b \in Seq(Nat) : bs = {b} /\ Room(b)
    BY <1>2 DEF Bodies
  <2>2. append(bs, s) = IF Fits(b, Len(s)) THEN {b \o s} ELSE {}
    BY <2>1 DEF append
  <2>3. b \o s \in Seq(Nat) /\ Len(b \o s) = Len(b) + Len(s)
    OBVIOUS
  <2>4. Fits(b, Len(s)) => Room(b \o s)
    BY <2>3 DEF Fits, Room, MQTT_MAX_FIXED_HEADER_SIZE
  <2> QED
    BY <2>1, <2>2, <2>3, <2>4 DEF Bodies
<1> QED
  BY <1>1, <1>2
----------------------------------------------------------------------------
(* The fixed header of a packet with this body.                              *)
HeaderLen(b) == IF Len(b) > Half - 1 THEN 3 ELSE 2

(* A packet: the fixed header says how long the body is, and the body        *)
(* follows it.                                                               *)
IsPacket(m, b) ==
  /\ m \in Seq(Nat) /\ b \in Seq(Nat)
  /\ Len(m) = HeaderLen(b) + Len(b) /\ Len(m) <= BufLen
  /\ \A v \in 1 .. Len(b) : m[HeaderLen(b) + v] = b[v]
  /\ \A v \in 2 .. HeaderLen(b) : m[v] < Half <=> v = HeaderLen(b)
  /\ HeaderLen(b) = 2 => m[2] % Half = Len(b)
  /\ HeaderLen(b) = 3 => (m[2] % Half) + (m[3] % Half) * Half = Len(b)

(* fini_message puts a head in front that tells the length of the body.      *)
LEMMA HeaderSays ==
  ASSUME NEW b, Room(b), NEW type \in Nat, NEW qos \in 0 .. 3, NEW retain \in 0 .. 1
  PROVE  LET m == fini_message({b}, type, qos, retain)
         IN  IsPacket(m, b) /\ m[1] = HeadByte(type, qos, retain)
<1> DEFINE n == Len(b)
           h == HeadByte(type, qos, retain)
           m == fini_message({b}, type, qos, retain)
<1>0. HalfAssumption
  BY HalfIs
<1>1. /\ b \in Seq(Nat) /\ n \in Nat /\ 3 + n <= BufLen /\ Half \in Nat /\ Half > 0
      /\ h \in Nat
  BY <1>0 DEF Room, MQTT_MAX_FIXED_HEADER_SIZE, HalfAssumption, HeadByte
<1>2. n < Half * Half
  BY <1>0, <1>1 DEF HalfAssumption
<1>3. CASE n > Half - 1
  <2> DEFINE q == n \div Half
             r == n % Half
             d == Half + r
             head == <<h>> \o <<d, q>>
  <2>1. q \in Nat /\ r \in 0 .. Half - 1 /\ q * Half + r = n /\ q < Half
    BY <1>1, <1>2, DivMod, TwoDigits
  <2>2. m = (<<h>> \o <<d, q>>) \o b
    BY <1>3 DEF fini_message
  <2> HIDE DEF q, r
  <2>3. d \in Nat /\ ~(d < Half) /\ d % Half = r /\ q % Half = q
    BY <1>1, <2>1, DigitRead, SMTT(30)
  <2> HIDE DEF d, h
  <2>4. head \in Seq(Nat) /\ Len(head) = 3 /\ head[1] = h /\ head[2] = d /\ head[3] = q
    BY <1>1, <2>1, <2>3
  <2> HIDE DEF head
  <2>5. /\ head \o b \in Seq(Nat) /\ Len(head \o b) = 3 + n
        /\ (head \o b)[1] = h /\ (head \o b)[2] = d /\ (head \o b)[3] = q
        /\ \A v \in 1 .. n : (head \o b)[3 + v] = b[v]
    <3>1. /\ head \o b \in Seq(Nat) /\ Len(head \o b) = Len(head) + Len(b)
          /\ \A v \in 1 .. Len(head) : (head \o b)[v] = head[v]
          /\ \A v \in 1 .. Len(b) : (head \o b)[Len(head) + v] = b[v]
      BY <1>1, <2>4, Joined
    <3> QED
      BY <2>4, <3>1, SMTT(30)
  <2>6. m = head \o b
    BY <2>2 DEF head
  <2>7. HeaderLen(b) = 3
    BY <1>3 DEF HeaderLen
  <2> HIDE DEF m
  <2>8. \A v \in 2 .. 3 : m[v] < Half <=> v = 3
    BY <2>1, <2>3, <2>5, <2>6
  <2>9. /\ m \in Seq(Nat) /\ Len(m) = 3 + n /\ m[1] = h
        /\ \A v \in 1 .. n : m[3 + v] = b[v]
        /\ (m[2] % Half) + (m[3] % Half) * Half = n
    <3>1. m[2] % Half = r /\ m[3] % Half = q
      BY <2>3, <2>5, <2>6
    <3>2. r + q * Half = n
      BY <1>1, <2>1
    <3> QED
      BY <2>5, <2>6, <3>1, <3>2
  <2>10. Len(m) <= BufLen
    BY <1>1, <2>9
  <2>11. IsPacket(m, b)
    BY <1>1, <2>7, <2>8, <2>9, <2>10 DEF IsPacket
  <2> QED
    BY <2>9, <2>11 DEF m, h
<1>4. CASE ~(n > Half - 1)
  <2> DEFINE head == <<h>> \o <<n>>
  <2>1. m = head \o b
    BY <1>4 DEF fini_message
  <2> HIDE DEF h
  <2>2. head \in Seq(Nat) /\ Len(head) = 2 /\ head[1] = h /\ head[2] = n
    BY <1>1
  <2> HIDE DEF head
  <2>3. /\ head \o b \in Seq(Nat) /\ Len(head \o b) = 2 + n
        /\ (head \o b)[1] = h /\ (head \o b)[2] = n
        /\ \A v \in 1 .. n : (head \o b)[2 + v] = b[v]
    <3>1. /\ head \o b \in Seq(Nat) /\ Len(head \o b) = Len(head) + Len(b)
          /\ \A v \in 1 .. Len(head) : (head \o b)[v] = head[v]
          /\ \A v \in 1 .. Len(b) : (head \o b)[Len(head) + v] = b[v]
      BY <1>1, <2>2, Joined
    <3> QED
      BY <2>2, <3>1
  <2>4. n < Half /\ n % Half = n
    BY <1>1, <1>4, DigitRead, SMTT(30)
  <2>5. HeaderLen(b) = 2
    BY <1>4 DEF HeaderLen
  <2> HIDE DEF m
  <2>6. \A v \in 2 .. 2 : m[v] < Half <=> v = 2
    BY <2>1, <2>3, <2>4
  <2>7. /\ m \in Seq(Nat) /\ Len(m) = 2 + n /\ m[1] = h
        /\ \A v \in 1 .. n : m[2 + v] = b[v]
        /\ m[2] % Half = n
    BY <2>1, <2>3, <2>4
  <2>8. Len(m) <= BufLen
    <3>1. ASSUME NEW k \in Nat, 3 + k <= BufLen PROVE 2 + k <= BufLen
      BY HalfIs, <3>1 DEF HalfAssumption
    <3> QED
      BY <1>1, <2>7, <3>1
  <2>9. IsPacket(m, b)
    BY <1>1, <2>5, <2>6, <2>7, <2>8 DEF IsPacket
  <2> QED
    BY <2>7, <2>9 DEF m, h
<1> QED
  BY <1>3, <1>4

(* The macros of mqtt_msg.h read the first byte.                             *)
LEMMA HeadRead ==
  ASSUME NEW m, NEW type \in Nat, NEW qos \in 0 .. 3, NEW retain \in 0 .. 1,
         m[1] = HeadByte(type, qos, retain)
  PROVE  /\ mqtt_get_type(m) = type /\ mqtt_get_qos(m) = qos /\ mqtt_get_retain(m) = retain
<1> DEFINE h == 16 * type + 2 * qos + retain
<1>1. At(m, 0) = h
  BY DEF At, HeadByte
<1>2. h \div 16 = type
  OBVIOUS
<1>3. h \div 2 = 8 * type + qos /\ h % 2 = retain
  OBVIOUS
<1>4. (8 * type + qos) % 4 = qos
  OBVIOUS
<1> HIDE DEF h
<1> QED
  BY <1>1, <1>2, <1>3, <1>4 DEF mqtt_get_type, mqtt_get_qos, mqtt_get_retain

(* The start of a packet, cut by the end of a segment.                       *)
LEMMA CutIs ==
  ASSUME NEW m, NEW b, IsPacket(m, b), NEW n \in 1 .. Len(m)
  PROVE  LET cut == SubSeq(m, 1, n)
         IN  /\ cut \in Seq(Nat) /\ Len(cut) = n
             /\ \A v \in 1 .. n : cut[v] = m[v]
BY DEF IsPacket

(* mqtt_get_total_length and its siblings find the end of the fixed header   *)
(* in it, when it came.                                                      *)
LEMMA LengthRead ==
  ASSUME NEW m, NEW b, IsPacket(m, b), NEW n \in 1 .. Len(m)
  PROVE  LET cut == SubSeq(m, 1, n)
         IN  /\ AfterLength(cut) = IF n < HeaderLen(b) THEN n ELSE HeaderLen(b)
             /\ n >= HeaderLen(b) => mqtt_get_total_length(cut) = Len(m)
<1> DEFINE cut == SubSeq(m, 1, n)
           H == HeaderLen(b)
           last == {v \in 1 .. Len(cut) - 1 : At(cut, v) < Half}
<1>1. cut \in Seq(Nat) /\ Len(cut) = n /\ \A v \in 1 .. n : cut[v] = m[v]
  BY CutIs
<1>2. /\ H \in {2, 3} /\ n \in Nat /\ n >= 1
      /\ \A v \in 2 .. H : m[v] < Half <=> v = H
      /\ Len(m) = H + Len(b) /\ Len(b) \in Nat /\ m \in Seq(Nat)
      /\ H = 2 => m[2] % Half = Len(b)
      /\ H = 3 => (m[2] % Half) + (m[3] % Half) * Half = Len(b)
  BY DEF IsPacket, HeaderLen
<1> HIDE DEF cut, H
<1>3. \A v \in 1 .. n - 1 : At(cut, v) = m[v + 1]
  BY <1>1, <1>2 DEF At
<1>4. \A v \in 1 .. n - 1 : v < H => (v \in last <=> v + 1 = H)
  BY <1>1, <1>2, <1>3
<1>5. CASE n < H
  <2>1. \A v \in 1 .. n - 1 : v < H /\ v + 1 # H
    BY <1>2, <1>5
  <2>2. last = {}
    BY <1>1, <1>4, <2>1
  <2>3. AfterLength(cut) = n
    BY <1>1, <2>2 DEF AfterLength
  <2>4. ~(n >= H)
    BY <1>2, <1>5
  <2> QED
    BY <1>5, <2>3, <2>4 DEF cut, H
<1>6. CASE n >= H
  <2>1. H - 1 \in last
    BY <1>2, <1>4, <1>6
  <2>2. \A v \in last : v >= H - 1
    BY <1>1, <1>2, <1>4
  <2>3. (CHOOSE v \in last : \A j \in last : v <= j) = H - 1
    <3>1. \A j \in last : H - 1 <= j
      BY <1>2, <2>2
    <3>2. last \subseteq Nat
      OBVIOUS
    <3>3. ASSUME NEW v \in last, \A j \in last : v <= j
          PROVE v = H - 1
      BY <1>2, <2>1, <2>2, <3>2, <3>3
    <3> HIDE DEF last
    <3> QED
      BY <2>1, <3>1, <3>3
  <2>4. AfterLength(cut) = H
    <3>1. last # {} /\ 1 + (H - 1) = H
      BY <1>2, <2>1, SMTT(30)
    <3>2. AfterLength(cut) = 1 + (CHOOSE v \in last : \A j \in last : v <= j)
      BY <3>1 DEF AfterLength
    <3> QED
      BY ONLY <2>3, <3>1, <3>2
  <2>5. H = 2 => RemainingLength(cut) = Len(b)
    <3>1. ASSUME H = 2 PROVE At(cut, 1) = m[2]
      BY <1>2, <1>3, <1>6, <3>1
    <3>2. Half \in Nat /\ Len(b) + 0 * Half = Len(b)
      BY <1>2, HalfIs DEF HalfAssumption
    <3> QED
      BY <1>2, <2>4, <3>1, <3>2 DEF RemainingLength
  <2>6. H = 3 => RemainingLength(cut) = Len(b)
    <3>1. ASSUME H = 3 PROVE At(cut, 1) = m[2] /\ At(cut, 2) = m[3]
      BY <1>2, <1>3, <1>6, <3>1
    <3> QED
      BY <1>2, <2>4, <3>1 DEF RemainingLength
  <2>7. mqtt_get_total_length(cut) = Len(m)
    BY <1>2, <2>4, <2>5, <2>6, SMTT(30) DEF mqtt_get_total_length
  <2> QED
    BY <1>2, <1>6, <2>4, <2>7 DEF cut, H
<1> QED
  BY <1>2, <1>5, <1>6

(* A segment that ends with the packet does not cut it.                      *)
LEMMA WholePacket ==
  ASSUME NEW m, NEW b, IsPacket(m, b)
  PROVE  /\ Len(m) \in 1 .. Len(m) /\ SubSeq(m, 1, Len(m)) = m
         /\ AfterLength(m) = HeaderLen(b) /\ mqtt_get_total_length(m) = Len(m)
         /\ SubSeq(m, AfterLength(m) + 1, Len(m)) = b
<1>1. /\ m \in Seq(Nat) /\ Len(m) = HeaderLen(b) + Len(b) /\ HeaderLen(b) \in {2, 3}
      /\ b \in Seq(Nat) /\ Len(b) \in Nat
      /\ \A v \in 1 .. Len(b) : m[HeaderLen(b) + v] = b[v]
  BY DEF IsPacket, HeaderLen
<1>2. Len(m) \in 1 .. Len(m) /\ SubSeq(m, 1, Len(m)) = m
  BY <1>1
<1>3. AfterLength(m) = HeaderLen(b) /\ mqtt_get_total_length(m) = Len(m)
  <2>1. Len(m) >= HeaderLen(b) /\ ~(Len(m) < HeaderLen(b))
    BY <1>1
  <2> QED
    <3> DEFINE k == Len(m)
    <3>1. /\ AfterLength(SubSeq(m, 1, k)) = IF k < HeaderLen(b) THEN k ELSE HeaderLen(b)
          /\ k >= HeaderLen(b) => mqtt_get_total_length(SubSeq(m, 1, k)) = Len(m)
      BY <1>2, LengthRead
    <3> QED
      BY <1>2, <2>1, <3>1
<1>4. SubSeq(m, HeaderLen(b) + 1, Len(m)) = b
  <2> DEFINE H == HeaderLen(b)
             t == SubSeq(m, H + 1, Len(m))
  <2> HIDE DEF H
  <2>1. t \in Seq(Nat) /\ Len(t) = Len(b) /\ \A v \in 1 .. Len(b) : t[v] = m[H + v]
    <3>1. H + 1 \in Int /\ Len(m) \in Int /\ Len(m) - (H + 1) + 1 = Len(b)
      BY <1>1 DEF H
    <3>2. \A v \in H + 1 .. Len(m) : m[v] \in Nat
      BY <1>1 DEF H
    <3>3. /\ t \in Seq(Nat) /\ Len(t) = IF H + 1 <= Len(m) THEN Len(m) - (H + 1) + 1 ELSE 0
          /\ \A v \in 1 .. Len(m) - (H + 1) + 1 : t[v] = m[H + 1 + v - 1]
      BY <3>1, <3>2, SubSeqProperties
    <3>4. \A v \in 1 .. Len(b) : H + 1 + v - 1 = H + v
      BY <1>1 DEF H
    <3>5. H + 1 <= Len(m) \/ Len(b) = 0
      BY <1>1 DEF H
    <3> HIDE DEF t
    <3> QED
      BY <3>1, <3>3, <3>4, <3>5
  <2> HIDE DEF t
  <2>2. \A v \in 1 .. Len(t) : t[v] = b[v]
    BY <1>1, <2>1 DEF H
  <2>3. t = b
    BY <1>1, <2>1, <2>2, SeqEqual
  <2> QED
    BY <2>3 DEF t, H
<1> QED
  BY <1>2, <1>3, <1>4
----------------------------------------------------------------------------
(* What a PUBLISH carries behind its fixed header: a topic, an id when it is *)
(* to be acknowledged, and the data.                                         *)
IdLen(qos) == IF qos > 0 THEN 2 ELSE 0
HoldsPublish(b, topic, qos, id, data) ==
  /\ topic \in Seq(Nat) /\ data \in Seq(Nat) /\ qos \in 0 .. 3
  /\ qos = 0 => id = 0
  /\ Len(b) = 2 + Len(topic) + IdLen(qos) + Len(data)
  /\ b[1] * Base + b[2] = Len(topic)
  /\ \A v \in 1 .. Len(topic) : b[2 + v] = topic[v]
  /\ qos > 0 => b[3 + Len(topic)] * Base + b[4 + Len(topic)] = id
  /\ \A v \in 1 .. Len(data) : b[2 + Len(topic) + IdLen(qos) + v] = data[v]

(* Where the data of a PUBLISH starts.                                       *)
DataAt(b, topic, qos) == HeaderLen(b) + 2 + Len(topic) + IdLen(qos)

(* However much of a PUBLISH came: the topic is read when it came whole, id  *)
(* and data when a byte of the data came.                                    *)
LEMMA PublishRead ==
  ASSUME NEW m, NEW b, IsPacket(m, b), NEW n \in 1 .. Len(m),
         NEW topic, NEW qos, NEW id, NEW data, HoldsPublish(b, topic, qos, id, data),
         mqtt_get_type(m) = PUBLISH, mqtt_get_qos(m) = qos
  PROVE  LET cut == SubSeq(m, 1, n)
             D == DataAt(b, topic, qos)
         IN  /\ mqtt_get_publish_topic(cut) =
                  IF HeaderLen(b) + 2 < n /\ HeaderLen(b) + 2 + Len(topic) <= n
                  THEN {topic} ELSE {}
             /\ mqtt_get_publish_data(cut) =
                  IF HeaderLen(b) + 2 < n /\ D < n THEN {SubSeq(data, 1, n - D)} ELSE {}
             /\ mqtt_get_id(cut) = IF HeaderLen(b) + 2 < n /\ D < n THEN id ELSE 0
<1> DEFINE cut == SubSeq(m, 1, n)
           H == HeaderLen(b)
           L == Len(topic)
           K == IdLen(qos)
           D == DataAt(b, topic, qos)
<1>1. cut \in Seq(Nat) /\ Len(cut) = n /\ \A v \in 1 .. n : cut[v] = m[v]
  BY CutIs
<1>2. /\ H \in {2, 3} /\ n \in Nat /\ n >= 1 /\ n <= Len(m) /\ Len(m) = H + Len(b)
      /\ Len(b) \in Nat /\ \A v \in 1 .. Len(b) : m[H + v] = b[v]
  BY DEF IsPacket, HeaderLen
<1>3. /\ L \in Nat /\ Len(data) \in Nat /\ K \in {0, 2} /\ qos \in 0 .. 3
      /\ Len(b) = 2 + L + K + Len(data) /\ D = H + 2 + L + K
      /\ qos = 0 => K = 0 /\ id = 0
      /\ qos > 0 => K = 2 /\ b[3 + L] * Base + b[4 + L] = id
      /\ b[1] * Base + b[2] = L
      /\ \A v \in 1 .. L : b[2 + v] = topic[v]
      /\ \A v \in 1 .. Len(data) : b[2 + L + K + v] = data[v]
      /\ topic \in Seq(Nat) /\ data \in Seq(Nat)
  BY DEF HoldsPublish, IdLen, DataAt
<1>4. /\ AfterLength(cut) = IF n < H THEN n ELSE H
      /\ n >= H => mqtt_get_total_length(cut) = Len(m)
  BY LengthRead
<1> HIDE DEF cut, H, L, K, D
<1>5. mqtt_get_type(cut) = PUBLISH /\ mqtt_get_qos(cut) = qos
  <2>1. At(cut, 0) = At(m, 0)
    BY <1>1, <1>2 DEF At
  <2> QED
    BY <2>1 DEF mqtt_get_type, mqtt_get_qos
<1>6. mqtt_get_id(cut) = PublishId(cut)
  BY <1>5 DEF mqtt_get_id, PUBLISH, PUBACK, PUBREC, PUBREL, PUBCOMP, SUBSCRIBE, SUBACK,
                  UNSUBACK
<1>7. CASE ~(H + 2 < n)
  <2>1. AfterLength(cut) + 2 >= Len(cut)
    BY <1>1, <1>2, <1>4, <1>7
  <2>2. TopicOf(cut) = {}
    BY <2>1 DEF TopicOf
  <2>3. mqtt_get_publish_topic(cut) = {} /\ BehindTopic(cut) = {}
    BY <2>2 DEF mqtt_get_publish_topic, BehindTopic
  <2>4. BehindId(cut) = {}
    BY <2>3 DEF BehindId
  <2>5. mqtt_get_publish_data(cut) = {} /\ PublishId(cut) = 0
    BY <2>4 DEF mqtt_get_publish_data, PublishId
  <2> QED
    BY <1>6, <1>7, <2>3, <2>5 DEF cut, H
<1>8. CASE H + 2 < n
  <2> DEFINE t == [at |-> H + 2, length |-> L]
  <2>1. AfterLength(cut) = H /\ ~(H + 2 >= Len(cut)) /\ mqtt_get_total_length(cut) = Len(m)
    BY <1>1, <1>2, <1>4, <1>8
  <2>2. ASSUME NEW v \in 1 .. n - H, v <= Len(b) PROVE cut[H + v] = b[v]
    <3>1. H + v \in 1 .. n /\ v \in 1 .. Len(b)
      BY <1>2, <2>2
    <3>2. cut[H + v] = m[H + v]
      BY <1>1, <3>1
    <3> QED
      BY <1>2, <3>1, <3>2
  <2>3. Assembled(cut, H) = L
    <3>1. At(cut, H) = b[1] /\ At(cut, H + 1) = b[2]
      <4>1. cut[H + 1] = b[1] /\ cut[H + 2] = b[2]
        BY <1>2, <1>3, <1>8, <2>2
      <4> QED
        BY <1>2, <4>1 DEF At
    <3> QED
      BY <1>3, <3>1 DEF Assembled
  <2>4. TopicOf(cut) = {t}
    BY <2>1, <2>3 DEF TopicOf
  <2>5. t.at = H + 2 /\ t.length = L
    OBVIOUS
  <2> HIDE DEF t
  <2>6. mqtt_get_publish_topic(cut) = IF H + 2 + L <= n THEN {topic} ELSE {}
    <3>1. mqtt_get_publish_topic(cut) =
            IF H + 2 + L <= n THEN {Bytes(cut, H + 2, L)} ELSE {}
      BY <1>1, <2>4, <2>5 DEF mqtt_get_publish_topic
    <3>2. ASSUME H + 2 + L <= n PROVE Bytes(cut, H + 2, L) = topic
      <4> DEFINE s == SubSeq(cut, H + 2 + 1, H + 2 + L)
      <4>1. \A v \in H + 2 + 1 .. H + 2 + L : cut[v] \in Nat
        <5>1. \A v \in H + 2 + 1 .. H + 2 + L : v \in 1 .. n
          BY <1>2, <1>3, <3>2
        <5> QED
          BY <1>1, <5>1
      <4>2. /\ s \in Seq(Nat)
            /\ Len(s) = IF H + 2 + 1 <= H + 2 + L THEN H + 2 + L - (H + 2 + 1) + 1 ELSE 0
            /\ \A v \in 1 .. H + 2 + L - (H + 2 + 1) + 1 : s[v] = cut[H + 2 + 1 + v - 1]
        BY <1>2, <1>3, <4>1, SubSeqProperties
      <4> HIDE DEF s
      <4>3. Len(s) = L
        <5>1. \A h, l \in Nat : (IF h + 2 + 1 <= h + 2 + l THEN h + 2 + l - (h + 2 + 1) + 1
                                ELSE 0) = l
          OBVIOUS
        <5>2. H \in Nat /\ L \in Nat
          BY <1>2, <1>3
        <5>3. Len(s) = IF H + 2 + 1 <= H + 2 + L THEN H + 2 + L - (H + 2 + 1) + 1 ELSE 0
          BY <4>2
        <5>4. (IF H + 2 + 1 <= H + 2 + L THEN H + 2 + L - (H + 2 + 1) + 1 ELSE 0) = L
          BY <5>1, <5>2, Zenon
        <5> QED
          BY ONLY <5>3, <5>4
      <4>4. ASSUME NEW v \in 1 .. L PROVE s[v] = topic[v]
        <5>1. s[v] = cut[H + (2 + v)]
          <6>1. H + 2 + 1 + v - 1 = H + (2 + v) /\ v \in 1 .. H + 2 + L - (H + 2 + 1) + 1
            BY <1>2, <1>3
          <6> QED
            BY <4>2, <6>1
        <5>2. 2 + v \in 1 .. n - H /\ 2 + v <= Len(b)
          BY <1>2, <1>3, <3>2
        <5> QED
          BY <1>3, <2>2, <5>1, <5>2
      <4>5. s = topic
        <5>1. Len(topic) = L
          BY DEF L
        <5> QED
          BY <1>3, <4>2, <4>3, <4>4, <5>1, SeqEqual
      <4> QED
        BY <4>5 DEF Bytes, s
    <3> QED
      BY <3>1, <3>2
  <2>7. BehindTopic(cut) = IF H + 2 + L < n THEN {H + 2 + L} ELSE {}
    BY <1>1, <2>4, <2>5 DEF BehindTopic
  <2>8. BehindId(cut) = IF D < n THEN {D} ELSE {}
    <3>1. CASE qos = 0
      BY <1>2, <1>3, <1>5, <2>7, <3>1 DEF BehindId
    <3>2. CASE qos # 0
      <4>1. K = 2 /\ D = H + 2 + L + 2
        BY <1>3, <3>2
      <4>2. BehindId(cut) = {v + 2 : v \in {x \in BehindTopic(cut) : x + 2 < n}}
        BY <1>1, <1>5, <3>2 DEF BehindId
      <4>3. CASE H + 2 + L < n
        <5>1. BehindTopic(cut) = {H + 2 + L}
          BY <2>7, <4>3
        <5> QED
          BY <4>1, <4>2, <5>1
      <4>4. CASE ~(H + 2 + L < n)
        <5>1. BehindTopic(cut) = {} /\ ~(D < n)
          BY <1>2, <1>3, <2>7, <4>1, <4>4
        <5> QED
          BY <4>2, <5>1
      <4> QED
        BY <4>3, <4>4
    <3> QED
      BY <3>1, <3>2
  <2>9. mqtt_get_publish_data(cut) = IF D < n THEN {SubSeq(data, 1, n - D)} ELSE {}
    <3>1. CASE ~(D < n)
      BY <2>8, <3>1 DEF mqtt_get_publish_data
    <3>2. CASE D < n
      <4>1. BehindId(cut) = {D} /\ Len(m) >= D /\ (IF Len(m) <= n THEN Len(m) ELSE n) = n
        <5>1. Len(m) \in Nat /\ D \in Nat /\ n <= Len(m) /\ D < n
          BY <1>2, <1>3, <3>2
        <5>2. Len(m) >= D /\ (Len(m) <= n => Len(m) = n)
          BY <1>2, <5>1
        <5> QED
          BY <2>8, <3>2, <5>2
      <4>2. mqtt_get_publish_data(cut) = {Bytes(cut, D, n - D)}
        BY <1>1, <2>1, <4>1 DEF mqtt_get_publish_data
      <4> DEFINE s == SubSeq(cut, D + 1, D + (n - D))
                 u == SubSeq(data, 1, n - D)
      <4>3. n - D \in 1 .. Len(data) /\ D \in Nat /\ D + (n - D) = n /\ n - (D + 1) + 1 = n - D
        BY <1>2, <1>3, <3>2
      <4>4. /\ s \in Seq(Nat) /\ Len(s) = n - D
            /\ \A v \in 1 .. n - D : s[v] = cut[D + 1 + v - 1]
        <5>1. \A v \in D + 1 .. D + (n - D) : cut[v] \in Nat
          <6>1. \A v \in D + 1 .. D + (n - D) : v \in 1 .. n
            BY <1>2, <4>3
          <6> QED
            BY <1>1, <6>1
        <5>2. /\ s \in Seq(Nat)
              /\ Len(s) = IF D + 1 <= D + (n - D) THEN D + (n - D) - (D + 1) + 1 ELSE 0
              /\ \A v \in 1 .. D + (n - D) - (D + 1) + 1 : s[v] = cut[D + 1 + v - 1]
          BY <1>2, <4>3, <5>1, SubSeqProperties
        <5> HIDE DEF s
        <5> QED
          BY <1>2, <4>3, <5>2
      <4>5. /\ u \in Seq(Nat) /\ Len(u) = n - D
            /\ \A v \in 1 .. n - D : u[v] = data[v]
        <5>1. n - D \in Int /\ n - D - 1 + 1 = n - D /\ 1 <= n - D
          BY <1>2, <4>3
        <5>2. \A v \in 1 .. n - D : data[v] \in Nat
          <6>1. \A v \in 1 .. n - D : v \in 1 .. Len(data)
            BY <1>2, <1>3, <4>3
          <6>2. data \in Seq(Nat)
            BY <1>3
          <6> QED
            BY <6>1, <6>2, ElementOfSeq
        <5>3. /\ u \in Seq(Nat) /\ Len(u) = IF 1 <= n - D THEN n - D - 1 + 1 ELSE 0
              /\ \A v \in 1 .. n - D - 1 + 1 : u[v] = data[1 + v - 1]
          BY <5>1, <5>2, SubSeqProperties
        <5>4. \A v \in 1 .. n - D : 1 + v - 1 = v
          BY <5>1
        <5> HIDE DEF u
        <5> QED
          BY <5>1, <5>3, <5>4
      <4>6. ASSUME NEW v \in 1 .. n - D PROVE s[v] = u[v]
        <5>1. D + 1 + v - 1 = H + (2 + L + K + v) /\ v \in 1 .. Len(data)
          BY <1>2, <1>3, <4>3
        <5>2. 2 + L + K + v \in 1 .. n - H /\ 2 + L + K + v <= Len(b)
          BY <1>2, <1>3, <4>3, <5>1
        <5> HIDE DEF s, u
        <5>3. s[v] = cut[H + (2 + L + K + v)]
          BY <4>4, <5>1
        <5> QED
          BY <1>3, <2>2, <4>5, <5>1, <5>2, <5>3
      <4>7. s = u
        <5> HIDE DEF s, u
        <5> QED
          BY <4>4, <4>5, <4>6, SeqEqual
      <4> QED
        BY <3>2, <4>2, <4>7 DEF Bytes
    <3> QED
      BY <3>1, <3>2
  <2>10. PublishId(cut) = IF D < n THEN id ELSE 0
    <3>1. CASE qos = 0
      BY <1>3, <1>5, <3>1 DEF PublishId
    <3>2. CASE qos # 0 /\ ~(D < n)
      BY <2>8, <3>2 DEF PublishId
    <3>3. CASE qos # 0 /\ D < n
      <4>1. BehindId(cut) = {D} /\ (CHOOSE v \in {D} : TRUE) = D
        BY <2>8, <3>3
      <4>2. PublishId(cut) = Assembled(cut, D - 2)
        BY <1>5, <3>3, <4>1 DEF PublishId
      <4>3. At(cut, D - 2) = b[3 + L] /\ At(cut, D - 2 + 1) = b[4 + L]
        <5>1. /\ D - 2 + 1 = H + (3 + L) /\ D - 2 + 1 + 1 = H + (4 + L)
              /\ 3 + L \in 1 .. n - H /\ 4 + L \in 1 .. n - H
              /\ 3 + L <= Len(b) /\ 4 + L <= Len(b)
          BY <1>2, <1>3, <3>3
        <5> QED
          BY <2>2, <5>1 DEF At
      <4> QED
        BY <1>3, <3>3, <4>2, <4>3, SMTT(30) DEF Assembled
    <3> QED
      BY <3>1, <3>2, <3>3
  <2> QED
    BY <1>6, <1>8, <2>6, <2>9, <2>10 DEF cut, H, L, D
<1> QED
  BY <1>7, <1>8
----------------------------------------------------------------------------
(* Every packet that fini_message wrote: its body, and what the readers say. *)
LEMMA PacketWritten ==
  ASSUME NEW bs, Bodies(bs), NEW type \in Nat, NEW qos \in 0 .. 3, NEW retain \in 0 .. 1,
         NEW m, m = fini_message(bs, type, qos, retain), m # <<>>
  PROVE  \E b \in Seq(Nat) :
           /\ bs = {b} /\ IsPacket(m, b) /\ Len(m) <= BufLen
           /\ mqtt_get_type(m) = type /\ mqtt_get_qos(m) = qos /\ mqtt_get_retain(m) = retain
           /\ mqtt_get_total_length(m) = Len(m)
<1>1. bs # {}
  BY DEF fini_message
<1>2. PICK b \in Seq(Nat) : bs = {b} /\ Room(b)
  BY <1>1 DEF Bodies
<1>3. IsPacket(m, b) /\ m[1] = HeadByte(type, qos, retain)
  <2>1. LET w == fini_message({b}, type, qos, retain)
        IN  IsPacket(w, b) /\ w[1] = HeadByte(type, qos, retain)
    <3>1. Room(b) /\ type \in Nat /\ qos \in 0 .. 3 /\ retain \in 0 .. 1
      BY <1>2
    <3> QED
      BY ONLY <3>1, HeaderSays
  <2> QED
    BY <1>2, <2>1, Zenon
<1>4. mqtt_get_type(m) = type /\ mqtt_get_qos(m) = qos /\ mqtt_get_retain(m) = retain
  BY <1>3, HeadRead
<1>5. mqtt_get_total_length(m) = Len(m) /\ Len(m) <= BufLen
  BY <1>3, WholePacket DEF IsPacket
<1> QED
  BY <1>2, <1>3, <1>4, <1>5

(* mqtt_get_id finds the id of a packet whose length is one byte.            *)
LEMMA IdRead ==
  ASSUME NEW m, NEW b, IsPacket(m, b), NEW id, Len(b) >= 2, b[1] * Base + b[2] = id,
         mqtt_get_type(m) \in {PUBACK, PUBREC, PUBREL, PUBCOMP, SUBSCRIBE},
         At(m, 1) < Half
  PROVE  mqtt_get_id(m) = id
<1>1. HeaderLen(b) = 2
  <2>1. m[2] < Half /\ HeaderLen(b) \in {2, 3}
    BY DEF At, HeaderLen
  <2>2. m[2] < Half <=> 2 = HeaderLen(b)
    BY <2>1 DEF IsPacket
  <2> QED
    BY <2>1, <2>2
<1>2. /\ Len(m) = 2 + Len(b) /\ Len(b) \in Nat
      /\ \A v \in 1 .. Len(b) : m[2 + v] = b[v]
  BY <1>1 DEF IsPacket
<1>3. m[3] = b[1] /\ m[4] = b[2] /\ Len(m) >= 4
  BY <1>2
<1>4. Assembled(m, 2) = id
  BY <1>3 DEF Assembled, At
<1> QED
  BY <1>3, <1>4
     DEF mqtt_get_id, PUBLISH, PUBACK, PUBREC, PUBREL, PUBCOMP, SUBSCRIBE, SUBACK, UNSUBACK

(* mqtt_msg_publish puts topic, id and data where they are looked for.       *)
LEMMA PublishWritten ==
  ASSUME NEW topic \in Seq(Nat), NEW data \in Seq(Nat), NEW qos \in 0 .. 3, NEW id \in Nat,
         NEW named, named = Enc(topic)
  PROVE  /\ qos = 0 => HoldsPublish(named \o data, topic, qos, 0, data)
         /\ qos > 0 => HoldsPublish((named \o TwoBytes(id)) \o data, topic, qos, id, data)
<1> DEFINE L == Len(topic)
           w == TwoBytes(id)
           s == named \o w
<1>1. /\ L \in Nat /\ Len(data) \in Nat
      /\ named \in Seq(Nat) /\ Len(named) = 2 + L /\ named[1] * Base + named[2] = L
      /\ \A v \in 1 .. L : named[2 + v] = topic[v]
  <2>1. /\ Enc(topic) \in Seq(Nat) /\ Len(Enc(topic)) = 2 + Len(topic)
        /\ Enc(topic)[1] * Base + Enc(topic)[2] = Len(topic)
        /\ \A v \in 1 .. Len(topic) : Enc(topic)[2 + v] = topic[v]
    BY EncHolds
  <2>2. Len(topic) \in Nat /\ Len(data) \in Nat
    OBVIOUS
  <2> QED
    BY <2>1, <2>2
<1>2. w \in Seq(Nat) /\ Len(w) = 2 /\ w[1] * Base + w[2] = id
  BY TwoBytesHold
<1> HIDE DEF w, L
<1>3. /\ s \in Seq(Nat) /\ Len(s) = Len(named) + Len(w)
      /\ \A v \in 1 .. Len(named) : s[v] = named[v]
      /\ \A v \in 1 .. Len(w) : s[Len(named) + v] = w[v]
  BY <1>1, <1>2, Joined
<1> HIDE DEF s
<1>4. /\ Len(s) = 4 + L /\ s[3 + L] = w[1] /\ s[4 + L] = w[2]
      /\ \A v \in 1 .. 2 + L : s[v] = named[v]
  <2>1. 2 + L + 1 = 3 + L /\ 2 + L + 2 = 4 + L
    BY <1>1
  <2> QED
    BY <1>1, <1>2, <1>3, <2>1
<1>5. ASSUME qos = 0 PROVE HoldsPublish(named \o data, topic, qos, 0, data)
  <2> DEFINE b == named \o data
  <2>1. /\ b \in Seq(Nat) /\ Len(b) = Len(named) + Len(data)
        /\ \A v \in 1 .. Len(named) : b[v] = named[v]
        /\ \A v \in 1 .. Len(data) : b[Len(named) + v] = data[v]
    BY <1>1, Joined
  <2>2. IdLen(qos) = 0
    BY <1>5 DEF IdLen
  <2> HIDE DEF b
  <2>3. /\ Len(b) = 2 + L + 0 + Len(data)
        /\ b[1] * Base + b[2] = L
        /\ \A v \in 1 .. L : b[2 + v] = topic[v]
        /\ \A v \in 1 .. Len(data) : b[2 + L + 0 + v] = data[v]
    <3>1. \A v \in 1 .. L : 2 + v \in 1 .. Len(named)
      BY <1>1
    <3>2. 1 \in 1 .. Len(named) /\ 2 \in 1 .. Len(named)
      BY <1>1
    <3>3. 2 + L + 0 = Len(named)
      BY <1>1
    <3> QED
      BY <1>1, <2>1, <3>1, <3>2, <3>3
  <2>4. HoldsPublish(b, topic, qos, 0, data)
    <3>1. Len(b) = 2 + Len(topic) + IdLen(qos) + Len(data) /\ b[1] * Base + b[2] = Len(topic)
      BY <2>2, <2>3 DEF L
    <3>2. /\ \A v \in 1 .. Len(topic) : b[2 + v] = topic[v]
          /\ \A v \in 1 .. Len(data) : b[2 + Len(topic) + IdLen(qos) + v] = data[v]
      BY <2>2, <2>3 DEF L
    <3>3. ~(qos > 0)
      BY <1>5
    <3> QED
      BY <3>1, <3>2, <3>3 DEF HoldsPublish
  <2> QED
    BY <2>4 DEF b
<1>6. ASSUME qos > 0 PROVE HoldsPublish(s \o data, topic, qos, id, data)
  <2> DEFINE b == s \o data
  <2>1. /\ b \in Seq(Nat) /\ Len(b) = Len(s) + Len(data)
        /\ \A v \in 1 .. Len(s) : b[v] = s[v]
        /\ \A v \in 1 .. Len(data) : b[Len(s) + v] = data[v]
    BY <1>1, <1>3, Joined
  <2>2. IdLen(qos) = 2
    BY <1>6 DEF IdLen
  <2> HIDE DEF b
  <2>3. /\ Len(b) = 2 + L + 2 + Len(data)
        /\ b[1] * Base + b[2] = L
        /\ b[3 + L] * Base + b[4 + L] = id
        /\ \A v \in 1 .. L : b[2 + v] = topic[v]
        /\ \A v \in 1 .. Len(data) : b[2 + L + 2 + v] = data[v]
    <3>1. \A v \in 1 .. L : 2 + v \in 1 .. 2 + L /\ 2 + v \in 1 .. Len(s)
      BY <1>1, <1>4
    <3>2. /\ 1 \in 1 .. 2 + L /\ 2 \in 1 .. 2 + L /\ 1 \in 1 .. Len(s) /\ 2 \in 1 .. Len(s)
          /\ 3 + L \in 1 .. Len(s) /\ 4 + L \in 1 .. Len(s)
      BY <1>1, <1>4
    <3>3. 2 + L + 2 = Len(s)
      BY <1>1, <1>4
    <3>4. b[1] = named[1] /\ b[2] = named[2] /\ b[3 + L] = w[1] /\ b[4 + L] = w[2]
      BY <1>4, <2>1, <3>2
    <3>5. \A v \in 1 .. L : b[2 + v] = named[2 + v]
      BY <1>4, <2>1, <3>1
    <3>6. Len(b) = 2 + L + 2 + Len(data)
      BY <2>1, <3>3
    <3>7. \A v \in 1 .. Len(data) : b[2 + L + 2 + v] = data[v]
      BY <2>1, <3>3
    <3> QED
      BY <1>1, <1>2, <3>4, <3>5, <3>6, <3>7
  <2>4. HoldsPublish(b, topic, qos, id, data)
    BY <1>6, <2>2, <2>3 DEF HoldsPublish, L
  <2> QED
    BY <2>4 DEF b
<1> QED
  BY <1>5, <1>6 DEF s, w
----------------------------------------------------------------------------
(* The application's texts are bytes.                                        *)
LEMMA TextsAreBytes ==
  /\ \A t \in Texts \cup Users : t \in Seq(Nat)
  /\ Qos \subseteq 0 .. 3
<1>1. 0 .. Base - 1 \subseteq Nat
  OBVIOUS
<1>2. ASSUME NEW t \in Texts \cup Users PROVE t \in Seq(Nat)
  <2>1. t \in Seq(0 .. Base - 1)
    BY TextsAssumption
  <2> QED
    BY <1>1, <2>1, SeqMonotonic
<1> QED
  BY <1>2, TextsAssumption

(* The first text of a packet.                                               *)
LEMMA FirstText ==
  ASSUME NEW s \in Seq(Nat)
  PROVE  LET bs == append_string(init_message, s)
         IN  Bodies(bs) /\ (bs # {} => bs = {Enc(s)})
<1> DEFINE bs == append_string(init_message, s)
<1>1. bs = append(init_message, Enc(s))
  BY DEF append_string, Enc
<1>2. Enc(s) \in Seq(Nat)
  BY EncHolds
<1>3. /\ Bodies(append(init_message, Enc(s)))
      /\ append(init_message, Enc(s)) # {} => \E b \in Seq(Nat) :
           /\ init_message = {b} /\ append(init_message, Enc(s)) = {b \o Enc(s)}
           /\ Room(b \o Enc(s))
  BY <1>2, BodyStarts, BodyGrows
<1>4. ASSUME bs # {} PROVE bs = {Enc(s)}
  <2>1. PICK b \in Seq(Nat) : init_message = {b} /\ bs = {b \o Enc(s)}
    BY <1>1, <1>3, <1>4
  <2>2. b = <<>>
    BY <2>1 DEF init_message
  <2>3. b \o Enc(s) = Enc(s)
    BY <1>2, <2>2, ConcatEmptySeq
  <2> QED
    BY <2>1, <2>3
<1> QED
  BY <1>1, <1>3, <1>4

(* The first id of a packet.                                                 *)
LEMMA FirstId ==
  ASSUME NEW id \in Nat
  PROVE  LET bs == append_message_id(init_message, id)
         IN  Bodies(bs) /\ (bs # {} => bs = {TwoBytes(id)})
<1> DEFINE bs == append_message_id(init_message, id)
           w == TwoBytes(id)
<1>1. bs = append(init_message, w)
  BY DEF append_message_id
<1>2. w \in Seq(Nat)
  BY TwoBytesHold
<1> HIDE DEF w
<1>3. /\ Bodies(append(init_message, w))
      /\ append(init_message, w) # {} => \E b \in Seq(Nat) :
           init_message = {b} /\ append(init_message, w) = {b \o w} /\ Room(b \o w)
  BY <1>2, BodyStarts, BodyGrows
<1>4. ASSUME bs # {} PROVE bs = {w}
  <2>1. PICK b \in Seq(Nat) : init_message = {b} /\ bs = {b \o w}
    BY <1>1, <1>3, <1>4
  <2>2. b = <<>>
    BY <2>1 DEF init_message
  <2>3. b \o w = w
    BY <1>2, <2>2, ConcatEmptySeq
  <2> QED
    BY <2>1, <2>3
<1> QED
  BY <1>1, <1>3, <1>4 DEF w

(* mqtt_msg_publish: every part of its packet is read back.                  *)
LEMMA PublishReads ==
  ASSUME message_id \in 0 .. Ids - 1,
         NEW topic \in Texts, NEW data \in Texts, NEW qos \in Qos, NEW retain \in 0 .. 1,
         mqtt_msg_publish(topic, data, qos, retain)
  PROVE  ReadsWhatItWrites'
<1> DEFINE m == message'
           id == IF qos > 0 THEN NextId ELSE 0
           named == IF topic = <<>> THEN {} ELSE append_string(init_message, topic)
           numbered == IF qos > 0 THEN append_message_id(named, NextId) ELSE named
           bs == append(numbered, data)
<1>1. m = fini_message(bs, PUBLISH, qos, retain)
  BY DEF mqtt_msg_publish
<1>2. /\ asked'.type = PUBLISH /\ asked'.qos = qos /\ asked'.retain = retain
      /\ asked'.topic = topic /\ asked'.data = data /\ asked'.id = id
  BY DEF mqtt_msg_publish, Wish
<1>3. topic \in Seq(Nat) /\ data \in Seq(Nat) /\ qos \in 0 .. 3 /\ NextId \in Nat
  BY TextsAreBytes, NextIdType, IdsAssumption
<1>4. SUFFICES ASSUME m # <<>> PROVE ReadsWhatItWrites'
  BY DEF ReadsWhatItWrites
<1> HIDE DEF m
<1>5. Bodies(named) /\ (named # {} => named = {Enc(topic)})
  BY <1>3, FirstText DEF Bodies
<1> HIDE DEF named
<1>6. /\ TwoBytes(NextId) \in Seq(Nat) /\ Enc(topic) \in Seq(Nat)
  BY <1>3, TwoBytesHold, EncHolds
<1>7. /\ Bodies(numbered)
      /\ numbered # {} =>
           numbered = {IF qos > 0 THEN Enc(topic) \o TwoBytes(NextId) ELSE Enc(topic)}
  <2>1. CASE qos > 0
    <3>1. numbered = append(named, TwoBytes(NextId))
      BY <2>1 DEF append_message_id
    <3>2. /\ Bodies(append(named, TwoBytes(NextId)))
          /\ append(named, TwoBytes(NextId)) # {} => \E b \in Seq(Nat) :
               /\ named = {b} /\ append(named, TwoBytes(NextId)) = {b \o TwoBytes(NextId)}
               /\ Room(b \o TwoBytes(NextId))
      BY <1>5, <1>6, BodyGrows
    <3>3. ASSUME numbered # {} PROVE numbered = {Enc(topic) \o TwoBytes(NextId)}
      <4>1. PICK b \in Seq(Nat) : named = {b} /\ numbered = {b \o TwoBytes(NextId)}
        BY <3>1, <3>2, <3>3
      <4>2. b = Enc(topic)
        BY <1>5, <4>1
      <4> QED
        BY <4>1, <4>2
    <3> QED
      BY <2>1, <3>1, <3>2, <3>3
  <2>2. CASE ~(qos > 0)
    BY <1>5, <2>2
  <2> QED
    BY <2>1, <2>2
<1> HIDE DEF numbered
<1>8. /\ Bodies(bs)
      /\ bs # {} => \E b \in Seq(Nat) : numbered = {b} /\ bs = {b \o data} /\ Room(b \o data)
  BY <1>3, <1>7, BodyGrows
<1> HIDE DEF bs
<1>9. PICK b \in Seq(Nat) :
        /\ bs = {b} /\ IsPacket(m, b) /\ Len(m) <= BufLen
        /\ mqtt_get_type(m) = PUBLISH /\ mqtt_get_qos(m) = qos /\ mqtt_get_retain(m) = retain
        /\ mqtt_get_total_length(m) = Len(m)
  <2>1. PUBLISH \in Nat
    BY DEF PUBLISH
  <2> QED
    BY <1>1, <1>3, <1>4, <1>8, <2>1, PacketWritten
<1>10. HoldsPublish(b, topic, qos, id, data)
  <2>1. PICK d \in Seq(Nat) : numbered = {d} /\ bs = {d \o data}
    BY <1>8, <1>9
  <2>2. b = d \o data /\ d = IF qos > 0 THEN Enc(topic) \o TwoBytes(NextId) ELSE Enc(topic)
    BY <1>7, <1>9, <2>1
  <2>3. /\ qos = 0 => HoldsPublish(Enc(topic) \o data, topic, qos, 0, data)
        /\ qos > 0 => HoldsPublish((Enc(topic) \o TwoBytes(NextId)) \o data, topic, qos, NextId,
                                data)
    BY <1>3, PublishWritten
  <2>4. CASE qos = 0
    BY <1>3, <2>2, <2>3, <2>4
  <2>5. CASE qos > 0
    BY <1>3, <2>2, <2>3, <2>5
  <2> QED
    BY <1>3, <2>4, <2>5
<1> HIDE DEF id
<1> DEFINE H == HeaderLen(b)
           D == DataAt(b, topic, qos)
<1>11. ASSUME NEW n \in 1 .. Len(m)
       PROVE  /\ mqtt_get_publish_topic(SubSeq(m, 1, n)) =
                   IF H + 2 < n /\ H + 2 + Len(topic) <= n THEN {topic} ELSE {}
              /\ mqtt_get_publish_data(SubSeq(m, 1, n)) =
                   IF H + 2 < n /\ D < n THEN {SubSeq(data, 1, n - D)} ELSE {}
              /\ mqtt_get_id(SubSeq(m, 1, n)) = IF H + 2 < n /\ D < n THEN id ELSE 0
  BY <1>9, <1>10, PublishRead
<1>12. /\ Len(m) = D + Len(data) /\ D >= H + 2 + Len(topic) /\ H \in Nat /\ D \in Nat
       /\ Len(topic) \in Nat /\ Len(data) \in Nat
  <2>1. /\ Len(m) = H + Len(b) /\ H \in Nat
    BY <1>9 DEF IsPacket, HeaderLen
  <2>2. Len(b) = 2 + Len(topic) + IdLen(qos) + Len(data)
    BY <1>10 DEF HoldsPublish
  <2>3. IdLen(qos) \in Nat /\ D = H + 2 + Len(topic) + IdLen(qos)
    BY DEF IdLen, DataAt
  <2>4. Len(topic) \in Nat /\ Len(data) \in Nat
    BY <1>3
  <2> DEFINE l == Len(topic)
             e == Len(data)
             v == IdLen(qos)
  <2>5. /\ Len(m) = H + (2 + l + v + e) /\ D = H + 2 + l + v
        /\ H \in Nat /\ l \in Nat /\ e \in Nat /\ v \in Nat
    BY <2>1, <2>2, <2>3, <2>4
  <2> HIDE DEF H, D, l, e, v
  <2>6. Len(m) = D + e /\ D >= H + 2 + l /\ D \in Nat
    BY ONLY <2>5
  <2> QED
    BY <2>5, <2>6 DEF l, e
<1> HIDE DEF H, D
<1>13. ASSUME data # <<>>
       PROVE  /\ mqtt_get_id(m) = id /\ mqtt_get_publish_topic(m) = {topic}
              /\ mqtt_get_publish_data(m) = {data}
  <2>1. Len(m) \in 1 .. Len(m) /\ SubSeq(m, 1, Len(m)) = m
    BY <1>9, WholePacket
  <2>2. Len(data) > 0
    <3>1. Len(data) \in Nat \ {0}
      BY <1>3, <1>13, EmptySeq
    <3> QED
      BY <3>1
  <2>3. H + 2 < Len(m) /\ H + 2 + Len(topic) <= Len(m) /\ D < Len(m) /\ Len(m) - D = Len(data)
    BY <1>12, <2>2
  <2>4. SubSeq(data, 1, Len(data)) = data
    BY <1>3, SubSeqFull
  <2>5. /\ mqtt_get_publish_topic(SubSeq(m, 1, Len(m))) = {topic}
        /\ mqtt_get_publish_data(SubSeq(m, 1, Len(m))) = {SubSeq(data, 1, Len(m) - D)}
        /\ mqtt_get_id(SubSeq(m, 1, Len(m))) = id
    BY <1>11, <2>1, <2>3
  <2> QED
    BY <2>1, <2>3, <2>4, <2>5
<1>14. ASSUME NEW n \in 1 .. Len(m)
       PROVE  /\ mqtt_get_id(SubSeq(m, 1, n)) \in {0, id}
              /\ WholeOf(mqtt_get_publish_topic(SubSeq(m, 1, n)), topic)
              /\ StartOf(mqtt_get_publish_data(SubSeq(m, 1, n)), data)
  <2>1. mqtt_get_id(SubSeq(m, 1, n)) \in {0, id}
    BY <1>11
  <2>2. WholeOf(mqtt_get_publish_topic(SubSeq(m, 1, n)), topic)
    <3>1. mqtt_get_publish_topic(SubSeq(m, 1, n)) \in {{topic}, {}}
      BY <1>11
    <3> QED
      BY <3>1 DEF WholeOf
  <2>3. StartOf(mqtt_get_publish_data(SubSeq(m, 1, n)), data)
    <3>1. CASE H + 2 < n /\ D < n
      <4> DEFINE u == SubSeq(data, 1, n - D)
      <4>1. mqtt_get_publish_data(SubSeq(m, 1, n)) = {u}
        BY <1>11, <3>1
      <4>2. n - D \in 1 .. Len(data)
        BY <1>12, <3>1
      <4>3. Len(u) = n - D
        BY <1>3, <4>2
      <4>4. Len(u) <= Len(data) /\ u = SubSeq(data, 1, Len(u))
        BY <1>12, <4>2, <4>3
      <4> HIDE DEF u
      <4> QED
        BY <4>1, <4>4 DEF StartOf
    <3>2. CASE ~(H + 2 < n /\ D < n)
      <4>1. mqtt_get_publish_data(SubSeq(m, 1, n)) = {}
        BY <1>11, <3>2
      <4> QED
        BY <4>1 DEF StartOf
    <3> QED
      BY <3>1, <3>2
  <2> QED
    BY <2>1, <2>2, <2>3
<1>15. PUBLISH # CONNECT /\ PUBLISH \notin {PUBACK, PUBREC, PUBREL, PUBCOMP, SUBSCRIBE}
  BY DEF PUBLISH, CONNECT, PUBACK, PUBREC, PUBREL, PUBCOMP, SUBSCRIBE
<1> QED
  BY <1>2, <1>9, <1>13, <1>14, <1>15 DEF ReadsWhatItWrites, Cut, m
----------------------------------------------------------------------------
(* The packets other than CONNECT and PUBLISH: header and, for those that    *)
(* carry one, the id.                                                        *)
LEMMA ShortReads ==
  ASSUME NEW bs, Bodies(bs), NEW type \in 0 .. 15 \ {CONNECT, PUBLISH}, NEW qos \in 0 .. 1,
         NEW id, message' = fini_message(bs, type, qos, 0),
         asked'.type = type, asked'.qos = qos, asked'.retain = 0, asked'.id = id,
         type \in {PUBACK, PUBREC, PUBREL, PUBCOMP, SUBSCRIBE} =>
           \A b \in bs : Len(b) >= 2 /\ b[1] * Base + b[2] = id
  PROVE  ReadsWhatItWrites'
<1> DEFINE m == message'
<1>1. SUFFICES ASSUME m # <<>> PROVE ReadsWhatItWrites'
  BY DEF ReadsWhatItWrites
<1>2. type \in Nat /\ qos \in 0 .. 3 /\ type # CONNECT /\ type # PUBLISH
  OBVIOUS
<1>3. PICK b \in Seq(Nat) :
        /\ bs = {b} /\ IsPacket(m, b) /\ Len(m) <= BufLen
        /\ mqtt_get_type(m) = type /\ mqtt_get_qos(m) = qos /\ mqtt_get_retain(m) = 0
        /\ mqtt_get_total_length(m) = Len(m)
  BY <1>1, <1>2, PacketWritten
<1> HIDE DEF m
<1>4. ASSUME type \in {PUBACK, PUBREC, PUBREL, PUBCOMP, SUBSCRIBE}, At(m, 1) < Half
      PROVE  mqtt_get_id(m) = id
  <2>1. Len(b) >= 2 /\ b[1] * Base + b[2] = id
    BY <1>3, <1>4
  <2> QED
    BY <1>3, <1>4, <2>1, IdRead
<1> QED
  BY <1>2, <1>3, <1>4 DEF ReadsWhatItWrites, m

(* mqtt_msg_puback, pubrec, pubrel and pubcomp.                              *)
LEMMA AcknowledgeReads ==
  ASSUME message_id \in 0 .. Ids - 1, NEW type \in {PUBACK, PUBREC, PUBREL, PUBCOMP},
         NEW id \in Nat, Acknowledge(type, id)
  PROVE  ReadsWhatItWrites'
<1> DEFINE own == IF id = 0 THEN NextId ELSE id
           qos == IF type = PUBREL THEN 1 ELSE 0
           bs == append_message_id(init_message, own)
<1>1. own \in Nat
  BY NextIdType
<1>2. /\ message' = fini_message(bs, type, qos, 0)
      /\ asked'.type = type /\ asked'.qos = qos /\ asked'.retain = 0 /\ asked'.id = own
  BY DEF Acknowledge, Wish
<1>3. type \in 0 .. 15 \ {CONNECT, PUBLISH} /\ qos \in 0 .. 1
  BY DEF CONNECT, PUBLISH, PUBACK, PUBREC, PUBREL, PUBCOMP
<1> HIDE DEF own, qos
<1>4. Bodies(bs) /\ (bs # {} => bs = {TwoBytes(own)})
  BY <1>1, FirstId
<1>5. Len(TwoBytes(own)) = 2 /\ TwoBytes(own)[1] * Base + TwoBytes(own)[2] = own
  BY <1>1, TwoBytesHold
<1> HIDE DEF bs
<1>6. \A b \in bs : Len(b) >= 2 /\ b[1] * Base + b[2] = own
  BY <1>4, <1>5
<1> QED
  BY <1>2, <1>3, <1>4, <1>6, ShortReads

(* A text behind an id, as mqtt_msg_subscribe and unsubscribe write it.      *)
LEMMA IdThenText ==
  ASSUME NEW bs, Bodies(bs), NEW id \in Nat, \A b \in bs : b = TwoBytes(id),
         NEW s \in Seq(Nat)
  PROVE  /\ Bodies(append(bs, s))
         /\ \A b \in append(bs, s) : Len(b) >= 2 /\ b[1] * Base + b[2] = id
<1> DEFINE w == TwoBytes(id)
<1>1. w \in Seq(Nat) /\ Len(w) = 2 /\ w[1] * Base + w[2] = id
  BY TwoBytesHold
<1>2. /\ w \o s \in Seq(Nat) /\ Len(w \o s) = Len(w) + Len(s)
      /\ \A v \in 1 .. Len(w) : (w \o s)[v] = w[v]
  <2> HIDE DEF w
  <2> QED
    BY <1>1, Joined
<1>3. /\ Bodies(append(bs, s))
      /\ append(bs, s) # {} => \E b \in Seq(Nat) :
           bs = {b} /\ append(bs, s) = {b \o s} /\ Room(b \o s)
  BY BodyGrows
<1>4. \A b \in append(bs, s) : b = w \o s
  BY <1>3
<1> HIDE DEF w
<1>5. Len(w \o s) >= 2 /\ (w \o s)[1] * Base + (w \o s)[2] = id
  <2>1. 1 \in 1 .. Len(w) /\ 2 \in 1 .. Len(w) /\ Len(s) \in Nat
    BY <1>1
  <2> QED
    BY <1>1, <1>2, <2>1
<1> QED
  BY <1>3, <1>4, <1>5

(* mqtt_msg_subscribe and unsubscribe up to the topic.                       *)
LEMMA TopicNumbered ==
  ASSUME message_id \in 0 .. Ids - 1, NEW topic \in Texts
  PROVE  LET numbered == IF topic = <<>> THEN {} ELSE append_message_id(init_message, NextId)
             bs == append_string(numbered, topic)
         IN  Bodies(bs) /\ \A b \in bs : Len(b) >= 2 /\ b[1] * Base + b[2] = NextId
<1> DEFINE numbered == IF topic = <<>> THEN {} ELSE append_message_id(init_message, NextId)
<1>1. NextId \in Nat /\ Enc(topic) \in Seq(Nat)
  BY NextIdType, TextsAreBytes, EncHolds
<1>2. Bodies(numbered) /\ \A b \in numbered : b = TwoBytes(NextId)
  <2>1. CASE topic = <<>>
    BY <2>1 DEF Bodies
  <2>2. CASE topic # <<>>
    BY <1>1, <2>2, FirstId
  <2> QED
    BY <2>1, <2>2
<1> HIDE DEF numbered
<1>3. append_string(numbered, topic) = append(numbered, Enc(topic))
  BY DEF append_string, Enc
<1> QED
  BY <1>1, <1>2, <1>3, IdThenText DEF numbered

(* mqtt_msg_unsubscribe.                                                     *)
LEMMA UnsubscribeReads ==
  ASSUME message_id \in 0 .. Ids - 1, NEW topic \in Texts, mqtt_msg_unsubscribe(topic)
  PROVE  ReadsWhatItWrites'
<1> DEFINE numbered == IF topic = <<>> THEN {} ELSE append_message_id(init_message, NextId)
           bs == append_string(numbered, topic)
<1>1. /\ message' = fini_message(bs, UNSUBSCRIBE, 1, 0)
      /\ asked'.type = UNSUBSCRIBE /\ asked'.qos = 1 /\ asked'.retain = 0
      /\ asked'.id = NextId
  BY DEF mqtt_msg_unsubscribe, Wish
<1>2. Bodies(bs) /\ \A b \in bs : Len(b) >= 2 /\ b[1] * Base + b[2] = NextId
  BY TopicNumbered
<1>3. UNSUBSCRIBE \in 0 .. 15 \ {CONNECT, PUBLISH} /\ 1 \in 0 .. 1
  BY DEF CONNECT, PUBLISH, UNSUBSCRIBE
<1> HIDE DEF bs
<1> QED
  BY <1>1, <1>2, <1>3, ShortReads

(* mqtt_msg_subscribe: the level stands behind the topic.                    *)
LEMMA SubscribeReads ==
  ASSUME message_id \in 0 .. Ids - 1, NEW topic \in Texts, NEW qos \in Qos,
         mqtt_msg_subscribe(topic, qos)
  PROVE  ReadsWhatItWrites'
<1> DEFINE numbered == IF topic = <<>> THEN {} ELSE append_message_id(init_message, NextId)
           named == append_string(numbered, topic)
           bs == append(named, <<qos>>)
<1>1. /\ message' = fini_message(bs, SUBSCRIBE, 1, 0)
      /\ asked'.type = SUBSCRIBE /\ asked'.qos = 1 /\ asked'.retain = 0
      /\ asked'.id = NextId
  BY DEF mqtt_msg_subscribe, Wish
<1>2. Bodies(named) /\ \A b \in named : Len(b) >= 2 /\ b[1] * Base + b[2] = NextId
  BY TopicNumbered
<1>3. SUBSCRIBE \in 0 .. 15 \ {CONNECT, PUBLISH} /\ 1 \in 0 .. 1
  BY DEF CONNECT, PUBLISH, SUBSCRIBE
<1>4. <<qos>> \in Seq(Nat) /\ Len(<<qos>>) = 1
  BY TextsAreBytes
<1> DEFINE last == <<qos>>
<1>5. last \in Seq(Nat)
  BY <1>4
<1> HIDE DEF named, last
<1>6. /\ Bodies(append(named, last))
      /\ append(named, last) # {} => \E b \in Seq(Nat) :
           named = {b} /\ append(named, last) = {b \o last} /\ Room(b \o last)
  BY <1>2, <1>5, BodyGrows
<1>7. ASSUME NEW b \in append(named, last)
      PROVE  Len(b) >= 2 /\ b[1] * Base + b[2] = NextId
  <2>1. PICK d \in Seq(Nat) : named = {d} /\ b = d \o last
    BY <1>6
  <2>2. Len(d) >= 2 /\ d[1] * Base + d[2] = NextId
    BY <1>2, <2>1
  <2>3. /\ Len(d \o last) = Len(d) + Len(last)
        /\ \A v \in 1 .. Len(d) : (d \o last)[v] = d[v]
    BY <1>5, Joined
  <2>4. Len(last) \in Nat /\ Len(d) \in Nat
    BY <1>5
  <2>5. 1 \in 1 .. Len(d) /\ 2 \in 1 .. Len(d)
    BY <2>2, <2>4
  <2> QED
    BY <2>1, <2>2, <2>3, <2>4, <2>5
<1>8. bs = append(named, last)
  BY DEF last
<1> HIDE DEF bs
<1> QED
  BY <1>1, <1>3, <1>6, <1>7, <1>8, ShortReads

(* mqtt_msg_pingreq, pingresp and disconnect.                                *)
LEMMA BareReads ==
  ASSUME NEW type \in {PINGREQ, PINGRESP, DISCONNECT}, Bare(type)
  PROVE  ReadsWhatItWrites'
<1>1. /\ message' = fini_message(init_message, type, 0, 0)
      /\ asked'.type = type /\ asked'.qos = 0 /\ asked'.retain = 0 /\ asked'.id = 0
  BY DEF Bare, Wish
<1>2. /\ type \in 0 .. 15 \ {CONNECT, PUBLISH} /\ 0 \in 0 .. 1
      /\ type \notin {PUBACK, PUBREC, PUBREL, PUBCOMP, SUBSCRIBE}
  BY DEF CONNECT, PUBLISH, PUBACK, PUBREC, PUBREL, PUBCOMP, SUBSCRIBE, PINGREQ, PINGRESP,
         DISCONNECT
<1> QED
  BY <1>1, <1>2, BodyStarts, ShortReads
----------------------------------------------------------------------------
(* The flags of CONNECT: each of them is one bit of the byte.                *)
LEMMA FlagBits ==
  ASSUME NEW cl \in 0 .. 1, NEW w \in 0 .. 1, NEW q \in 0 .. 3, NEW r \in 0 .. 1,
         NEW u \in 0 .. 1, NEW p \in 0 .. 1
  PROVE  LET f == 2 * cl + 4 * w + 8 * q + 32 * r + 64 * p + 128 * u
         IN  f \in Nat /\ (f \div 4) % 2 = w /\ (f \div 128) % 2 = u /\ (f \div 64) % 2 = p
<1> DEFINE f == 2 * cl + 4 * w + 8 * q + 32 * r + 64 * p + 128 * u
<1>1. f \div 4 = w + 2 * (q + 4 * r + 8 * p + 16 * u)
  OBVIOUS
<1>2. f \div 128 = u
  OBVIOUS
<1>3. f \div 64 = p + 2 * u
  OBVIOUS
<1>4. (w + 2 * (q + 4 * r + 8 * p + 16 * u)) % 2 = w /\ u % 2 = u /\ (p + 2 * u) % 2 = p
  OBVIOUS
<1>5. f \in Nat
  OBVIOUS
<1> HIDE DEF f
<1>6. f \in Nat /\ (f \div 4) % 2 = w /\ (f \div 128) % 2 = u /\ (f \div 64) % 2 = p
  BY <1>1, <1>2, <1>3, <1>4, <1>5
<1> QED
  BY <1>6 DEF f

(* What comes before the texts of CONNECT.                                   *)
LEMMA HeaderWritten ==
  ASSUME NEW flags \in Nat
  PROVE  LET h == ConnectHeader(flags)
         IN  h \in Seq(Nat) /\ Len(h) = 12 /\ h[10] = flags
<1> DEFINE a == TwoBytes(6)
           s == <<77, 81, 73, 115, 100, 112, 3, flags>>
           z == TwoBytes(1)
           front == a \o s
<1>1. a \in Seq(Nat) /\ Len(a) = 2 /\ z \in Seq(Nat) /\ Len(z) = 2
  BY TwoBytesHold
<1>2. s \in Seq(Nat) /\ Len(s) = 8 /\ s[8] = flags
  OBVIOUS
<1> HIDE DEF a, s, z
<1>3. front \in Seq(Nat) /\ Len(front) = 10 /\ front[10] = flags
  <2>1. /\ front \in Seq(Nat) /\ Len(front) = Len(a) + Len(s)
        /\ \A v \in 1 .. Len(s) : front[Len(a) + v] = s[v]
    BY <1>1, <1>2, Joined
  <2>2. 8 \in 1 .. Len(s) /\ Len(a) + 8 = 10
    BY <1>1, <1>2
  <2> QED
    BY <1>1, <1>2, <2>1, <2>2
<1> HIDE DEF front
<1> DEFINE all == front \o z
<1>4. all \in Seq(Nat) /\ Len(all) = 12 /\ all[10] = flags
  <2>1. /\ all \in Seq(Nat) /\ Len(all) = Len(front) + Len(z)
        /\ \A v \in 1 .. Len(front) : all[v] = front[v]
    BY <1>1, <1>3, Joined
  <2>2. 10 \in 1 .. Len(front)
    BY <1>3
  <2> HIDE DEF all
  <2>3. Len(all) = 12
    BY <1>1, <1>3, <2>1
  <2>4. all[10] = front[10]
    BY <2>1, <2>2
  <2> QED
    BY <1>3, <2>1, <2>3, <2>4
<1>5. ConnectHeader(flags) = all
  BY DEF ConnectHeader, front, a, s, z
<1> QED
  BY <1>4, <1>5

(* append_string puts a text behind what was written, or refuses.            *)
LEMMA TextAdded ==
  ASSUME NEW bs, Bodies(bs), NEW pre, bs \subseteq {pre}, NEW s \in Seq(Nat)
  PROVE  Bodies(append_string(bs, s)) /\ append_string(bs, s) \subseteq {pre \o Enc(s)}
<1>1. append_string(bs, s) = append(bs, Enc(s)) /\ Enc(s) \in Seq(Nat)
  BY EncHolds DEF append_string, Enc
<1>2. /\ Bodies(append(bs, Enc(s)))
      /\ append(bs, Enc(s)) # {} => \E b \in Seq(Nat) :
           bs = {b} /\ append(bs, Enc(s)) = {b \o Enc(s)} /\ Room(b \o Enc(s))
  BY <1>1, BodyGrows
<1>3. ASSUME NEW x \in append(bs, Enc(s)) PROVE x = pre \o Enc(s)
  <2>1. PICK b \in Seq(Nat) : bs = {b} /\ append(bs, Enc(s)) = {b \o Enc(s)}
    BY <1>2, <1>3
  <2>2. b = pre
    BY <2>1
  <2> QED
    BY <1>3, <2>1, <2>2
<1> QED
  BY <1>1, <1>2, <1>3

(* What was written first comes first.                                       *)
StartsWith(f, pre) ==
  /\ f \in Seq(Nat) /\ pre \in Seq(Nat) /\ Len(pre) <= Len(f)
  /\ \A v \in 1 .. Len(pre) : f[v] = pre[v]

(* What reading a text of a body does: from the end of what is before it to  *)
(* its own end.                                                              *)
TextRead(f, pre, s, t) ==
  ReadText(f, [at |-> Len(pre), texts |-> t]) = [at |-> Len(pre \o Enc(s)), texts |-> Append(t, s)]

(* The reader finds a text that was appended.                                *)
LEMMA TextFound ==
  ASSUME NEW f, NEW pre \in Seq(Nat), NEW s \in Seq(Nat),
         StartsWith(f, pre \o Enc(s)), NEW t
  PROVE  /\ StartsWith(f, pre)
         /\ TextRead(f, pre, s, t)
<1> DEFINE e == Enc(s)
           d == pre \o e
           L == Len(s)
           C == Len(pre)
<1>1. /\ e \in Seq(Nat) /\ Len(e) = 2 + L /\ e[1] * Base + e[2] = L
      /\ \A v \in 1 .. L : e[2 + v] = s[v]
      /\ L \in Nat /\ C \in Nat
  BY EncHolds
<1> HIDE DEF e
<1>2. /\ d \in Seq(Nat) /\ Len(d) = C + Len(e)
      /\ \A v \in 1 .. C : d[v] = pre[v]
      /\ \A v \in 1 .. Len(e) : d[C + v] = e[v]
  BY <1>1, Joined
<1>3. /\ f \in Seq(Nat) /\ Len(d) <= Len(f) /\ Len(f) \in Nat
      /\ \A v \in 1 .. Len(d) : f[v] = d[v]
  BY DEF StartsWith, e
<1> HIDE DEF d, L, C
<1>4. /\ Len(d) = C + 2 + L /\ C + 2 + L <= Len(f)
      /\ \A v \in 1 .. C : v \in 1 .. Len(d)
      /\ \A v \in 1 .. Len(e) : C + v \in 1 .. Len(d)
  <2>1. Len(d) = C + 2 + L
    BY <1>1, <1>2
  <2>2. C + 2 + L <= Len(f) /\ \A v \in 1 .. C : v \in 1 .. Len(d)
    BY <1>1, <1>3, <2>1
  <2>3. \A v \in 1 .. 2 + L : C + v \in 1 .. Len(d)
    BY <1>1, <2>1
  <2> QED
    BY <1>1, <2>1, <2>2, <2>3
<1>5. StartsWith(f, pre)
  <2>1. \A v \in 1 .. C : f[v] = pre[v]
    BY <1>2, <1>3, <1>4
  <2>2. C <= Len(f)
    BY <1>1, <1>3, <1>4
  <2> QED
    BY <1>3, <2>1, <2>2 DEF StartsWith, C
<1>6. Assembled(f, C) = L
  <2>1. 1 \in 1 .. Len(e) /\ 2 \in 1 .. Len(e)
    BY <1>1
  <2>2. f[C + 1] = e[1] /\ f[C + 2] = e[2]
    BY <1>2, <1>3, <1>4, <2>1
  <2>3. C + 1 + 1 = C + 2
    BY <1>1
  <2> QED
    BY <1>1, <2>2, <2>3 DEF Assembled, At
<1>7. SubSeq(f, C + 2 + 1, C + 2 + L) = s
  <2> DEFINE lo == C + 2 + 1
             hi == C + 2 + L
             u == SubSeq(f, lo, hi)
  <2>1. lo \in Int /\ hi \in Int /\ hi - lo + 1 = L
    BY <1>1
  <2>2. ASSUME NEW v \in lo .. hi PROVE f[v] \in Nat
    <3>1. v \in 1 .. Len(f)
      BY <1>1, <1>3, <1>4
    <3> QED
      BY <1>3, <3>1
  <2> HIDE DEF lo, hi
  <2>3. /\ u \in Seq(Nat) /\ Len(u) = IF lo <= hi THEN hi - lo + 1 ELSE 0
        /\ \A v \in 1 .. hi - lo + 1 : u[v] = f[lo + v - 1]
    BY <2>1, <2>2, SubSeqProperties
  <2>4. \A v \in 1 .. L : f[C + (2 + v)] = s[v]
    <3>1. \A v \in 1 .. L : 2 + v \in 1 .. Len(e)
      BY <1>1
    <3> QED
      BY <1>1, <1>2, <1>3, <1>4, <3>1
  <2>5. \A v \in 1 .. L : lo + v - 1 = C + (2 + v)
    BY <1>1 DEF lo
  <2>6. lo <= hi \/ L = 0
    BY <1>1 DEF lo, hi
  <2> HIDE DEF u
  <2>7. Len(u) = L /\ \A v \in 1 .. L : u[v] = s[v]
    BY <2>1, <2>3, <2>4, <2>5, <2>6
  <2>8. u = s
    BY <2>3, <2>7, SeqEqual DEF L
  <2> QED
    BY <2>8 DEF u, lo, hi
<1>8. Len(d) = C + 2 + L
  BY <1>4
<1> DEFINE read == [at |-> C, texts |-> t]
<1>9. read.at = C /\ read.texts = t
  OBVIOUS
<1> HIDE DEF read
<1>10. ReadText(f, read) = [at |-> C + 2 + L, texts |-> Append(t, s)]
  BY <1>6, <1>7, <1>9 DEF ReadText, Bytes
<1>11. TextRead(f, pre, s, t)
  BY <1>8, <1>10 DEF TextRead, d, e, C, read
<1> QED
  BY <1>5, <1>11

(* A text that may be missing.                                               *)
LEMMA MaybeFound ==
  ASSUME NEW f, NEW pre \in Seq(Nat), NEW s \in Seq(Nat), NEW on,
         StartsWith(f, IF on = 1 THEN pre \o Enc(s) ELSE pre)
  PROVE  StartsWith(f, pre)
<1>1. CASE on = 1
  <2>1. StartsWith(f, pre \o Enc(s))
    BY <1>1
  <2> QED
    BY <2>1, TextFound
<1>2. CASE on # 1
  BY <1>2
<1> QED
  BY <1>1, <1>2

(* ReadIf goes past a text that is written when its flag is set.             *)
IfRead(f, flag, pre, next, t, more) ==
  ReadIf(f, flag, [at |-> Len(pre), texts |-> t]) = [at |-> Len(next), texts |-> more]
MaybeThere(f, flag, pre, s, next, t, more) ==
  /\ next = IF Flag(f, flag) = 1 THEN pre \o Enc(s) ELSE pre
  /\ more = IF Flag(f, flag) = 1 THEN Append(t, s) ELSE t

LEMMA MaybeRead ==
  ASSUME NEW f, NEW pre \in Seq(Nat), NEW s \in Seq(Nat), NEW t, NEW flag,
         NEW next, NEW more, MaybeThere(f, flag, pre, s, next, t, more), StartsWith(f, next)
  PROVE  IfRead(f, flag, pre, next, t, more)
<1> USE DEF IfRead, MaybeThere
<1>1. CASE Flag(f, flag) = 1
  <2>1. next = pre \o Enc(s) /\ more = Append(t, s)
    BY <1>1
  <2>2. StartsWith(f, pre \o Enc(s))
    BY <2>1
  <2>3. TextRead(f, pre, s, t)
    BY <2>2, TextFound
  <2> QED
    BY <1>1, <2>1, <2>3, Zenon DEF ReadIf, TextRead
<1>2. CASE Flag(f, flag) # 1
  BY <1>2 DEF ReadIf
<1> QED
  BY <1>1, <1>2

(* The client id and a will.                                                 *)
LEMMA ThreeTexts ==
  ASSUME NEW S, NEW a \in S, NEW b \in S, NEW z \in S
  PROVE  /\ Append(Append(<<a>>, b), z) = <<a>> \o <<b, z>>
         /\ <<a>> \o <<b, z>> \in Seq(S)
<1> DEFINE one == <<a>>
           two == <<b, z>>
           d == Append(Append(one, b), z)
           e == one \o two
<1>1. /\ one \in Seq(S) /\ Len(one) = 1 /\ one[1] = a
      /\ two \in Seq(S) /\ Len(two) = 2 /\ two[1] = b /\ two[2] = z
  OBVIOUS
<1> HIDE DEF one, two
<1>2. /\ e \in Seq(S) /\ Len(e) = 3
      /\ e[1] = a /\ e[2] = b /\ e[3] = z
  <2>1. /\ e \in Seq(S) /\ Len(e) = Len(one) + Len(two)
        /\ \A v \in 1 .. Len(one) + Len(two) :
             e[v] = IF v <= Len(one) THEN one[v] ELSE two[v - Len(one)]
    BY <1>1, ConcatProperties
  <2> QED
    BY <1>1, <2>1
<1>3. /\ d \in Seq(S) /\ Len(d) = 3 /\ d[1] = a /\ d[2] = b /\ d[3] = z
  <2> DEFINE x == Append(one, b)
  <2>1. x \in Seq(S) /\ Len(x) = 2 /\ x[1] = a /\ x[2] = b
    <3>1. /\ x \in Seq(S) /\ Len(x) = Len(one) + 1
          /\ \A v \in 1 .. Len(one) : x[v] = one[v]
          /\ x[Len(one) + 1] = b
      <4>1. one \in Seq(S) /\ b \in S
        BY <1>1
      <4> QED
        BY ONLY <4>1, AppendProperties
    <3> HIDE DEF x
    <3> QED
      BY <1>1, <3>1
  <2> HIDE DEF x
  <2> DEFINE y == Append(x, z)
  <2>2. y \in Seq(S) /\ Len(y) = 3 /\ y[1] = a /\ y[2] = b /\ y[3] = z
    <3>1. /\ y \in Seq(S) /\ Len(y) = Len(x) + 1
          /\ \A v \in 1 .. Len(x) : y[v] = x[v]
          /\ y[Len(x) + 1] = z
      <4>1. x \in Seq(S) /\ z \in S
        BY <2>1
      <4> QED
        BY ONLY <4>1, AppendProperties
    <3> HIDE DEF y
    <3> QED
      BY <2>1, <3>1
  <2> QED
    BY <2>2 DEF x
<1> HIDE DEF d, e
<1>4. \A v \in 1 .. Len(d) : d[v] = e[v]
  BY <1>2, <1>3
<1>5. d = e
  BY <1>2, <1>3, <1>4, SeqEqual
<1> QED
  BY <1>2, <1>5 DEF d, e, one, two

(* A text given is one more text read.                                       *)
LEMMA TextGiven ==
  ASSUME NEW S, NEW t \in Seq(S), NEW s \in S
  PROVE  (IF s = <<>> THEN t ELSE Append(t, s)) = t \o Given(s)
         /\ t \o Given(s) \in Seq(S)
<1>1. CASE s = <<>>
  BY <1>1, ConcatEmptySeq DEF Given
<1>2. CASE s # <<>>
  <2>1. <<s>> \in Seq(S) /\ Append(t, s) = t \o <<s>> /\ Append(t, s) \in Seq(S)
    BY AppendIsConcat, AppendProperties
  <2> QED
    BY <1>2, <2>1 DEF Given
<1> QED
  BY <1>1, <1>2

(* mqtt_msg_connect: the flags tell which texts follow, and the reader the   *)
(* protocol prescribes finds them, each where it ends the one before.        *)
LEMMA ConnectReads ==
  ASSUME NEW client \in Users, NEW topic \in Users, NEW text \in Users,
         NEW login \in Users, NEW password \in Users, NEW clean \in BOOLEAN,
         NEW qos \in Qos, mqtt_msg_connect(client, topic, text, qos, qos % 2, login,
                                           password, clean)
  PROVE  ReadsWhatItWrites'
<1> DEFINE m == message'
           retain == qos % 2
           flags == (IF clean THEN 2 ELSE 0)
                      + (IF topic = <<>> THEN 0 ELSE 4 + 8 * qos + 32 * retain)
                      + (IF login = <<>> THEN 0 ELSE 128)
                      + (IF password = <<>> THEN 0 ELSE 64)
           h == ConnectHeader(flags)
           s0 == append(init_message, h)
           s1 == IF client = <<>> THEN {} ELSE append_string(s0, client)
           s2 == append_string(s1, topic)
           s3 == IF topic = <<>> THEN s1 ELSE append_string(s2, text)
           s4 == IF login = <<>> THEN s3 ELSE append_string(s3, login)
           s5 == IF password = <<>> THEN s4 ELSE append_string(s4, password)
           w == IF topic = <<>> THEN 0 ELSE 1
           u == IF login = <<>> THEN 0 ELSE 1
           p == IF password = <<>> THEN 0 ELSE 1
           c1 == h \o Enc(client)
           c2 == IF w = 1 THEN c1 \o Enc(topic) ELSE c1
           c3 == IF w = 1 THEN c2 \o Enc(text) ELSE c2
           c4 == IF u = 1 THEN c3 \o Enc(login) ELSE c3
           c5 == IF p = 1 THEN c4 \o Enc(password) ELSE c4
<1>1. /\ m = fini_message(s5, CONNECT, 0, 0)
      /\ asked'.type = CONNECT /\ asked'.qos = 0 /\ asked'.retain = 0
      /\ asked'.client = client /\ asked'.topic = topic /\ asked'.text = text
      /\ asked'.user = login /\ asked'.password = password
  BY DEF mqtt_msg_connect
<1>2. /\ client \in Seq(Nat) /\ topic \in Seq(Nat) /\ text \in Seq(Nat)
      /\ login \in Seq(Nat) /\ password \in Seq(Nat) /\ qos \in 0 .. 3
  BY TextsAreBytes
<1>3. /\ flags \in Nat /\ (flags \div 4) % 2 = w /\ (flags \div 128) % 2 = u
      /\ (flags \div 64) % 2 = p /\ w \in 0 .. 1 /\ u \in 0 .. 1 /\ p \in 0 .. 1
  <2> DEFINE cl == IF clean THEN 1 ELSE 0
             q == IF topic = <<>> THEN 0 ELSE qos
             r == IF topic = <<>> THEN 0 ELSE retain
  <2>1. cl \in 0 .. 1 /\ w \in 0 .. 1 /\ u \in 0 .. 1 /\ p \in 0 .. 1
    OBVIOUS
  <2>2. q \in 0 .. 3 /\ r \in 0 .. 1
    BY <1>2
  <2>3. flags = 2 * cl + 4 * w + 8 * q + 32 * r + 64 * p + 128 * u
    <3>1. (IF clean THEN 2 ELSE 0) = 2 * cl
      OBVIOUS
    <3>2. (IF topic = <<>> THEN 0 ELSE 4 + 8 * qos + 32 * retain) = 4 * w + 8 * q + 32 * r
      BY <1>2
    <3>3. (IF login = <<>> THEN 0 ELSE 128) = 128 * u
      OBVIOUS
    <3>4. (IF password = <<>> THEN 0 ELSE 64) = 64 * p
      OBVIOUS
    <3>5. flags = 2 * cl + (4 * w + 8 * q + 32 * r) + 128 * u + 64 * p
      BY <3>1, <3>2, <3>3, <3>4
    <3> HIDE DEF flags, cl, q, r, w, u, p
    <3> QED
      BY <2>1, <2>2, <3>5
  <2> HIDE DEF cl, q, r, w, u, p, flags
  <2> DEFINE g == 2 * cl + 4 * w + 8 * q + 32 * r + 64 * p + 128 * u
  <2>4. g \in Nat /\ (g \div 4) % 2 = w /\ (g \div 128) % 2 = u /\ (g \div 64) % 2 = p
    BY ONLY <2>1, <2>2, FlagBits
  <2> HIDE DEF g
  <2>5. flags = g
    BY <2>3 DEF g
  <2> QED
    BY <2>1, <2>4, <2>5
<1>4. /\ w = 1 <=> topic # <<>>
      /\ u = 1 <=> login # <<>>
      /\ p = 1 <=> password # <<>>
  OBVIOUS
<1> HIDE DEF flags, w, u, p
<1>5. h \in Seq(Nat) /\ Len(h) = 12 /\ h[10] = flags
  BY <1>3, HeaderWritten
<1> HIDE DEF h
<1>6. /\ c1 \in Seq(Nat) /\ c2 \in Seq(Nat) /\ c3 \in Seq(Nat) /\ c4 \in Seq(Nat)
      /\ c5 \in Seq(Nat)
  <2>1. /\ Enc(client) \in Seq(Nat) /\ Enc(topic) \in Seq(Nat) /\ Enc(text) \in Seq(Nat)
        /\ Enc(login) \in Seq(Nat) /\ Enc(password) \in Seq(Nat)
    BY <1>2, EncHolds
  <2>2. c1 \in Seq(Nat)
    BY <1>5, <2>1
  <2> HIDE DEF c1
  <2>3. c2 \in Seq(Nat)
    BY <2>1, <2>2
  <2> HIDE DEF c2
  <2>4. c3 \in Seq(Nat)
    BY <2>1, <2>3
  <2> HIDE DEF c3
  <2>5. c4 \in Seq(Nat)
    BY <2>1, <2>4
  <2> HIDE DEF c4
  <2>6. c5 \in Seq(Nat)
    BY <2>1, <2>5
  <2> QED
    BY <2>2, <2>3, <2>4, <2>5, <2>6
<1>7. Bodies(s5) /\ s5 \subseteq {c5}
  <2>1. Bodies(s0) /\ s0 \subseteq {h}
    <3>1. /\ Bodies(s0)
          /\ s0 # {} => \E b \in Seq(Nat) :
               init_message = {b} /\ s0 = {b \o h} /\ Room(b \o h)
      BY <1>5, BodyStarts, BodyGrows
    <3> HIDE DEF s0
    <3>2. ASSUME NEW x \in s0 PROVE x = h
      <4>1. PICK b \in Seq(Nat) : init_message = {b} /\ s0 = {b \o h}
        BY <3>1, <3>2
      <4>2. b = <<>>
        BY <4>1 DEF init_message
      <4>3. b \o h = h
        BY <1>5, <4>2, ConcatEmptySeq
      <4> QED
        BY <3>2, <4>1, <4>3
    <3> QED
      BY <3>1, <3>2
  <2> HIDE DEF s0
  <2>2. Bodies(s1) /\ s1 \subseteq {c1}
    <3>1. Bodies(append_string(s0, client)) /\ append_string(s0, client) \subseteq {c1}
      BY <1>2, <2>1, TextAdded
    <3> QED
      BY <3>1 DEF Bodies
  <2> HIDE DEF s1, c1
  <2>3. Bodies(s2) /\ s2 \subseteq {c1 \o Enc(topic)}
    BY <1>2, <2>2, TextAdded
  <2> HIDE DEF s2
  <2>4. Bodies(s3) /\ s3 \subseteq {c3}
    <3>1. CASE w = 1
      <4>1. c3 = (c1 \o Enc(topic)) \o Enc(text)
        BY <3>1
      <4>2. s3 = append_string(s2, text)
        BY <1>4, <3>1
      <4>3. /\ Bodies(append_string(s2, text))
            /\ append_string(s2, text) \subseteq {(c1 \o Enc(topic)) \o Enc(text)}
        BY <1>2, <2>3, TextAdded
      <4> QED
        BY <4>1, <4>2, <4>3
    <3>2. CASE w # 1
      <4>1. c3 = c1 /\ s3 = s1
        BY <1>4, <3>2
      <4> QED
        BY <2>2, <4>1
    <3> QED
      BY <3>1, <3>2
  <2> HIDE DEF s3, c3
  <2>5. Bodies(s4) /\ s4 \subseteq {c4}
    <3>1. /\ Bodies(append_string(s3, login))
          /\ append_string(s3, login) \subseteq {c3 \o Enc(login)}
      BY <1>2, <2>4, TextAdded
    <3> QED
      BY <1>4, <2>4, <3>1
  <2> HIDE DEF s4, c4
  <2>6. /\ Bodies(append_string(s4, password))
        /\ append_string(s4, password) \subseteq {c4 \o Enc(password)}
    BY <1>2, <2>5, TextAdded
  <2> QED
    BY <1>4, <2>5, <2>6
<1>8. SUFFICES ASSUME m # <<>> PROVE ReadsWhatItWrites'
  BY DEF ReadsWhatItWrites
<1> HIDE DEF m, s5
<1>9. /\ IsPacket(m, c5) /\ Len(m) <= BufLen
      /\ mqtt_get_type(m) = CONNECT /\ mqtt_get_qos(m) = 0 /\ mqtt_get_retain(m) = 0
      /\ mqtt_get_total_length(m) = Len(m)
  <2>1. CONNECT \in Nat /\ 0 \in 0 .. 3 /\ 0 \in 0 .. 1
    BY DEF CONNECT
  <2>2. PICK b \in Seq(Nat) :
          /\ s5 = {b} /\ IsPacket(m, b) /\ Len(m) <= BufLen
          /\ mqtt_get_type(m) = CONNECT /\ mqtt_get_qos(m) = 0 /\ mqtt_get_retain(m) = 0
          /\ mqtt_get_total_length(m) = Len(m)
    BY <1>1, <1>7, <1>8, <2>1, PacketWritten
  <2>3. b = c5
    BY <1>7, <2>2
  <2> QED
    BY <2>2, <2>3
<1> DEFINE f == c5
           t0 == <<>>
           t1 == Append(t0, client)
           t2 == IF w = 1 THEN Append(t1, topic) ELSE t1
           t3 == IF w = 1 THEN Append(t2, text) ELSE t2
           t4 == IF u = 1 THEN Append(t3, login) ELSE t3
           t5 == IF p = 1 THEN Append(t4, password) ELSE t4
<1>10. StartsWith(f, c5)
  BY <1>6 DEF StartsWith
<1> HIDE DEF f
<1>11. /\ f = c5 /\ SubSeq(m, AfterLength(m) + 1, Len(m)) = f
  <2>1. SubSeq(m, AfterLength(m) + 1, Len(m)) = c5
    BY <1>9, WholePacket
  <2> QED
    BY <2>1 DEF f
<1>12. /\ Flag(f, 4) = w /\ Flag(f, 128) = u /\ Flag(f, 64) = p
       /\ ConnectRead(f) = [at |-> Len(f), texts |-> t5]
  <2> HIDE DEF t0, t1, t2, t3, t4, t5, f
  <2>0. /\ h \in Seq(Nat) /\ Len(h) = 12 /\ c1 \in Seq(Nat) /\ c2 \in Seq(Nat)
        /\ c3 \in Seq(Nat) /\ c4 \in Seq(Nat)
    BY <1>5, <1>6
  <2>1. /\ StartsWith(f, c4) /\ StartsWith(f, c3) /\ StartsWith(f, c2) /\ StartsWith(f, c1)
        /\ StartsWith(f, h)
    <3> HIDE DEF c1, c2, c3, c4, c5
    <3>1. StartsWith(f, c4)
      BY <1>2, <1>10, <2>0, MaybeFound DEF c5
    <3>2. StartsWith(f, c3)
      BY <1>2, <2>0, <3>1, MaybeFound DEF c4
    <3>3. StartsWith(f, c2)
      BY <1>2, <2>0, <3>2, MaybeFound DEF c3
    <3>4. StartsWith(f, c1)
      BY <1>2, <2>0, <3>3, MaybeFound DEF c2
    <3>5. StartsWith(f, h)
      BY <1>2, <2>0, <3>4, TextFound DEF c1
    <3> QED
      BY <3>1, <3>2, <3>3, <3>4, <3>5
  <2>2. f[10] = flags
    <3>1. 10 \in 1 .. Len(h)
      BY <2>0
    <3> QED
      BY <1>5, <2>1, <3>1 DEF StartsWith
  <2>3. Flag(f, 4) = w /\ Flag(f, 128) = u /\ Flag(f, 64) = p
    BY <1>3, <2>2 DEF Flag
  <2> HIDE DEF c1, c2, c3, c4, c5
  <2>4. ReadText(f, [at |-> 12, texts |-> t0]) = [at |-> Len(c1), texts |-> t1]
    <3>1. StartsWith(f, h \o Enc(client)) /\ h \in Seq(Nat) /\ client \in Seq(Nat)
      BY <1>2, <2>0, <2>1 DEF c1
    <3>2. TextRead(f, h, client, t0)
      BY ONLY <3>1, TextFound
    <3> QED
      BY <2>0, <3>2 DEF TextRead, c1, t1
  <2>5. ReadIf(f, 4, [at |-> Len(c1), texts |-> t1]) = [at |-> Len(c2), texts |-> t2]
    <3>1. MaybeThere(f, 4, c1, topic, c2, t1, t2)
      BY <2>3, Zenon DEF MaybeThere, c2, t2
    <3>2. c1 \in Seq(Nat) /\ topic \in Seq(Nat) /\ StartsWith(f, c2)
      BY <1>2, <2>0, <2>1
    <3>3. IfRead(f, 4, c1, c2, t1, t2)
      BY ONLY <3>1, <3>2, MaybeRead
    <3> QED
      BY <3>3 DEF IfRead
  <2>6. ReadIf(f, 4, [at |-> Len(c2), texts |-> t2]) = [at |-> Len(c3), texts |-> t3]
    <3>1. MaybeThere(f, 4, c2, text, c3, t2, t3)
      BY <2>3, Zenon DEF MaybeThere, c3, t3
    <3>2. c2 \in Seq(Nat) /\ text \in Seq(Nat) /\ StartsWith(f, c3)
      BY <1>2, <2>0, <2>1
    <3>3. IfRead(f, 4, c2, c3, t2, t3)
      BY ONLY <3>1, <3>2, MaybeRead
    <3> QED
      BY <3>3 DEF IfRead
  <2>7. ReadIf(f, 128, [at |-> Len(c3), texts |-> t3]) = [at |-> Len(c4), texts |-> t4]
    <3>1. MaybeThere(f, 128, c3, login, c4, t3, t4)
      BY <2>3, Zenon DEF MaybeThere, c4, t4
    <3>2. c3 \in Seq(Nat) /\ login \in Seq(Nat) /\ StartsWith(f, c4)
      BY <1>2, <2>0, <2>1
    <3>3. IfRead(f, 128, c3, c4, t3, t4)
      BY ONLY <3>1, <3>2, MaybeRead
    <3> QED
      BY <3>3 DEF IfRead
  <2>8. ReadIf(f, 64, [at |-> Len(c4), texts |-> t4]) = [at |-> Len(c5), texts |-> t5]
    <3>1. MaybeThere(f, 64, c4, password, c5, t4, t5)
      BY <2>3, Zenon DEF MaybeThere, c5, t5
    <3>2. c4 \in Seq(Nat) /\ password \in Seq(Nat) /\ StartsWith(f, c5)
      BY <1>2, <2>0, <1>10
    <3>3. IfRead(f, 64, c4, c5, t4, t5)
      BY ONLY <3>1, <3>2, MaybeRead
    <3> QED
      BY <3>3 DEF IfRead
  <2>9. ConnectRead(f) = ReadIf(f, 64, ReadIf(f, 128, ReadIf(f, 4, ReadIf(f, 4,
                           ReadText(f, [at |-> 12, texts |-> t0])))))
    BY DEF ConnectRead, t0
  <2> QED
    BY <1>11, <2>3, <2>4, <2>5, <2>6, <2>7, <2>8, <2>9
<1>13. t5 = <<client>> \o (IF topic = <<>> THEN <<>> ELSE <<topic, text>>)
              \o Given(login) \o Given(password)
  <2> DEFINE will == IF topic = <<>> THEN <<>> ELSE <<topic, text>>
             S == Seq(Nat)
  <2> HIDE DEF t4, t5, f
  <2>1. /\ t3 = <<client>> \o will /\ t3 \in Seq(S)
        /\ client \in S /\ login \in S /\ password \in S
    <3>1. t1 = <<client>>
      OBVIOUS
    <3>2. CASE w = 1
      <4>1. topic # <<>> /\ t3 = Append(Append(t1, topic), text)
        BY <1>4, <3>2
      <4>2. /\ Append(Append(<<client>>, topic), text) = <<client>> \o <<topic, text>>
            /\ <<client>> \o <<topic, text>> \in Seq(S)
        BY <1>2, ThreeTexts
      <4> QED
        <5>1. will = <<topic, text>>
          BY <4>1
        <5>2. t3 = Append(Append(<<client>>, topic), text)
          BY ONLY <3>1, <4>1
        <5>3. client \in S /\ login \in S /\ password \in S
          BY <1>2 DEF S
        <5> QED
          BY ONLY <4>2, <5>1, <5>2, <5>3
    <3>3. CASE w # 1
      <4>1. topic = <<>> /\ t3 = t1
        BY <1>4, <3>3
      <4> HIDE DEF S
      <4>2. <<client>> \in Seq(S)
        BY <1>2 DEF S
      <4>3. <<client>> \o <<>> = <<client>>
        BY <4>2, ConcatEmptySeq
      <4> QED
        <5>1. will = <<>>
          BY <4>1
        <5>2. t3 = <<client>>
          BY ONLY <3>1, <4>1
        <5>3. client \in S /\ login \in S /\ password \in S
          BY <1>2 DEF S
        <5> QED
          BY ONLY <4>2, <4>3, <5>1, <5>2, <5>3
    <3> QED
      BY <1>2, <3>2, <3>3
  <2> HIDE DEF t3, will, S
  <2>2. t4 = t3 \o Given(login) /\ t4 \in Seq(S)
    <3>1. t3 \in Seq(S) /\ login \in S
      BY <2>1
    <3>2. /\ (IF login = <<>> THEN t3 ELSE Append(t3, login)) = t3 \o Given(login)
          /\ t3 \o Given(login) \in Seq(S)
      BY ONLY <3>1, TextGiven
    <3> QED
      BY ONLY <1>4, <3>2 DEF t4
  <2>3. t5 = t4 \o Given(password)
    <3>1. t4 \in Seq(S) /\ password \in S
      BY <2>1, <2>2
    <3>2. (IF password = <<>> THEN t4 ELSE Append(t4, password)) = t4 \o Given(password)
      BY ONLY <3>1, TextGiven
    <3> QED
      BY ONLY <1>4, <3>2 DEF t5
  <2> QED
    BY <2>1, <2>2, <2>3 DEF will
<1> QED
  <2>1. ConnectReadable'
    <3>1. SubSeq(message', AfterLength(message') + 1, Len(message')) = f
      BY <1>11 DEF m
    <3> HIDE DEF f, t5
    <3> QED
      BY <1>1, <1>4, <1>12, <1>13, <3>1 DEF ConnectReadable
  <2>2. CONNECT # PUBLISH /\ CONNECT \notin {PUBACK, PUBREC, PUBREL, PUBCOMP, SUBSCRIBE}
    BY DEF PUBLISH, CONNECT, PUBACK, PUBREC, PUBREL, PUBCOMP, SUBSCRIBE
  <2> QED
    BY <1>1, <1>9, <2>1, <2>2 DEF ReadsWhatItWrites, m
----------------------------------------------------------------------------
(* What every function of mqtt_msg.c leaves in the buffer is read back.      *)
LEMMA StepsAreReadBack ==
  ASSUME message_id \in 0 .. Ids - 1, MsgNext
  PROVE  ReadsWhatItWrites'
<1>1. CASE mqtt_msg_init
  BY <1>1 DEF mqtt_msg_init, ReadsWhatItWrites
<1>2. CASE \E client, topic, text, login, password \in Users, clean \in BOOLEAN,
              qos \in Qos :
             mqtt_msg_connect(client, topic, text, qos, qos % 2, login, password, clean)
  BY <1>2, ConnectReads
<1>3. CASE \E topic, data \in Texts, qos \in Qos, retain \in 0 .. 1 :
             mqtt_msg_publish(topic, data, qos, retain)
  BY <1>3, PublishReads
<1>4. CASE \E type \in {PUBACK, PUBREC, PUBREL, PUBCOMP}, id \in {0, 1, Ids - 1} :
             Acknowledge(type, id)
  <2>1. {0, 1, Ids - 1} \subseteq Nat
    BY IdsAssumption, BaseAssumption
  <2> QED
    BY <1>4, <2>1, AcknowledgeReads
<1>5. CASE \E topic \in Texts, qos \in Qos : mqtt_msg_subscribe(topic, qos)
  BY <1>5, SubscribeReads
<1>6. CASE \E topic \in Texts : mqtt_msg_unsubscribe(topic)
  BY <1>6, UnsubscribeReads
<1>7. CASE \E type \in {PINGREQ, PINGRESP, DISCONNECT} : Bare(type)
  BY <1>7, BareReads
<1> QED
  BY <1>1, <1>2, <1>3, <1>4, <1>5, <1>6, <1>7 DEF MsgNext

(* Every packet mqtt_msg.c writes fits the buffer and is read back by the    *)
(* functions of mqtt.c as what was asked for, and a PUBLISH cut anywhere by  *)
(* the end of a segment is never read as something else: for every size of   *)
(* byte, buffer and id and for all texts.                                    *)
THEOREM PacketsAreReadBack == MsgSpec => []ReadsWhatItWrites
<1>1. MsgInit => IInv /\ ReadsWhatItWrites
  BY IdsAssumption, WindowAssumption DEF MsgInit, IInv, ReadsWhatItWrites
<1>2. IInv /\ ReadsWhatItWrites /\ [MsgNext]_msgVars => ReadsWhatItWrites'
  <2> SUFFICES ASSUME IInv, ReadsWhatItWrites, [MsgNext]_msgVars
               PROVE  ReadsWhatItWrites'
    OBVIOUS
  <2>1. CASE MsgNext
    BY <2>1, StepsAreReadBack DEF IInv
  <2>2. CASE UNCHANGED msgVars
    BY <2>2 DEF msgVars, ReadsWhatItWrites, ConnectReadable, Cut
  <2> QED
    BY <2>1, <2>2
<1> QED
  BY <1>1, <1>2, IdsKept, PTL DEF MsgSpec
=============================================================================
