---------------------------- MODULE Codecs_proofs ----------------------------
(* Proofs about the modules that Codecs runs together.  RingBuf: for every   *)
(* ring size and every byte set the indices stay in range and agree with     *)
(* fill_cnt, and it implements BoundedFifo.  CJson: every tree, of any depth,*)
(* printed either way fits the room allocated and is read back.  FotaUtil:   *)
(* every version is converted as it should be.  Jsmn: the tokens of any text *)
(* nest.  AppBoot: see AppBoot_proofs.                                       *)
EXTENDS Codecs, AppBoot_proofs, SequenceTheorems, WellFoundedInduction, TLAPS

RingInv == TypeOK /\ PointersAgree

(* RINGBUF_Put and RINGBUF_Get keep the type and the pointer agreement.      *)
LEMMA RingInvInit == RINGBUF_Init => RingInv
BY SizeAssumption, ZeroAssumption
   DEF RINGBUF_Init, RingInv, TypeOK, PointersAgree, Wrap, Index

(* One call keeps the pointers and the count in agreement.                   *)
LEMMA RingInvNext == RingInv /\ [Next]_vars => RingInv'
<1> SUFFICES ASSUME RingInv, [Next]_vars
             PROVE  RingInv'
  OBVIOUS
<1> USE SizeAssumption
<1>1. ASSUME NEW b \in Byte, RINGBUF_Put(b) PROVE RingInv'
  <2>1. CASE fill_cnt >= Size
    BY <1>1, <2>1 DEF RINGBUF_Put, RingInv, TypeOK, PointersAgree
  <2>2. CASE fill_cnt < Size
    <3>1. /\ fill_cnt' = fill_cnt + 1
          /\ buf' = [buf EXCEPT ![p_w] = b]
          /\ p_w' = Wrap(p_w + 1)
          /\ rc' = 0
          /\ p_r' = p_r /\ c' = c
      BY <1>1, <2>2 DEF RINGBUF_Put, RingInv, TypeOK
    <3>2. TypeOK'
      BY <1>1, <2>2, <3>1 DEF RingInv, TypeOK, Wrap, Index
    <3>3. PointersAgree'
      BY <2>2, <3>1 DEF RingInv, TypeOK, PointersAgree, Wrap, Index
    <3> QED BY <3>2, <3>3 DEF RingInv
  <2> QED BY <2>1, <2>2 DEF RingInv, TypeOK
<1>2. CASE RINGBUF_Get
  <2>1. CASE fill_cnt <= 0
    BY <1>2, <2>1 DEF RINGBUF_Get, RingInv, TypeOK, PointersAgree
  <2>2. CASE fill_cnt > 0
    <3>1. /\ fill_cnt' = fill_cnt - 1
          /\ c' = buf[p_r]
          /\ p_r' = Wrap(p_r + 1)
          /\ rc' = 0
          /\ buf' = buf /\ p_w' = p_w
      BY <1>2, <2>2 DEF RINGBUF_Get, RingInv, TypeOK
    <3>2. TypeOK'
      BY <2>2, <3>1 DEF RingInv, TypeOK, Wrap, Index
    <3>3. PointersAgree'
      BY <2>2, <3>1 DEF RingInv, TypeOK, PointersAgree, Wrap, Index
    <3> QED BY <3>2, <3>3 DEF RingInv
  <2> QED BY <2>1, <2>2 DEF RingInv, TypeOK
<1>3. CASE UNCHANGED vars
  BY <1>3 DEF vars, RingInv, TypeOK, PointersAgree
<1> QED BY <1>1, <1>2, <1>3 DEF Next

(* The indices and the count stay within the ring that QUEUE_Init allocated. *)
THEOREM RingTypeCorrect == Spec => []TypeOK
<1>1. RingInv => TypeOK BY DEF RingInv
<1> QED BY RingInvInit, RingInvNext, <1>1, PTL DEF Spec

(* The write pointer is always fill_cnt slots ahead of the read pointer.     *)
THEOREM RingPointersAgree == Spec => []PointersAgree
<1>1. RingInv => PointersAgree BY DEF RingInv
<1> QED BY RingInvInit, RingInvNext, <1>1, PTL DEF Spec
----------------------------------------------------------------------------
(* The empty ring maps to the empty fifo.                                    *)
LEMMA RefinesInit == RINGBUF_Init => Fifo!FifoInit
<1> SUFFICES ASSUME RINGBUF_Init PROVE Fifo!FifoInit
  OBVIOUS
<1>1. fill_cnt = 0 BY DEF RINGBUF_Init
<1>2. Content = <<>> BY <1>1 DEF Content
<1> QED BY <1>2 DEF RINGBUF_Init, Fifo!FifoInit

(* The mapped fifo is a sequence of bytes of length fill_cnt.                *)
ContentOK == /\ Content \in Seq(Byte)
             /\ Len(Content) = fill_cnt
             /\ \A i \in 1 .. fill_cnt : Content[i] = buf[Wrap(p_r + i - 1)]

(* Under the invariant the mapping is well typed.                            *)
LEMMA ContentSeq == RingInv => ContentOK
<1> SUFFICES ASSUME RingInv PROVE ContentOK
  OBVIOUS
<1> USE SizeAssumption
<1>1. \A i \in 1 .. fill_cnt : Wrap(p_r + i - 1) \in Index
  BY DEF RingInv, TypeOK, Wrap, Index
<1>2. \A i \in 1 .. fill_cnt : buf[Wrap(p_r + i - 1)] \in Byte
  BY <1>1 DEF RingInv, TypeOK
<1>3. fill_cnt \in Nat BY DEF RingInv, TypeOK
<1>4. Content \in [1 .. fill_cnt -> Byte] BY <1>2 DEF Content
<1>5. Content \in Seq(Byte) BY <1>3, <1>4
<1>6. Len(Content) = fill_cnt BY <1>3, <1>5 DEF Content
<1> QED BY <1>5, <1>6 DEF Content, ContentOK

(* A successful or refused RINGBUF_Put is a Put of the fifo.                 *)
LEMMA PutRefines ==
  ASSUME RingInv, RingInv', NEW b \in Byte, RINGBUF_Put(b)
  PROVE  Fifo!Put(b)
<1> USE SizeAssumption
<1>1. CASE fill_cnt >= Size
  <2>1. rc' = -1 /\ UNCHANGED <<buf, p_r, p_w, fill_cnt, c>>
    BY <1>1 DEF RINGBUF_Put, RingInv, TypeOK
  <2>2. Content' = Content BY <2>1 DEF Content
  <2>3. Len(Content) >= Size BY <1>1, ContentSeq DEF ContentOK
  <2> QED BY <2>1, <2>2, <2>3 DEF Fifo!Put
<1>2. CASE fill_cnt < Size
  <2>1. /\ fill_cnt' = fill_cnt + 1
        /\ buf' = [buf EXCEPT ![p_w] = b]
        /\ rc' = 0
        /\ p_r' = p_r /\ c' = c
    BY <1>2 DEF RINGBUF_Put, RingInv, TypeOK
  <2>2. /\ Content' \in Seq(Byte)
        /\ Len(Content') = fill_cnt + 1
        /\ \A i \in 1 .. fill_cnt + 1 : Content'[i] = buf'[Wrap(p_r + i - 1)]
    <3>1. /\ Content' \in Seq(Byte)
          /\ Len(Content') = fill_cnt'
          /\ \A i \in 1 .. fill_cnt' : Content'[i] = buf'[Wrap(p_r' + i - 1)]
      <4>1. ContentOK' BY ContentSeq, PTL
      <4> QED BY <4>1 DEF ContentOK, Wrap
    <3> QED BY <2>1, <3>1
  <2>3. Content'[fill_cnt + 1] = b
    <3>1. fill_cnt + 1 \in 1 .. fill_cnt + 1 /\ p_w \in Index
      BY DEF RingInv, TypeOK
    <3>2. Wrap(p_r + (fill_cnt + 1) - 1) = p_w
      BY DEF RingInv, TypeOK, PointersAgree, Index
    <3>3. buf'[p_w] = b BY <2>1, <3>1 DEF RingInv, TypeOK
    <3> QED BY <2>2, <3>1, <3>2, <3>3
  <2>4. ASSUME NEW i \in 1 .. fill_cnt PROVE Content'[i] = Content[i]
    <3>1. Wrap(p_r + i - 1) \in Index
      BY DEF RingInv, TypeOK, Wrap, Index
    <3>2. Wrap(p_r + i - 1) # p_w
      BY <1>2 DEF RingInv, TypeOK, PointersAgree, Wrap, Index
    <3>3. buf'[Wrap(p_r + i - 1)] = buf[Wrap(p_r + i - 1)]
      BY <2>1, <3>1, <3>2 DEF RingInv, TypeOK
    <3>4. i \in 1 .. fill_cnt + 1 BY DEF RingInv, TypeOK
    <3> QED BY <2>2, <3>3, <3>4, ContentSeq DEF ContentOK
  <2>5. /\ Content \in Seq(Byte) /\ Len(Content) = fill_cnt
        /\ fill_cnt \in Nat
    BY ContentSeq DEF ContentOK, RingInv, TypeOK
  <2>6. Content' = Append(Content, b)
    BY <2>2, <2>3, <2>4, <2>5
  <2>7. Len(Content) < Size BY <1>2, <2>5
  <2> QED BY <2>1, <2>6, <2>7 DEF Fifo!Put
<1> QED BY <1>1, <1>2 DEF RingInv, TypeOK

(* A successful or refused RINGBUF_Get is a Get of the fifo.                 *)
LEMMA GetRefines ==
  ASSUME RingInv, RingInv', RINGBUF_Get
  PROVE  Fifo!Get
<1> USE SizeAssumption
<1>1. CASE fill_cnt <= 0
  <2>1. rc' = -1 /\ UNCHANGED <<buf, p_r, p_w, fill_cnt, c>>
    BY <1>1 DEF RINGBUF_Get, RingInv, TypeOK
  <2>2. Content' = Content BY <2>1 DEF Content
  <2>3. Content = <<>> BY <1>1, ContentSeq DEF ContentOK, RingInv, TypeOK
  <2> QED BY <2>1, <2>2, <2>3 DEF Fifo!Get
<1>2. CASE fill_cnt > 0
  <2>1. /\ fill_cnt' = fill_cnt - 1
        /\ c' = buf[p_r]
        /\ p_r' = Wrap(p_r + 1)
        /\ rc' = 0
        /\ buf' = buf
    BY <1>2 DEF RINGBUF_Get, RingInv, TypeOK
  <2>2. /\ Content \in Seq(Byte) /\ Len(Content) = fill_cnt
        /\ fill_cnt \in Nat
        /\ \A i \in 1 .. fill_cnt : Content[i] = buf[Wrap(p_r + i - 1)]
    BY ContentSeq DEF ContentOK, RingInv, TypeOK
  <2>3. Content # <<>> /\ Head(Content) = buf[p_r]
    <3>1. Wrap(p_r + 1 - 1) = p_r BY DEF RingInv, TypeOK, Wrap, Index
    <3>2. Content[1] = buf[p_r] BY <1>2, <2>2, <3>1
    <3> QED BY <1>2, <2>2, <3>2
  <2>4. Content' = [i \in 1 .. fill_cnt - 1 |-> buf[Wrap(Wrap(p_r + 1) + i - 1)]]
    BY <2>1 DEF Content
  <2>5. ASSUME NEW i \in 1 .. fill_cnt - 1
        PROVE  buf[Wrap(Wrap(p_r + 1) + i - 1)] = Content[i + 1]
    <3>1. Wrap(Wrap(p_r + 1) + i - 1) = Wrap(p_r + (i + 1) - 1)
      BY DEF RingInv, TypeOK, Wrap, Index
    <3>2. i + 1 \in 1 .. fill_cnt BY <2>2
    <3> QED BY <2>2, <3>1, <3>2
  <2>6. /\ Tail(Content) \in Seq(Byte)
        /\ Len(Tail(Content)) = fill_cnt - 1
        /\ \A i \in 1 .. fill_cnt - 1 : Tail(Content)[i] = Content[i + 1]
    BY <1>2, <2>2, <2>3
  <2>7. /\ Content' \in Seq(Byte)
        /\ Len(Content') = fill_cnt - 1
        /\ \A i \in 1 .. fill_cnt - 1 : Content'[i] = Content[i + 1]
    <3>1. Content' \in Seq(Byte) /\ Len(Content') = fill_cnt'
      <4>1. ContentOK' BY ContentSeq, PTL
      <4> QED BY <4>1 DEF ContentOK, Wrap
    <3> QED BY <2>1, <2>4, <2>5, <3>1
  <2>8. Content' = Tail(Content)
    BY <2>6, <2>7
  <2> QED BY <2>1, <2>3, <2>8 DEF Fifo!Get
<1> QED BY <1>1, <1>2 DEF RingInv, TypeOK

(* Every sequence of calls on the ring is a behaviour of the bounded fifo:   *)
(* bytes come out once, in order and unchanged, and a full ring refuses.     *)
THEOREM RingImplementsFifo == Spec => RingIsFifo
<1>1. RingInv /\ RingInv' /\ [Next]_vars => [Fifo!FifoNext]_(Fifo!fifoVars)
  <2> SUFFICES ASSUME RingInv, RingInv', [Next]_vars
               PROVE  [Fifo!FifoNext]_(Fifo!fifoVars)
    OBVIOUS
  <2>1. ASSUME NEW b \in Byte, RINGBUF_Put(b) PROVE Fifo!FifoNext
    BY <2>1, PutRefines DEF Fifo!FifoNext
  <2>2. CASE RINGBUF_Get
    BY <2>2, GetRefines DEF Fifo!FifoNext
  <2>3. CASE UNCHANGED vars
    <3>1. Content' = Content BY <2>3 DEF vars, Content
    <3> QED BY <2>3, <3>1 DEF vars, Fifo!fifoVars
  <2> QED BY <2>1, <2>2, <2>3 DEF Next
<1> QED
  BY RingInvInit, RingInvNext, RefinesInit, <1>1, PTL
  DEF Spec, RingIsFifo, Fifo!FifoSpec
----------------------------------------------------------------------------
(* cJSON.c. The characters of a text, and texts that stand in another.       *)
LEMMA CharIs ==
  ASSUME NEW text \in Strings, NEW i \in Nat \ {0}
  PROVE  /\ Char(text, i) \in 0 .. 255
         /\ Char(text, i) # 0 <=> i <= Len(text)
         /\ i <= Len(text) => Char(text, i) = text[i]
<1>1. text \in Seq(1 .. 255) /\ Len(text) \in Nat
  BY DEF Strings
<1>2. ASSUME i <= Len(text) PROVE text[i] \in 1 .. 255
  BY <1>1, <1>2, ElementOfSeq
<1>3. CASE i <= Len(text)
  <2>1. Char(text, i) = text[i] /\ text[i] \in 1 .. 255
    BY <1>2, <1>3 DEF Char
  <2> QED
    <3>1. Char(text, i) \in 0 .. 255
      BY <2>1
    <3>2. Char(text, i) # 0
      BY <2>1
    <3> QED
      BY <1>3, <2>1, <3>1, <3>2
<1>4. CASE ~ (i <= Len(text))
  BY <1>1, <1>4 DEF Char
<1> QED
  BY <1>3, <1>4

(* The characters of two texts that are joined.                              *)
LEMMA JoinedStrings ==
  ASSUME NEW a \in Strings, NEW b \in Strings
  PROVE  /\ a \o b \in Strings /\ Len(a \o b) = Len(a) + Len(b)
         /\ \A i \in 1 .. Len(a) : (a \o b)[i] = a[i]
         /\ \A i \in 1 .. Len(b) : (a \o b)[Len(a) + i] = b[i]
         /\ DOMAIN a = 1 .. Len(a) /\ DOMAIN b = 1 .. Len(b)
         /\ DOMAIN (a \o b) = 1 .. Len(a) + Len(b)
         /\ Len(a) \in Nat /\ Len(b) \in Nat
BY DEF Strings

(* Joined texts stand where one stands behind the other.                     *)
LEMMA StartsJoined ==
  ASSUME NEW text \in Strings, NEW at \in Nat \ {0}, NEW a \in Strings, NEW b \in Strings
  PROVE  Starts(text, at, a \o b) <=> /\ Starts(text, at, a)
                                      /\ Starts(text, at + Len(a), b)
<1>0. /\ DOMAIN a = 1 .. Len(a) /\ DOMAIN b = 1 .. Len(b)
      /\ DOMAIN (a \o b) = 1 .. Len(a) + Len(b)
      /\ Len(a) \in Nat /\ Len(b) \in Nat
      /\ \A i \in 1 .. Len(a) : (a \o b)[i] = a[i]
      /\ \A i \in 1 .. Len(b) : (a \o b)[Len(a) + i] = b[i]
  BY JoinedStrings
<1>1. ASSUME Starts(text, at, a \o b) PROVE Starts(text, at, a)
  BY <1>0, <1>1 DEF Starts
<1>2. ASSUME Starts(text, at, a \o b), NEW i \in DOMAIN b
      PROVE  Char(text, at + Len(a) + i - 1) = b[i]
  <2>1. Len(a) + i \in DOMAIN (a \o b) /\ at + (Len(a) + i) - 1 = at + Len(a) + i - 1
    BY <1>0
  <2> QED
    BY <1>0, <1>2, <2>1 DEF Starts
<1>3. ASSUME Starts(text, at, a), Starts(text, at + Len(a), b), NEW i \in DOMAIN (a \o b)
      PROVE  Char(text, at + i - 1) = (a \o b)[i]
  <2>1. CASE i <= Len(a)
    BY <1>0, <1>3, <2>1 DEF Starts
  <2>2. CASE i > Len(a)
    <3>1. i - Len(a) \in DOMAIN b /\ i = Len(a) + (i - Len(a))
          /\ at + Len(a) + (i - Len(a)) - 1 = at + i - 1
      BY <1>0, <2>2
    <3> QED
      BY <1>0, <1>3, <3>1 DEF Starts
  <2> QED
    BY <1>0, <2>1, <2>2
<1> QED
  BY <1>1, <1>2, <1>3 DEF Starts

(* A text that stands in another ends inside it.                             *)
LEMMA StartsInside ==
  ASSUME NEW text \in Strings, NEW at \in Nat \ {0}, NEW a \in Strings, Starts(text, at, a)
  PROVE  a # <<>> => at + Len(a) - 1 <= Len(text)
<1>1. CASE a # <<>>
  <2>1. Len(a) \in DOMAIN a /\ a[Len(a)] \in 1 .. 255 /\ at + Len(a) - 1 \in Nat \ {0}
    BY <1>1 DEF Strings
  <2> QED
    BY <2>1, CharIs DEF Starts
<1> QED
  BY <1>1

(* PassOver is the first place whose character is not in the set.            *)
LEMMA PassOverIs ==
  ASSUME NEW text \in Strings, NEW at \in Nat \ {0}, NEW set, NEW q \in at .. Len(text) + 1,
         \A j \in at .. q - 1 : Char(text, j) \in set,
         Char(text, q) \notin set \/ q > Len(text)
  PROVE  PassOver(text, at, set) = q
<1> DEFINE P(i) == /\ Char(text, i) \notin set \/ i > Len(text)
                   /\ \A j \in at .. i - 1 : Char(text, j) \in set
<1>1. Len(text) \in Nat
  BY DEF Strings
<1>2. P(q)
  OBVIOUS
<1>3. ASSUME NEW i \in at .. Len(text) + 1, P(i) PROVE i = q
  BY <1>1, <1>2, <1>3
<1> HIDE DEF P
<1>4. PassOver(text, at, set) = CHOOSE i \in at .. Len(text) + 1 : P(i)
  BY DEF PassOver, P
<1> QED
  BY <1>2, <1>3, <1>4

(* What a character is printed as fits into the room counted for it.         *)
LEMMA EscapedIs ==
  ASSUME NEW chr \in 1 .. 255
  PROVE  Escaped(chr) \in Strings /\ Len(Escaped(chr)) \in 1 .. RoomFor(chr) /\ RoomFor(chr) \in Nat
<1> USE DEF Backslash, Quote, DigitZero, Tab, LineFeed
<1>1. CASE chr \in {Quote, Backslash}
  <2>1. Escaped(chr) = <<Backslash, chr>> /\ RoomFor(chr) = 2
    BY <1>1 DEF Escaped, Letter, RoomFor
  <2> QED
    BY <2>1 DEF Strings
<1>2. CASE chr \in DOMAIN Letter
  <2>1. Escaped(chr) = <<Backslash, Letter[chr]>> /\ RoomFor(chr) = 2 /\ Letter[chr] \in 1 .. 255
    BY <1>2 DEF Escaped, Letter, RoomFor
  <2> QED
    BY <2>1 DEF Strings
<1>3. CASE chr \in (1 .. 31) \ DOMAIN Letter
  <2>1. /\ Escaped(chr) = <<Backslash, 117, DigitZero, DigitZero, HexChar(chr \div 16), HexChar(chr % 16)>>
        /\ RoomFor(chr) = 6
    BY <1>3 DEF Escaped, Letter, RoomFor
  <2>2. HexChar(chr \div 16) \in 1 .. 255 /\ HexChar(chr % 16) \in 1 .. 255
    BY <1>3 DEF HexChar
  <2> QED
    BY <2>1, <2>2 DEF Strings
<1>4. CASE chr \notin {Quote, Backslash} \cup DOMAIN Letter \cup 1 .. 31
  <2>1. Escaped(chr) = <<chr>> /\ RoomFor(chr) = 1
    BY <1>4 DEF Escaped, Letter, RoomFor
  <2> QED
    BY <2>1 DEF Strings
<1> QED
  BY <1>1, <1>2, <1>3, <1>4

(* What one character of a string is read as, and where the next one is.     *)
Character(text, at) ==
  LET e == Char(text, at + 1)
  IN  CASE Char(text, at) \notin {Quote, 0, Backslash} -> [bytes |-> <<Char(text, at)>>, at |-> at + 1]
        [] Char(text, at) = Backslash /\ e \in Range(Letter) ->
             [bytes |-> <<CHOOSE x \in DOMAIN Letter : Letter[x] = e>>, at |-> at + 2]
        [] Char(text, at) = Backslash /\ e = 117 /\ e \notin Range(Letter) -> Unicode(text, at + 2)
        [] Char(text, at) = Backslash /\ e # 117 /\ e \notin Range(Letter) ->
             [bytes |-> <<e>>, at |-> at + 2]

(* A character behind a quote is read so.                                    *)
LEMMA UnescapeIs ==
  ASSUME NEW text, NEW at, NEW others, Char(text, at) \notin {Quote, 0}
  PROVE  UnescapeFrom(text, at, others)
           = [out |-> Character(text, at).bytes \o others[Character(text, at).at].out,
              at |-> others[Character(text, at).at].at]
<1> DEFINE a == Char(text, at)
           e == Char(text, at + 1)
           R == Range(Letter)
<1>1. Backslash # Quote /\ Backslash # 0
  BY DEF Backslash, Quote
<1>2. a \notin {Quote, 0, Backslash} => ~ (a \in {Quote, 0}) /\ ~ (a = Backslash)
  OBVIOUS
<1>3. a = Backslash => ~ (a \in {Quote, 0}) /\ ~ (a \notin {Quote, 0, Backslash})
  BY <1>1
<1>4. CASE a \notin {Quote, 0, Backslash}
  <2>1. Character(text, at) = [bytes |-> <<a>>, at |-> at + 1]
    BY <1>2, <1>4, Zenon DEF Character
  <2>2. Character(text, at).bytes = <<a>> /\ Character(text, at).at = at + 1
    BY <2>1
  <2> QED
    BY <1>2, <1>4, <2>2, Zenon DEF UnescapeFrom
<1>5. CASE a = Backslash /\ e \in R
  <2>1. e # 117
    <3>1. 117 \notin R
      BY DEF Letter, Range, Tab, LineFeed
    <3> QED
      BY <1>5, <3>1
  <2> DEFINE x0 == CHOOSE x \in DOMAIN Letter : Letter[x] = e
  <2>2. Character(text, at) = [bytes |-> <<x0>>, at |-> at + 2]
    BY <1>3, <1>5, <2>1, Zenon DEF Character
  <2>3. Character(text, at).bytes = <<x0>> /\ Character(text, at).at = at + 2
    <3> HIDE DEF x0
    <3> QED
      BY <2>2
  <2> QED
    BY <1>3, <1>5, <2>1, <2>3, Zenon DEF UnescapeFrom
<1>6. CASE a = Backslash /\ e = 117 /\ e \notin R
  <2>1. Character(text, at) = Unicode(text, at + 2)
    BY <1>3, <1>6, Zenon DEF Character
  <2> QED
    BY <1>3, <1>6, <2>1, Zenon DEF UnescapeFrom
<1>7. CASE a = Backslash /\ e # 117 /\ e \notin R
  <2>1. Character(text, at) = [bytes |-> <<e>>, at |-> at + 2]
    BY <1>3, <1>7, Zenon DEF Character
  <2>2. Character(text, at).bytes = <<e>> /\ Character(text, at).at = at + 2
    BY <2>1
  <2> QED
    BY <1>3, <1>7, <2>2, Zenon DEF UnescapeFrom
<1> QED
  BY <1>4, <1>5, <1>6, <1>7

UnescapesTo(text, at, others, chr) ==
  UnescapeFrom(text, at, others) = [out |-> <<chr>> \o others[at + Len(Escaped(chr))].out,
                                    at |-> others[at + Len(Escaped(chr))].at]

(* What a character is printed as is read as that character.                 *)
LEMMA EscapedRead ==
  ASSUME NEW text \in Strings, NEW at \in Nat \ {0}, NEW chr \in 1 .. 255, NEW others,
         Starts(text, at, Escaped(chr))
  PROVE  UnescapesTo(text, at, others, chr)
<1> USE DEF UnescapesTo
<1> DEFINE a == Char(text, at)
           e == Char(text, at + 1)
<1>0. Backslash # Quote /\ Backslash # 0 /\ Backslash # 117 /\ Backslash \notin {Quote, 0}
  BY DEF Backslash, Quote
<1> SUFFICES a \notin {Quote, 0} /\ Character(text, at) = [bytes |-> <<chr>>, at |-> at + Len(Escaped(chr))]
  <2> DEFINE h == Character(text, at)
             n == at + Len(Escaped(chr))
  <2>1. ASSUME h = [bytes |-> <<chr>>, at |-> n] PROVE h.bytes = <<chr>> /\ h.at = n
    BY <2>1
  <2> QED
    BY <2>1, UnescapeIs
<1>1. CASE chr \in {Quote, Backslash}
  <2>0. chr \notin DOMAIN Letter /\ chr \notin (1 .. 31) \ DOMAIN Letter
    BY <1>1 DEF Letter, Tab, LineFeed, Quote, Backslash
  <2>1. Escaped(chr) = <<Backslash, chr>>
    BY <1>1, <2>0, Zenon DEF Escaped
  <2>2. a = Backslash /\ e = chr /\ Len(Escaped(chr)) = 2
    BY <2>1 DEF Starts
  <2>3. chr # 117 /\ chr \notin Range(Letter)
    BY <1>1 DEF Letter, Range, Tab, LineFeed, Quote, Backslash
  <2>4. ~ (a \notin {Quote, 0, Backslash}) /\ a \notin {Quote, 0}
    BY <1>0, <2>2
  <2>5. Character(text, at) = [bytes |-> <<e>>, at |-> at + 2]
    BY <2>2, <2>3, <2>4, Zenon DEF Character
  <2> QED
    BY <2>2, <2>4, <2>5
<1>2. CASE chr \in DOMAIN Letter
  <2>0. chr \notin {Quote, Backslash}
    BY <1>2 DEF Letter, Tab, LineFeed, Quote, Backslash
  <2>1. Escaped(chr) = <<Backslash, Letter[chr]>>
    BY <1>2, <2>0, Zenon DEF Escaped
  <2>2. a = Backslash /\ e = Letter[chr] /\ Len(Escaped(chr)) = 2
    BY <2>1 DEF Starts
  <2>3. e \in Range(Letter) /\ e # 117
    BY <1>2, <2>2 DEF Letter, Range, Tab, LineFeed
  <2>4. ~ (a \notin {Quote, 0, Backslash}) /\ a \notin {Quote, 0}
    BY <1>0, <2>2
  <2>5. \A x \in DOMAIN Letter : Letter[x] = Letter[chr] <=> x = chr
    BY <1>2 DEF Letter, Tab, LineFeed
  <2>6. (CHOOSE x \in DOMAIN Letter : Letter[x] = e) = chr
    BY <1>2, <2>2, <2>5
  <2>7. Character(text, at) = [bytes |-> <<CHOOSE x \in DOMAIN Letter : Letter[x] = e>>, at |-> at + 2]
    BY <2>2, <2>3, <2>4, Zenon DEF Character
  <2> QED
    BY <2>2, <2>4, <2>6, <2>7
<1>3. CASE chr \in (1 .. 31) \ DOMAIN Letter
  <2>0. chr \notin {Quote, Backslash} /\ chr \notin DOMAIN Letter
    BY <1>3 DEF Quote, Backslash
  <2>1. Escaped(chr) = <<Backslash, 117, DigitZero, DigitZero, HexChar(chr \div 16), HexChar(chr % 16)>>
    BY <1>3, <2>0, Zenon DEF Escaped
  <2>2. /\ a = Backslash /\ e = 117 /\ Len(Escaped(chr)) = 6
        /\ Char(text, at + 2) = DigitZero /\ Char(text, at + 3) = DigitZero
        /\ Char(text, at + 4) = HexChar(chr \div 16) /\ Char(text, at + 5) = HexChar(chr % 16)
    BY <2>1 DEF Starts
  <2>3. e \notin Range(Letter)
    BY <2>2 DEF Letter, Range, Tab, LineFeed
  <2>4. parse_hex4(text, at + 2) = chr
    <3>1. HexDigit(HexChar(chr \div 16)) = chr \div 16 /\ HexDigit(HexChar(chr % 16)) = chr % 16
          /\ HexDigit(DigitZero) = 0
      BY <1>3 DEF HexDigit, HexChar, Digits, DigitZero
    <3> DEFINE h == [i \in 0 .. 3 |-> HexDigit(Char(text, at + 2 + i))]
    <3>2. h[0] = 0 /\ h[1] = 0 /\ h[2] = chr \div 16 /\ h[3] = chr % 16
      BY <2>2, <3>1
    <3>3. ~ (\E i \in 0 .. 3 : h[i] < 0)
      BY <3>2, <1>3
    <3>4. 16 * (chr \div 16) + (chr % 16) = chr
      BY <1>3
    <3>5. parse_hex4(text, at + 2) = 4096 * h[0] + 256 * h[1] + 16 * h[2] + h[3]
      BY <3>3 DEF parse_hex4
    <3> QED
      BY <3>2, <3>4, <3>5, <1>3
  <2>5. Unicode(text, at + 2) = [bytes |-> <<chr>>, at |-> at + 6]
    <3>1. chr \in Nat /\ chr # 0 /\ chr <= 31
      BY <1>3
    <3>2. Utf8(chr) = <<chr>>
      BY ONLY <3>1 DEF Utf8
    <3>3. chr # 0 /\ ~ LowHalf(chr) /\ ~ HighHalf(chr)
      BY ONLY <3>1 DEF LowHalf, HighHalf
    <3>4. at + 2 + 4 = at + 6
      OBVIOUS
    <3> DEFINE high == parse_hex4(text, at + 2)
    <3>5. high # 0 /\ ~ LowHalf(high) /\ ~ HighHalf(high) /\ Utf8(high) = <<chr>>
      BY <2>4, <3>2, <3>3
    <3>6. Unicode(text, at + 2) = [bytes |-> Utf8(high), at |-> at + 2 + 4]
      BY ONLY <3>5 DEF Unicode
    <3> QED
      BY <3>4, <3>5, <3>6
  <2>6. ~ (a \notin {Quote, 0, Backslash}) /\ a \notin {Quote, 0}
    BY <1>0, <2>2
  <2>7. Character(text, at) = Unicode(text, at + 2)
    BY <2>2, <2>3, <2>6, Zenon DEF Character
  <2> QED
    BY <2>2, <2>5, <2>6, <2>7
<1>4. CASE chr \notin {Quote, Backslash} \cup DOMAIN Letter \cup 1 .. 31
  <2>1. Escaped(chr) = <<chr>>
    BY <1>4, Zenon DEF Escaped
  <2>2. a = chr /\ Len(Escaped(chr)) = 1
    BY <2>1 DEF Starts
  <2>3. a \notin {Quote, 0} /\ a \notin {Quote, 0, Backslash} /\ ~ (a = Backslash)
    BY <1>4, <2>2
  <2>4. Character(text, at) = [bytes |-> <<a>>, at |-> at + 1]
    BY <2>3, Zenon DEF Character
  <2> QED
    BY <2>2, <2>3, <2>4
<1> QED
  BY <1>1, <1>2, <1>3, <1>4

----------------------------------------------------------------------------
(* cJSON.c. A string is printed inside its room, and read back.              *)
(* The loop of print_string_ptr.                                             *)
IsQuoting(s, p) ==
  /\ p[0] = Out(<<Quote>>, 3)
  /\ \A k \in 1 .. Len(s) : p[k] = PrintCharacter(p[k - 1], s[k])

(* The loop of print_string_ptr has its texts, and ends with a quote.        *)
LEMMA QuotingExists ==
  ASSUME NEW s, Len(s) \in Nat
  PROVE  \E p : IsQuoting(s, p) /\ print_string_ptr(s) = End(p[Len(s)], <<Quote>>)
<1> DEFINE F(g, k) == IF k = 0 THEN Out(<<Quote>>, 3) ELSE PrintCharacter(g[k - 1], s[k])
           T == {n \in 0 .. Len(s) : \E g : g = [k \in 0 .. n |-> F(g, k)]}
           p == CHOOSE g : g = [k \in 0 .. Len(s) |-> F(g, k)]
<1>1. 0 \in T
  <2> DEFINE g == [k \in 0 .. 0 |-> Out(<<Quote>>, 3)]
  <2>1. g = [k \in 0 .. 0 |-> F(g, k)]
    OBVIOUS
  <2> HIDE DEF g, F
  <2> QED
    BY <2>1
<1>2. ASSUME NEW n \in 0 .. Len(s) - 1, n \in T PROVE n + 1 \in T
  <2>1. PICK g : g = [k \in 0 .. n |-> F(g, k)]
    BY <1>2
  <2> DEFINE h == [k \in 0 .. n + 1 |-> F(g, k)]
  <2>2. ASSUME NEW k \in 0 .. n + 1 PROVE F(g, k) = F(h, k)
    <3>1. k # 0 => k - 1 \in 0 .. n /\ g[k - 1] = F(g, k - 1) /\ h[k - 1] = F(g, k - 1)
      BY <2>1
    <3> HIDE DEF h
    <3> QED
      BY <3>1
  <2>3. h = [k \in 0 .. n + 1 |-> F(h, k)]
    BY <2>2
  <2> HIDE DEF h, F
  <2> QED
    BY <2>3
<1>3. Len(s) \in T
  <2> HIDE DEF T
  <2>1. \A n \in 0 .. Len(s) - 1 : n \in T => n + 1 \in T
    BY <1>2
  <2>2. \A n \in 0 .. Len(s) : n \in T
    BY <1>1, <2>1, UpTo
  <2> QED
    BY <2>2
<1>4. p = [k \in 0 .. Len(s) |-> F(p, k)]
  BY <1>3
<1>5. print_string_ptr(s) = End(p[Len(s)], <<Quote>>)
  BY DEF print_string_ptr
<1> HIDE DEF p
<1>6. IsQuoting(s, p)
  <2>1. p[0] = F(p, 0) /\ \A k \in 1 .. Len(s) : p[k] = F(p, k)
    BY <1>4
  <2> QED
    BY <2>1 DEF IsQuoting
<1> QED
  BY <1>5, <1>6

(* A text of one character.                                                  *)
LEMMA OneChar == ASSUME NEW chr \in 1 .. 255 PROVE <<chr>> \in Strings /\ Len(<<chr>>) = 1
BY DEF Strings

(* The empty text.                                                           *)
LEMMA NoText == <<>> \in Strings /\ Len(<<>>) = 0
BY DEF Strings

(* Joined texts are texts, and as long as both.                              *)
LEMMA StringsJoined ==
  ASSUME NEW a \in Strings, NEW b \in Strings
  PROVE  a \o b \in Strings /\ Len(a \o b) = Len(a) + Len(b) /\ Len(a) \in Nat /\ Len(b) \in Nat
BY JoinedStrings

(* Nothing is added by the empty text.                                       *)
LEMMA JoinedNothing ==
  ASSUME NEW a \in Strings
  PROVE  a \o <<>> = a /\ <<>> \o a = a
BY DEF Strings

(* A text that is being made, with room for at least one character more.     *)
Partial(out) ==
  /\ out = [text |-> out.text, room |-> out.room, fits |-> out.fits]
  /\ out.text \in Strings /\ out.room \in Nat /\ out.fits = TRUE

(* What PrintCharacter makes of it.                                          *)
IsPrinted(next, out, chr) ==
  /\ Partial(next) /\ next.text = out.text \o Escaped(chr)
  /\ Len(next.text) \in Len(out.text) + 1 .. Len(out.text) + RoomFor(chr)
  /\ next.room = out.room + RoomFor(chr) /\ RoomFor(chr) \in Nat

(* A printed character adds its text, and its room.                          *)
LEMMA CharacterPrinted ==
  ASSUME NEW out, Partial(out), NEW chr \in 1 .. 255, NEW next, next = PrintCharacter(out, chr)
  PROVE  IsPrinted(next, out, chr)
<1>1. /\ Escaped(chr) \in Strings /\ Len(Escaped(chr)) \in 1 .. RoomFor(chr) /\ RoomFor(chr) \in Nat
  BY EscapedIs
<1>2. out.text \in Strings /\ out.room \in Nat /\ out.fits = TRUE
  BY DEF Partial
<1>3. out.text \o <<>> \o Escaped(chr) \o <<>> = out.text \o Escaped(chr)
  <2>1. out.text \o <<>> = out.text
    BY <1>2, JoinedNothing
  <2>2. (out.text \o Escaped(chr)) \o <<>> = out.text \o Escaped(chr)
    BY <1>1, <1>2, StringsJoined, JoinedNothing
  <2> QED
    BY <2>1, <2>2
<1>4. /\ out.text \o Escaped(chr) \in Strings
      /\ Len(out.text \o Escaped(chr)) = Len(out.text) + Len(Escaped(chr))
      /\ Len(out.text) \in Nat
  BY <1>1, <1>2, StringsJoined
<1>5. PrintCharacter(out, chr)
        = [text |-> out.text \o Escaped(chr), room |-> out.room + RoomFor(chr), fits |-> TRUE]
  BY <1>2, <1>3 DEF PrintCharacter, Add, Out
<1> QED
  BY <1>1, <1>2, <1>4, <1>5 DEF Partial, IsPrinted

QuotesNext(s, p, k) ==
  /\ p[k + 1] = PrintCharacter(p[k], s[k + 1]) /\ s[k + 1] \in 1 .. 255
  /\ k + 1 \in 0 .. Len(s)

(* The steps of the loop of print_string_ptr.                                *)
LEMMA QuotingStep ==
  ASSUME NEW s \in Strings, NEW p, IsQuoting(s, p), NEW k \in 0 .. Len(s) - 1
  PROVE  QuotesNext(s, p, k)
<1>1. Len(s) \in Nat /\ s \in Seq(1 .. 255)
  BY DEF Strings
<1>2. k + 1 \in 1 .. Len(s) /\ (k + 1) - 1 = k
  BY <1>1
<1>3. s[k + 1] \in 1 .. 255
  BY <1>1, <1>2, ElementOfSeq
<1>4. p[k + 1] = PrintCharacter(p[(k + 1) - 1], s[k + 1])
  BY <1>2 DEF IsQuoting
<1> QED
  BY <1>2, <1>3, <1>4 DEF QuotesNext

(* The texts of that loop leave room for the quote behind them.              *)
LEMMA QuotingFits ==
  ASSUME NEW s \in Strings, NEW p, IsQuoting(s, p)
  PROVE  \A k \in 0 .. Len(s) : /\ Partial(p[k]) /\ Len(p[k].text) >= k + 1
                                /\ Len(p[k].text) + 1 < p[k].room
                                /\ Len(p[k].text) \in Nat /\ p[k].room \in Nat
<1> DEFINE Good(k) == /\ Partial(p[k]) /\ Len(p[k].text) >= k + 1
                      /\ Len(p[k].text) + 1 < p[k].room
           T == {k \in 0 .. Len(s) : Good(k)}
<1>0. Len(s) \in Nat
  BY DEF Strings
<1>1. 0 \in T
  <2>1. p[0] = [text |-> <<Quote>>, room |-> 3, fits |-> TRUE]
    BY DEF IsQuoting, Out
  <2>2. <<Quote>> \in Strings /\ Len(<<Quote>>) = 1
    BY DEF Strings, Quote
  <2>3. Partial(p[0]) /\ p[0].text = <<Quote>> /\ p[0].room = 3
    BY <2>1, <2>2 DEF Partial
  <2>4. Len(p[0].text) >= 0 + 1 /\ Len(p[0].text) + 1 < p[0].room
    BY <2>2, <2>3
  <2>5. Good(0)
    BY <2>3, <2>4
  <2> HIDE DEF Good
  <2> QED
    BY <1>0, <2>5
<1>2. ASSUME NEW k \in 0 .. Len(s) - 1, k \in T PROVE k + 1 \in T
  <2>1. /\ Partial(p[k]) /\ Len(p[k].text) >= k + 1 /\ Len(p[k].text) + 1 < p[k].room
        /\ Len(p[k].text) \in Nat /\ p[k].room \in Nat
    BY <1>2 DEF Partial, Strings
  <2>0. p[k + 1] = PrintCharacter(p[k], s[k + 1]) /\ s[k + 1] \in 1 .. 255
    BY QuotingStep DEF QuotesNext
  <2>2. /\ Partial(p[k + 1])
        /\ Len(p[k + 1].text) \in Len(p[k].text) + 1 .. Len(p[k].text) + RoomFor(s[k + 1])
        /\ p[k + 1].room = p[k].room + RoomFor(s[k + 1]) /\ RoomFor(s[k + 1]) \in Nat
    <3>1. IsPrinted(p[k + 1], p[k], s[k + 1])
      BY ONLY <2>0, <2>1, CharacterPrinted
    <3> QED
      BY <3>1 DEF IsPrinted
  <2>3. k + 1 \in 0 .. Len(s)
    BY <1>0
  <2> QED
    <3>1. Len(p[k + 1].text) >= (k + 1) + 1 /\ Len(p[k + 1].text) + 1 < p[k + 1].room
      <4> DEFINE a == Len(p[k].text)
                 b == Len(p[k + 1].text)
                 r == p[k].room
                 q == p[k + 1].room
                 m == RoomFor(s[k + 1])
      <4>1. /\ a \in Nat /\ r \in Nat /\ m \in Nat /\ a >= k + 1 /\ a + 1 < r
            /\ b \in a + 1 .. a + m /\ q = r + m
        BY <2>1, <2>2
      <4> HIDE DEF a, b, r, q, m
      <4>2. b >= (k + 1) + 1 /\ b + 1 < q
        BY <4>1
      <4> QED
        BY <4>2 DEF b, q
    <3> QED
      BY <2>2, <2>3, <3>1
<1>3. \A k \in 0 .. Len(s) - 1 : k \in T => k + 1 \in T
  BY <1>2
<1>4. \A k \in 0 .. Len(s) : k \in T
  <2> HIDE DEF T
  <2> QED
    BY <1>0, <1>1, <1>3, UpTo
<1>5. ASSUME NEW k \in 0 .. Len(s), k \in T
      PROVE  /\ Partial(p[k]) /\ Len(p[k].text) >= k + 1
             /\ Len(p[k].text) + 1 < p[k].room
             /\ Len(p[k].text) \in Nat /\ p[k].room \in Nat
  <2>1. Partial(p[k]) /\ Len(p[k].text) >= k + 1 /\ Len(p[k].text) + 1 < p[k].room
    BY <1>5
  <2>2. Len(p[k].text) \in Nat /\ p[k].room \in Nat
    BY <2>1 DEF Partial, Strings
  <2> QED
    BY <2>1, <2>2
<1> HIDE DEF T
<1> QED
  BY <1>4, <1>5

(* Where the whole of it stands its parts stand.                             *)
LEMMA QuotingStarts ==
  ASSUME NEW s \in Strings, NEW p, IsQuoting(s, p), NEW text \in Strings,
         NEW at \in Nat \ {0}, Starts(text, at, p[Len(s)].text)
  PROVE  /\ \A k \in 0 .. Len(s) : Starts(text, at, p[k].text)
         /\ \A k \in 0 .. Len(s) - 1 : Starts(text, at + Len(p[k].text), Escaped(s[k + 1]))
<1>0. Len(s) \in Nat
  BY DEF Strings
<1>1. ASSUME NEW k \in 0 .. Len(s) - 1, Starts(text, at, p[k + 1].text)
      PROVE  Starts(text, at, p[k].text) /\ Starts(text, at + Len(p[k].text), Escaped(s[k + 1]))
  <2>1. Partial(p[k])
    BY <1>0, QuotingFits
  <2>0. p[k + 1] = PrintCharacter(p[k], s[k + 1]) /\ s[k + 1] \in 1 .. 255
    BY QuotingStep DEF QuotesNext
  <2>2. p[k + 1].text = p[k].text \o Escaped(s[k + 1]) /\ s[k + 1] \in 1 .. 255
    <3>1. IsPrinted(p[k + 1], p[k], s[k + 1])
      BY ONLY <2>0, <2>1, CharacterPrinted
    <3> QED
      BY <2>0, <3>1 DEF IsPrinted
  <2>3. Escaped(s[k + 1]) \in Strings /\ p[k].text \in Strings
    BY <2>1, <2>2, EscapedIs DEF Partial
  <2>4. Starts(text, at, p[k].text \o Escaped(s[k + 1]))
    BY <1>1, <2>2
  <2> QED
    BY ONLY <2>3, <2>4, text \in Strings, at \in Nat \ {0}, StartsJoined
<1> DEFINE T == {j \in 0 .. Len(s) : Starts(text, at, p[Len(s) - j].text)}
<1>2. 0 \in T
  BY <1>0
<1>3. ASSUME NEW j \in 0 .. Len(s) - 1, j \in T PROVE j + 1 \in T
  <2> DEFINE k == Len(s) - (j + 1)
  <2>1. k \in 0 .. Len(s) - 1 /\ k + 1 = Len(s) - j
    BY <1>0
  <2>2. Starts(text, at, p[k + 1].text)
    BY <1>3, <2>1
  <2> QED
    BY <1>0, <1>1, <2>1, <2>2
<1>4. \A j \in 0 .. Len(s) : j \in T
  <2>1. \A j \in 0 .. Len(s) - 1 : j \in T => j + 1 \in T
    BY <1>3
  <2> HIDE DEF T
  <2> QED
    BY <1>0, <1>2, <2>1, UpTo
<1>5. ASSUME NEW k \in 0 .. Len(s) PROVE Starts(text, at, p[k].text)
  <2>1. Len(s) - k \in T /\ Len(s) - (Len(s) - k) = k
    BY <1>0, <1>4
  <2> QED
    BY <2>1
<1> HIDE DEF T
<1>6. \A k \in 0 .. Len(s) - 1 : Starts(text, at + Len(p[k].text), Escaped(s[k + 1]))
  BY <1>0, <1>1, <1>5
<1> QED
  BY <1>5, <1>6

(* A text starts with itself.                                                *)
LEMMA StartsItself ==
  ASSUME NEW text \in Strings
  PROVE  Starts(text, 1, text)
BY CharIs DEF Starts, Strings

(* What print_string_ptr makes fits, and starts and ends with a quote.       *)
LEMMA StringPrinted ==
  ASSUME NEW s \in Strings
  PROVE  \E p : /\ IsQuoting(s, p) /\ p[Len(s)].text \in Strings
                /\ print_string_ptr(s).text = p[Len(s)].text \o <<Quote>>
                /\ print_string_ptr(s).text \in Strings
                /\ Len(print_string_ptr(s).text) = Len(p[Len(s)].text) + 1
                /\ print_string_ptr(s).fits = TRUE
<1>1. PICK p : IsQuoting(s, p) /\ print_string_ptr(s) = End(p[Len(s)], <<Quote>>)
  BY QuotingExists DEF Strings
<1>2. /\ Partial(p[Len(s)]) /\ Len(p[Len(s)].text) + 1 < p[Len(s)].room
      /\ Len(p[Len(s)].text) \in Nat
  BY <1>1, QuotingFits DEF Strings
<1>3. p[Len(s)].text \in Strings /\ <<Quote>> \in Strings /\ Len(<<Quote>>) = 1
  BY <1>2 DEF Partial, Strings, Quote
<1>4. /\ p[Len(s)].text \o <<Quote>> \in Strings
      /\ Len(p[Len(s)].text \o <<Quote>>) = Len(p[Len(s)].text) + 1
  BY <1>3, StringsJoined
<1>6. p[Len(s)].fits = TRUE /\ Len(p[Len(s)].text \o <<Quote>>) < p[Len(s)].room
  BY <1>2, <1>4 DEF Partial
<1>5. print_string_ptr(s).text = p[Len(s)].text \o <<Quote>>
  BY <1>1 DEF End
<1>7. print_string_ptr(s).fits = (p[Len(s)].fits /\ Len(p[Len(s)].text \o <<Quote>>) < p[Len(s)].room)
  BY <1>1 DEF End
<1>8. print_string_ptr(s).fits = TRUE
  BY <1>6, <1>7
<1> QED
  BY <1>1, <1>3, <1>4, <1>5, <1>8

(* The loop of parse_string.                                                 *)
IsReading(text, r) ==
  \A n \in 1 .. Len(text) + 1, i \in Nat : r[n][i] = UnescapeFrom(text, i, r[n - 1])

(* The reading of a string has its rows, one for each number of characters.  *)
LEMMA ReadingExists ==
  ASSUME NEW text, Len(text) \in Nat
  PROVE  \E r : IsReading(text, r) /\ \A at : Unescaped(text, at) = r[Len(text) + 1][at]
<1> DEFINE N == Len(text) + 1
           F(g, n) == [i \in Nat |-> IF n = 0 THEN [out |-> <<>>, at |-> i]
                                    ELSE UnescapeFrom(text, i, g[n - 1])]
           T == {m \in 0 .. N : \E g : g = [n \in 0 .. m |-> F(g, n)]}
           r == CHOOSE g : g = [n \in 0 .. N |-> F(g, n)]
<1>1. 0 \in T
  <2> DEFINE g == [n \in 0 .. 0 |-> [i \in Nat |-> [out |-> <<>>, at |-> i]]]
  <2>1. g = [n \in 0 .. 0 |-> F(g, n)]
    OBVIOUS
  <2> HIDE DEF g, F
  <2> QED
    BY <2>1
<1>2. ASSUME NEW m \in 0 .. N - 1, m \in T PROVE m + 1 \in T
  <2>1. PICK g : g = [n \in 0 .. m |-> F(g, n)]
    BY <1>2
  <2> DEFINE h == [n \in 0 .. m + 1 |-> F(g, n)]
  <2>2. ASSUME NEW n \in 0 .. m + 1 PROVE F(g, n) = F(h, n)
    <3>1. n # 0 => g[n - 1] = h[n - 1]
      <4> HIDE DEF F
      <4> QED
        BY <2>1
    <3> HIDE DEF h
    <3> QED
      BY <3>1
  <2>3. h = [n \in 0 .. m + 1 |-> F(h, n)]
    BY <2>2
  <2> HIDE DEF h, F
  <2> QED
    BY <2>3
<1>3. N \in T
  <2>1. \A m \in 0 .. N - 1 : m \in T => m + 1 \in T
    BY <1>2
  <2> HIDE DEF T
  <2>2. \A m \in 0 .. N : m \in T
    BY <1>1, <2>1, UpTo, SMTT(30)
  <2> QED
    BY <2>2
<1>4. r = [n \in 0 .. N |-> F(r, n)]
  <2> HIDE DEF F
  <2> QED
    BY <1>3
<1>5. ASSUME NEW at PROVE Unescaped(text, at) = r[N][at]
  BY DEF Unescaped
<1> HIDE DEF r
<1>6. IsReading(text, r)
  <2>1. \A n \in 1 .. N : r[n] = F(r, n)
    <3> HIDE DEF F
    <3> QED
      BY <1>4
  <2>2. ASSUME NEW n \in 1 .. N, NEW i \in Nat PROVE r[n][i] = UnescapeFrom(text, i, r[n - 1])
    <3>1. r[n] = F(r, n)
      <4> HIDE DEF F
      <4> QED
        BY <2>1
    <3>2. n # 0 /\ F(r, n)[i] = UnescapeFrom(text, i, r[n - 1])
      OBVIOUS
    <3> QED
      BY <3>1, <3>2
  <2> QED
    BY <2>2 DEF IsReading
<1> QED
  BY <1>5, <1>6

(* The rest of a text.                                                       *)
LEMMA SubSeqIs ==
  ASSUME NEW s \in Strings, NEW m \in 1 .. Len(s) + 1
  PROVE  /\ SubSeq(s, m, Len(s)) \in Strings /\ Len(SubSeq(s, m, Len(s))) = Len(s) + 1 - m
         /\ \A i \in 1 .. Len(s) + 1 - m : SubSeq(s, m, Len(s))[i] = s[m + i - 1]
<1>1. Len(s) \in Nat /\ s \in Seq(1 .. 255)
  BY DEF Strings
<1>2. \A i \in m .. Len(s) : s[i] \in 1 .. 255
  <2>1. \A i \in m .. Len(s) : i \in 1 .. Len(s)
    BY <1>1
  <2> QED
    BY <1>1, <2>1, ElementOfSeq
<1>3. m \in Int /\ Len(s) \in Int
  BY <1>1
<1>4. /\ SubSeq(s, m, Len(s)) \in Seq(1 .. 255)
      /\ Len(SubSeq(s, m, Len(s))) = IF m <= Len(s) THEN Len(s) - m + 1 ELSE 0
      /\ \A i \in 1 .. Len(s) - m + 1 : SubSeq(s, m, Len(s))[i] = s[m + i - 1]
  BY <1>2, <1>3, SubSeqProperties
<1>5. Len(s) - m + 1 = Len(s) + 1 - m /\ (m > Len(s) => Len(s) + 1 - m = 0)
  BY <1>1
<1>6. (IF m <= Len(s) THEN Len(s) - m + 1 ELSE 0) = Len(s) + 1 - m
  BY <1>1
<1> QED
  BY <1>4, <1>5, <1>6 DEF Strings

(* The rest of a text is its first character and the rest of that.           *)
LEMMA SubSeqFirst ==
  ASSUME NEW s \in Strings, NEW k \in 0 .. Len(s) - 1
  PROVE  <<s[k + 1]>> \o SubSeq(s, k + 2, Len(s)) = SubSeq(s, k + 1, Len(s))
<1> DEFINE a == <<s[k + 1]>>
           b == SubSeq(s, k + 2, Len(s))
           d == SubSeq(s, k + 1, Len(s))
<1>1. /\ Len(s) \in Nat /\ k + 1 \in 1 .. Len(s) + 1 /\ k + 2 \in 1 .. Len(s) + 1
      /\ s \in Seq(1 .. 255)
  BY DEF Strings
<1>2. a \in Strings /\ Len(a) = 1 /\ a[1] = s[k + 1]
  <2>1. s[k + 1] \in 1 .. 255
    BY <1>1, ElementOfSeq
  <2> QED
    BY <2>1, OneChar
<1>3. /\ b \in Strings /\ Len(b) = Len(s) + 1 - (k + 2)
      /\ \A i \in 1 .. Len(s) + 1 - (k + 2) : b[i] = s[k + 2 + i - 1]
  BY <1>1, SubSeqIs
<1>4. /\ d \in Strings /\ Len(d) = Len(s) + 1 - (k + 1)
      /\ \A i \in 1 .. Len(s) + 1 - (k + 1) : d[i] = s[k + 1 + i - 1]
  BY <1>1, SubSeqIs
<1> HIDE DEF a, b, d
<1>5. /\ a \o b \in Strings /\ Len(a \o b) = Len(a) + Len(b)
      /\ \A i \in 1 .. Len(a) : (a \o b)[i] = a[i]
      /\ \A i \in 1 .. Len(b) : (a \o b)[Len(a) + i] = b[i]
  BY <1>2, <1>3, JoinedStrings
<1>6. ASSUME NEW i \in 1 .. Len(d) PROVE (a \o b)[i] = d[i]
  <2>1. CASE i = 1
    <3>1. (a \o b)[1] = a[1]
      BY <1>2, <1>5
    <3>2. d[1] = s[k + 1]
      BY <1>1, <1>4
    <3> QED
      BY <1>2, <2>1, <3>1, <3>2
  <2>2. CASE i # 1
    <3>1. i - 1 \in 1 .. Len(b) /\ 1 + (i - 1) = i /\ k + 2 + (i - 1) - 1 = k + 1 + i - 1
      BY <1>1, <1>3, <1>4, <2>2
    <3>2. (a \o b)[i] = b[i - 1]
      BY <1>2, <1>5, <3>1
    <3> QED
      BY <1>3, <1>4, <3>1, <3>2
  <2> QED
    BY <2>1, <2>2
<1>7. Len(a \o b) = Len(d)
  <2>1. Len(a \o b) = 1 + (Len(s) + 1 - (k + 2))
    BY <1>2, <1>3, <1>5
  <2>2. Len(d) = Len(s) + 1 - (k + 1)
    BY <1>4
  <2>3. 1 + (Len(s) + 1 - (k + 2)) = Len(s) + 1 - (k + 1)
    BY <1>1
  <2> QED
    BY <2>1, <2>2, <2>3
<1>8. a \o b = d
  BY <1>4, <1>5, <1>6, <1>7, SeqEqual DEF Strings
<1> QED
  BY <1>8 DEF a, b, d

(* A string that was printed is read back, with the place behind it.         *)
LEMMA StringRead ==
  ASSUME NEW s \in Strings, NEW text \in Strings, NEW at \in Nat \ {0},
         Starts(text, at, print_string_ptr(s).text)
  PROVE  parse_string(text, at)
           = Read(Item("string", s, 0, <<>>), at + Len(print_string_ptr(s).text))
<1> DEFINE N == Len(s)
           end == at + Len(print_string_ptr(s).text)
<1>1. PICK p : /\ IsQuoting(s, p) /\ p[N].text \in Strings
               /\ print_string_ptr(s).text = p[N].text \o <<Quote>>
               /\ print_string_ptr(s).text \in Strings
               /\ Len(print_string_ptr(s).text) = Len(p[N].text) + 1
  BY StringPrinted
<1>2. PICK r : IsReading(text, r) /\ Unescaped(text, at + 1) = r[Len(text) + 1][at + 1]
  BY ReadingExists DEF Strings
<1>3. /\ N \in Nat /\ Len(text) \in Nat /\ Len(p[N].text) \in Nat
      /\ <<Quote>> \in Strings /\ <<Quote>> # <<>>
  BY <1>1 DEF Strings, Quote
<1>4. Starts(text, at, p[N].text) /\ Starts(text, at + Len(p[N].text), <<Quote>>)
  <2>1. Starts(text, at, p[N].text \o <<Quote>>)
    BY <1>1
  <2> QED
    BY <1>1, <1>3, <2>1, StartsJoined
<1>5. /\ \A k \in 0 .. N : Starts(text, at, p[k].text)
      /\ \A k \in 0 .. N - 1 : Starts(text, at + Len(p[k].text), Escaped(s[k + 1]))
  BY <1>1, <1>4, QuotingStarts
<1>6. Char(text, at) = Quote /\ Len(p[0].text) = 1
  <2>1. p[0].text = <<Quote>>
    BY <1>1 DEF IsQuoting, Out
  <2>2. Starts(text, at, <<Quote>>)
    BY <1>3, <1>5, <2>1
  <2> QED
    BY <2>1, <2>2 DEF Starts
<1>7. Char(text, end - 1) = Quote
  BY <1>1, <1>3, <1>4 DEF Starts
<1> DEFINE Reads(j) == \A n \in j + 1 .. Len(text) + 1 :
             r[n][at + Len(p[N - j].text)] = [out |-> SubSeq(s, N - j + 1, N), at |-> end]
           T == {j \in 0 .. N : Reads(j)}
<1>8. 0 \in T
  <2>1. SubSeq(s, N - 0 + 1, N) = <<>> /\ N - 0 = N
    BY <1>3 DEF Strings
  <2>2. ASSUME NEW n \in 0 + 1 .. Len(text) + 1
        PROVE  r[n][at + Len(p[N].text)] = [out |-> <<>>, at |-> end]
    <3> DEFINE i == at + Len(p[N].text)
    <3>1. i \in Nat /\ n \in 1 .. Len(text) + 1 /\ i = end - 1 /\ i + 1 = end
      BY <1>1, <1>3
    <3>2. r[n][i] = UnescapeFrom(text, i, r[n - 1])
      BY <1>2, <3>1 DEF IsReading
    <3>3. Char(text, i) \in {Quote, 0} /\ Char(text, i) = Quote
      BY <1>7, <3>1
    <3>4. ~ (Char(text, i) = Backslash) /\ ~ (Char(text, i) \notin {Quote, 0, Backslash})
      BY <3>3 DEF Quote, Backslash
    <3>5. UnescapeFrom(text, i, r[n - 1]) = [out |-> <<>>, at |-> i + 1]
      <4> HIDE DEF i
      <4> QED
        BY <3>3, <3>4, Zenon DEF UnescapeFrom
    <3> QED
      BY <3>1, <3>2, <3>5
  <2> QED
    BY <1>3, <2>1, <2>2
<1>9. ASSUME NEW j \in 0 .. N - 1, j \in T PROVE j + 1 \in T
  <2> DEFINE k == N - (j + 1)
             i == at + Len(p[k].text)
             chr == s[k + 1]
  <2>1. k \in 0 .. N - 1 /\ k + 1 = N - j /\ j + 1 \in 0 .. N
    BY <1>3
  <2>2. Partial(p[k]) /\ Len(p[k].text) \in Nat
    BY <1>1, <1>3, <2>1, QuotingFits
  <2>3. p[k + 1] = PrintCharacter(p[k], chr) /\ chr \in 1 .. 255
    <3> HIDE DEF k, N
    <3>1. k \in 0 .. Len(s) - 1
      BY <2>1 DEF N
    <3>2. QuotesNext(s, p, k)
      BY ONLY <1>1, s \in Strings, <3>1, QuotingStep
    <3> QED
      BY <3>2 DEF QuotesNext
  <2>4. p[k + 1].text = p[k].text \o Escaped(chr)
    <3> HIDE DEF k, chr
    <3> QED
      BY ONLY <2>2, <2>3, CharacterPrinted DEF IsPrinted
  <2>5. Escaped(chr) \in Strings /\ p[k].text \in Strings
    BY <2>2, <2>3, EscapedIs DEF Partial
  <2>6. i + Len(Escaped(chr)) = at + Len(p[k + 1].text) /\ i \in Nat \ {0}
    <3> HIDE DEF chr, k
    <3>1. Len(p[k + 1].text) = Len(p[k].text) + Len(Escaped(chr)) /\ Len(Escaped(chr)) \in Nat
      BY <2>4, <2>5, StringsJoined
    <3> QED
      BY <2>2, <3>1
  <2>7. Starts(text, i, Escaped(chr))
    BY <1>5, <2>1
  <2>8. <<chr>> \o SubSeq(s, k + 2, N) = SubSeq(s, k + 1, N)
    <3> HIDE DEF k
    <3> QED
      BY <2>1, SubSeqFirst
  <2>9. ASSUME NEW n \in (j + 1) + 1 .. Len(text) + 1
        PROVE  r[n][i] = [out |-> SubSeq(s, N - (j + 1) + 1, N), at |-> end]
    <3>1. n \in 1 .. Len(text) + 1 /\ n - 1 \in j + 1 .. Len(text) + 1
      BY <1>3
    <3>2. r[n][i] = UnescapeFrom(text, i, r[n - 1])
      <4> HIDE DEF i
      <4> QED
        BY <1>2, <2>6, <3>1 DEF IsReading
    <3>3. UnescapeFrom(text, i, r[n - 1])
            = [out |-> <<chr>> \o r[n - 1][i + Len(Escaped(chr))].out,
               at |-> r[n - 1][i + Len(Escaped(chr))].at]
      <4> HIDE DEF i, chr
      <4>1. chr \in 1 .. 255 /\ i \in Nat \ {0} /\ text \in Strings
        BY <2>3, <2>6
      <4>2. UnescapesTo(text, i, r[n - 1], chr)
        BY ONLY <2>7, <4>1, EscapedRead
      <4> QED
        BY <4>2 DEF UnescapesTo
    <3>4. r[n - 1][at + Len(p[k + 1].text)] = [out |-> SubSeq(s, k + 2, N), at |-> end]
      <4>1. N - j + 1 = k + 2
        BY <1>3
      <4>2. Reads(j)
        BY <1>9
      <4> QED
        BY <2>1, <3>1, <4>1, <4>2
    <3>5. N - (j + 1) + 1 = k + 1
      BY <1>3
    <3> DEFINE there == r[n - 1][at + Len(p[k + 1].text)]
    <3>6. r[n][i] = [out |-> <<chr>> \o there.out, at |-> there.at]
      <4> HIDE DEF chr, i, k
      <4> QED
        BY <2>6, <3>2, <3>3
    <3>7. there.out = SubSeq(s, k + 2, N) /\ there.at = end
      BY <3>4
    <3> HIDE DEF chr, i, k, there
    <3> QED
      BY <2>8, <3>5, <3>6, <3>7
  <2> HIDE DEF i
  <2>10. Reads(j + 1)
    BY <2>9 DEF i
  <2> QED
    BY <2>1, <2>10
<1>10. N \in T
  <2>1. \A j \in 0 .. N - 1 : j \in T => j + 1 \in T
    BY <1>9
  <2> HIDE DEF T
  <2>2. \A j \in 0 .. N : j \in T
    BY <1>3, <1>8, <2>1, UpTo
  <2> QED
    BY <1>3, <2>2
<1>11. Len(text) + 1 \in N + 1 .. Len(text) + 1
  <2>1. Len(p[N].text) >= N + 1
    BY <1>1, <1>3, QuotingFits
  <2>2. at + Len(print_string_ptr(s).text) - 1 <= Len(text)
    <3>1. print_string_ptr(s).text \in Strings /\ print_string_ptr(s).text # <<>>
      <4>1. print_string_ptr(s).text \in Strings /\ Len(print_string_ptr(s).text) # 0
        BY <1>1, <1>3
      <4> QED
        BY <4>1
    <3> QED
      BY <3>1, StartsInside
  <2> QED
    BY <1>1, <1>3, <2>1, <2>2
<1>12. Unescaped(text, at + 1) = [out |-> s, at |-> end]
  <2>1. r[Len(text) + 1][at + Len(p[N - N].text)] = [out |-> SubSeq(s, N - N + 1, N), at |-> end]
    BY <1>10, <1>11
  <2>2. SubSeq(s, N - N + 1, N) = s /\ N - N = 0
    BY <1>3 DEF Strings
  <2> QED
    BY <1>2, <1>6, <2>1, <2>2
<1> QED
  BY <1>6, <1>12 DEF parse_string, Read

----------------------------------------------------------------------------
(* cJSON.c. A number is printed inside its room, and read back.              *)
(* PowersOf10, and that each is ten times the one before.                    *)
LEMMA PowersAre ==
  ASSUME NEW j \in 1 .. 10
  PROVE  /\ PowersOf10[j] \in Nat \ {0}
         /\ j # 10 => PowersOf10[j + 1] = 10 * PowersOf10[j]
         /\ PowersOf10[1] = 1
<1>1. j = 1 \/ j = 2 \/ j = 3 \/ j = 4 \/ j = 5 \/ j = 6 \/ j = 7 \/ j = 8 \/ j = 9 \/ j = 10
  OBVIOUS
<1> QED
  BY <1>1, SMT DEF PowersOf10

(* The last digit of a quotient completes the quotient by ten times as much. *)
LEMMA DigitBehind ==
  ASSUME NEW n \in Nat, NEW p \in Nat \ {0}, 10 * p \in Nat \ {0}
  PROVE  (n \div (10 * p)) * 10 + ((n \div p) % 10) = n \div p
OBVIOUS

(* The number of digits of a number, and the digits.                         *)
LEMMA DecimalIs ==
  ASSUME NEW n \in Nat, n < 10 * PowersOf10[10]
  PROVE  \E d \in 1 .. 10 :
           /\ d = 1 \/ PowersOf10[d] <= n
           /\ d = 10 \/ n < PowersOf10[d + 1]
           /\ Decimal(n) = [i \in 1 .. d |-> DigitZero + ((n \div PowersOf10[d + 1 - i]) % 10)]
<1> DEFINE P(d) == /\ d = 1 \/ PowersOf10[d] <= n
                   /\ d = 10 \/ n < PowersOf10[d + 1]
           len == CHOOSE d \in 1 .. 10 : P(d)
<1>1. \E d \in 1 .. 10 : P(d)
  <2> DEFINE S == {d \in 1 .. 10 : d = 10 \/ n < PowersOf10[d + 1]}
  <2>1. S \in SUBSET Nat /\ 10 \in S
    OBVIOUS
  <2>2. PICK d \in S : \A i \in S : d <= i
    <3> HIDE DEF S
    <3> QED
      BY <2>1, LeastOf
  <2>3. d = 1 \/ PowersOf10[d] <= n
    <3>1. CASE d # 1
      <4>1. d - 1 \in 1 .. 9 /\ d - 1 \notin S
        BY <2>2, <3>1
      <4>2. ~ (n < PowersOf10[d - 1 + 1])
        BY <4>1
      <4>3. d - 1 + 1 = d /\ PowersOf10[d] \in Nat
        BY PowersAre
      <4> QED
        BY <4>2, <4>3
    <3> QED
      BY <3>1
  <2> QED
    BY <2>2, <2>3
<1>2. len \in 1 .. 10 /\ P(len)
  <2> HIDE DEF P
  <2> QED
    BY <1>1
<1>3. Decimal(n) = [i \in 1 .. len |-> DigitZero + ((n \div PowersOf10[len + 1 - i]) % 10)]
  BY DEF Decimal
<1> HIDE DEF len
<1> QED
  BY <1>2, <1>3

(* They are digits, and a number but 0 starts with none that is 0.           *)
LEMMA DigitsAre ==
  ASSUME NEW n \in Nat, n < 10 * PowersOf10[10], NEW d \in 1 .. 10,
         d = 1 \/ PowersOf10[d] <= n, d = 10 \/ n < PowersOf10[d + 1],
         Decimal(n) = [i \in 1 .. d |-> DigitZero + ((n \div PowersOf10[d + 1 - i]) % 10)]
  PROVE  /\ Decimal(n) \in Strings /\ Len(Decimal(n)) = d
         /\ \A i \in 1 .. d : Decimal(n)[i] \in Digits
         /\ n = 0 => d = 1 /\ Decimal(n)[1] = DigitZero
         /\ n # 0 => Decimal(n)[1] # DigitZero
         /\ \A i \in 1 .. d : Decimal(n)[i] - DigitZero = (n \div PowersOf10[d + 1 - i]) % 10
         /\ n \div PowersOf10[d] \in 0 .. 9
<1>1. ASSUME NEW i \in 1 .. d
      PROVE  /\ Decimal(n)[i] = DigitZero + ((n \div PowersOf10[d + 1 - i]) % 10)
             /\ (n \div PowersOf10[d + 1 - i]) % 10 \in 0 .. 9
             /\ Decimal(n)[i] \in Digits
  <2> DEFINE p == PowersOf10[d + 1 - i]
  <2>1. p \in Nat \ {0}
    <3>1. d + 1 - i \in 1 .. 10
      OBVIOUS
    <3> QED
      BY <3>1, PowersAre
  <2>2. Decimal(n)[i] = DigitZero + ((n \div p) % 10)
    OBVIOUS
  <2> HIDE DEF p
  <2>3. (n \div p) % 10 \in 0 .. 9
    BY <2>1
  <2>4. DigitZero + ((n \div p) % 10) \in Digits
    BY <2>3, SMTT(30) DEF Digits, DigitZero
  <2> QED
    BY <2>2, <2>3, <2>4 DEF p
<1>2. Decimal(n) \in Strings /\ Len(Decimal(n)) = d
  <2>1. \A i \in 1 .. d : DigitZero + ((n \div PowersOf10[d + 1 - i]) % 10) \in 1 .. 255
    BY <1>1 DEF Digits, DigitZero
  <2> DEFINE f == [i \in 1 .. d |-> DigitZero + ((n \div PowersOf10[d + 1 - i]) % 10)]
  <2>2. d \in Nat /\ f \in [1 .. d -> 1 .. 255] /\ Decimal(n) = f
    BY <2>1
  <2> HIDE DEF f
  <2>3. f \in Seq(1 .. 255) /\ Len(f) = d
    BY ONLY <2>2
  <2> QED
    BY <2>2, <2>3 DEF Strings
<1>3. PowersOf10[d] \in Nat \ {0} /\ d + 1 - 1 = d
  <2>1. d + 1 - 1 = d
    OBVIOUS
  <2>2. PowersOf10[d] \in Nat \ {0}
    BY ONLY d \in 1 .. 10, PowersAre
  <2> QED
    BY <2>1, <2>2
<1>4. n = 0 => d = 1 /\ Decimal(n)[1] = DigitZero
  <2>1. ASSUME n = 0 PROVE d = 1
    BY <1>3, <2>1
  <2>2. ASSUME n = 0 PROVE Decimal(n)[1] = DigitZero
    <3>1. Decimal(n)[1] = DigitZero + ((n \div PowersOf10[d]) % 10)
      BY <1>1, <1>3
    <3> DEFINE p == PowersOf10[d]
    <3>2. p \in Nat \ {0}
      BY <1>3
    <3> HIDE DEF p
    <3>3. (0 \div p) % 10 = 0
      BY <3>2
    <3> QED
      BY <2>2, <3>1, <3>3 DEF p, DigitZero
  <2> QED
    BY <2>1, <2>2
<1>5. n \div PowersOf10[d] \in 0 .. 9
  <2> DEFINE p == PowersOf10[d]
  <2>1. n < 10 * p
    <3>1. CASE d = 10
      BY <3>1, PowersAre
    <3>2. CASE d # 10
      <4>1. PowersOf10[d + 1] = 10 * p
        BY <3>2, PowersAre
      <4> QED
        BY <3>2, <4>1
    <3> QED
      BY <3>1, <3>2
  <2>2. p \in Nat \ {0}
    BY <1>3
  <2> HIDE DEF p
  <2>3. n \div p \in 0 .. 9
    BY <2>1, <2>2
  <2> QED
    BY <2>3 DEF p
<1>6. n # 0 => Decimal(n)[1] # DigitZero
  <2>1. SUFFICES ASSUME n # 0 PROVE Decimal(n)[1] # DigitZero
    OBVIOUS
  <2> DEFINE p == PowersOf10[d]
  <2>2. Decimal(n)[1] = DigitZero + ((n \div p) % 10)
    BY <1>1, <1>3
  <2>3. p \in Nat \ {0} /\ p <= n /\ n \div p \in 0 .. 9
    <3>1. PowersOf10[1] = 1
      BY PowersAre
    <3>2. p <= n
      BY <2>1, <3>1
    <3> QED
      BY <1>3, <1>5, <3>2
  <2> HIDE DEF p
  <2>4. n \div p # 0
    BY <2>3
  <2>5. (n \div p) % 10 = n \div p
    BY <2>3, SMTT(30)
  <2> QED
    BY <2>2, <2>3, <2>4, <2>5 DEF DigitZero
<1>7. \A i \in 1 .. d : Decimal(n)[i] - DigitZero = (n \div PowersOf10[d + 1 - i]) % 10
  <2>1. ASSUME NEW i \in 1 .. d
        PROVE  Decimal(n)[i] - DigitZero = (n \div PowersOf10[d + 1 - i]) % 10
    <3> DEFINE q == (n \div PowersOf10[d + 1 - i]) % 10
    <3>1. Decimal(n)[i] = DigitZero + q /\ q \in 0 .. 9
      BY <1>1
    <3> HIDE DEF q
    <3>2. Decimal(n)[i] - DigitZero = q
      BY <3>1 DEF DigitZero
    <3> QED
      BY <3>2 DEF q
  <2> QED
    BY <2>1
<1> QED
  BY <1>1, <1>2, <1>4, <1>5, <1>6, <1>7

(* The loop of parse_number.                                                 *)
IsValue(text, from, d, v) ==
  /\ v[0] = 0
  /\ \A k \in 1 .. d : v[k] = v[k - 1] * 10 + (text[from + k - 1] - DigitZero)

(* The walk of Value has its sums, one for each digit.                       *)
LEMMA ValueExists ==
  ASSUME NEW text, NEW from \in Nat, NEW d \in Nat
  PROVE  \E v : IsValue(text, from, d, v) /\ Value(text, from, from + d) = v[d]
<1> DEFINE F(g, k) == IF k = 0 THEN 0 ELSE g[k - 1] * 10 + (text[from + k - 1] - DigitZero)
           T == {n \in 0 .. d : \E g : g = [k \in 0 .. n |-> F(g, k)]}
           v == CHOOSE g : g = [k \in 0 .. d |-> F(g, k)]
<1>1. 0 \in T
  <2> DEFINE g == [k \in 0 .. 0 |-> 0]
  <2>1. g = [k \in 0 .. 0 |-> F(g, k)]
    OBVIOUS
  <2> HIDE DEF g, F
  <2> QED
    BY <2>1
<1>2. ASSUME NEW n \in 0 .. d - 1, n \in T PROVE n + 1 \in T
  <2>1. PICK g : g = [k \in 0 .. n |-> F(g, k)]
    BY <1>2
  <2> DEFINE h == [k \in 0 .. n + 1 |-> F(g, k)]
  <2>2. ASSUME NEW k \in 0 .. n + 1 PROVE F(g, k) = F(h, k)
    <3>1. k # 0 => g[k - 1] = h[k - 1]
      <4> HIDE DEF F
      <4> QED
        BY <2>1
    <3> HIDE DEF h
    <3> QED
      BY <3>1
  <2>3. h = [k \in 0 .. n + 1 |-> F(h, k)]
    BY <2>2
  <2> HIDE DEF h, F
  <2> QED
    BY <2>3
<1>3. d \in T
  <2> HIDE DEF T
  <2>1. \A n \in 0 .. d - 1 : n \in T => n + 1 \in T
    BY <1>2
  <2>2. \A n \in 0 .. d : n \in T
    BY <1>1, <2>1, UpTo
  <2> QED
    BY <2>2
<1>4. v = [k \in 0 .. d |-> F(v, k)]
  <2> HIDE DEF F
  <2> QED
    BY <1>3
<1>5. Value(text, from, from + d) = v[d]
  <2>1. from + d - from = d
    OBVIOUS
  <2> QED
    BY <2>1 DEF Value
<1> HIDE DEF v
<1>6. v[0] = 0 /\ \A k \in 1 .. d : v[k] = F(v, k)
  BY <1>4
<1>7. ASSUME NEW k \in 1 .. d
      PROVE  v[k] = v[k - 1] * 10 + (text[from + k - 1] - DigitZero)
  BY <1>6
<1> HIDE DEF F
<1> QED
  BY <1>5, <1>6, <1>7 DEF IsValue

(* The digits of a number are read as its value.                             *)
LEMMA ValueIs ==
  ASSUME NEW n \in Nat, n < 10 * PowersOf10[10], NEW text \in Strings,
         NEW from \in Nat \ {0}, Starts(text, from, Decimal(n))
  PROVE  Value(text, from, from + Len(Decimal(n))) = n
<1>1. PICK d \in 1 .. 10 :
        /\ d = 1 \/ PowersOf10[d] <= n
        /\ d = 10 \/ n < PowersOf10[d + 1]
        /\ Decimal(n) = [i \in 1 .. d |-> DigitZero + ((n \div PowersOf10[d + 1 - i]) % 10)]
  BY DecimalIs
<1>2. /\ Decimal(n) \in Strings /\ Len(Decimal(n)) = d
      /\ \A i \in 1 .. d : Decimal(n)[i] - DigitZero = (n \div PowersOf10[d + 1 - i]) % 10
      /\ n \div PowersOf10[d] \in 0 .. 9
  BY <1>1, DigitsAre
<1>3. PICK v : IsValue(text, from, d, v) /\ Value(text, from, from + d) = v[d]
  <2>1. d \in Nat /\ from \in Nat
    OBVIOUS
  <2> QED
    BY ONLY <2>1, ValueExists
<1>4. ASSUME NEW k \in 1 .. d
      PROVE  text[from + k - 1] - DigitZero = (n \div PowersOf10[d + 1 - k]) % 10
  <2>1. Char(text, from + k - 1) = Decimal(n)[k] /\ k \in DOMAIN Decimal(n)
    <3>1. k \in DOMAIN Decimal(n)
      BY <1>2 DEF Strings
    <3> QED
      BY <3>1 DEF Starts
  <2>2. Decimal(n) # <<>> /\ from + d - 1 <= Len(text)
    <3>1. Decimal(n) # <<>>
      BY <1>2
    <3> QED
      BY <1>2, <3>1, StartsInside
  <2>3. from + k - 1 \in Nat \ {0} /\ from + k - 1 <= Len(text)
    BY <2>2 DEF Strings
  <2>4. Char(text, from + k - 1) = text[from + k - 1]
    BY <2>3 DEF Char
  <2> QED
    BY <1>2, <2>1, <2>4
<1> DEFINE T == {j \in 0 .. d - 1 : v[j + 1] = n \div PowersOf10[d - j]}
<1>5. 0 \in T
  <2> DEFINE p == PowersOf10[d]
             q == text[from]
  <2>1. v[1] = v[0] * 10 + (q - DigitZero)
    <3>1. 1 \in 1 .. d /\ 1 - 1 = 0 /\ from + 1 - 1 = from
      OBVIOUS
    <3> QED
      BY <1>3, <3>1 DEF IsValue
  <2>2. q - DigitZero = (n \div p) % 10
    <3>1. 1 \in 1 .. d /\ d + 1 - 1 = d /\ from + 1 - 1 = from
      OBVIOUS
    <3> QED
      BY <1>4, <3>1
  <2>3. n \div p \in 0 .. 9
    BY <1>2
  <2> HIDE DEF p, q
  <2>4. v[1] = n \div p
    BY <1>3, <2>1, <2>2, <2>3 DEF DigitZero, IsValue
  <2>5. 0 \in 0 .. d - 1 /\ 0 + 1 = 1 /\ d - 0 = d
    OBVIOUS
  <2> QED
    BY <2>4, <2>5 DEF p
<1>6. ASSUME NEW j \in 0 .. d - 1 - 1, j \in T PROVE j + 1 \in T
  <2> DEFINE p == PowersOf10[d - (j + 1)]
             q == text[from + (j + 2) - 1]
  <2>1. /\ j + 2 \in 1 .. d /\ j + 2 - 1 = j + 1 /\ d + 1 - (j + 2) = d - (j + 1)
        /\ d - (j + 1) \in 1 .. 10 /\ d - (j + 1) # 10 /\ d - (j + 1) + 1 = d - j
        /\ j + 1 \in 0 .. d - 1 /\ j + 1 + 1 = j + 2
    OBVIOUS
  <2>2. v[j + 2] = v[j + 1] * 10 + (q - DigitZero)
    BY <1>3, <2>1 DEF IsValue
  <2>3. q - DigitZero = (n \div p) % 10
    BY <1>4, <2>1
  <2>4. v[j + 1] = n \div PowersOf10[d - j]
    BY <1>6
  <2>5. PowersOf10[d - j] = 10 * p /\ p \in Nat \ {0}
    <3> DEFINE m == d - (j + 1)
    <3>1. m \in 1 .. 10 /\ m # 10 /\ m + 1 = d - j
      BY <2>1
    <3> HIDE DEF m
    <3>2. PowersOf10[m + 1] = 10 * PowersOf10[m] /\ PowersOf10[m] \in Nat \ {0}
      BY ONLY <3>1, PowersAre
    <3> QED
      BY <3>1, <3>2 DEF m
  <2> HIDE DEF p, q
  <2>6. (n \div (10 * p)) * 10 + ((n \div p) % 10) = n \div p
    <3>1. 10 * p \in Nat \ {0}
      BY <2>5
    <3> QED
      BY <2>5, <3>1, DigitBehind
  <2>7. v[j + 2] = n \div p
    BY <2>2, <2>3, <2>4, <2>5, <2>6
  <2> QED
    BY <2>1, <2>7 DEF p
<1>7. v[d] = n
  <2>1. \A j \in 0 .. d - 1 : j \in T
    <3>1. \A j \in 0 .. d - 1 - 1 : j \in T => j + 1 \in T
      BY <1>6
    <3>2. d - 1 \in Nat
      OBVIOUS
    <3> HIDE DEF T
    <3> QED
      BY <1>5, <3>1, <3>2, UpTo
  <2>2. d - 1 \in T /\ d - 1 + 1 = d /\ d - (d - 1) = 1
    BY <2>1
  <2>3. v[d] = n \div PowersOf10[1]
    BY <2>2
  <2>4. PowersOf10[1] = 1
    BY PowersAre
  <2> QED
    BY <2>3, <2>4
<1> QED
  BY <1>2, <1>3, <1>7

(* The numbers of items have at most ten digits.                             *)
LEMMA IntsAre ==
  ASSUME NEW n \in Ints
  PROVE  /\ n \in Int
         /\ n < 0 => -n \in Nat \ {0} /\ -n < 10 * PowersOf10[10] /\ -(-n) = n
         /\ ~ (n < 0) => n \in Nat /\ n < 10 * PowersOf10[10]
<1>1. PowersOf10[10] = 1000000000
  BY SMT DEF PowersOf10
<1>2. 10 * PowersOf10[10] = 10000000000
  BY <1>1, SMT
<1>3. n \in Int /\ n >= -2147483648 /\ n <= 2147483647
  <2>2. n \in Int /\ -2147483647 - 1 <= n /\ n <= 2147483647
    BY SMT DEF Ints
  <2> QED
    BY ONLY <2>2, SMT
<1>4. n < 0 => -n \in Nat \ {0} /\ -n < 10000000000 /\ -(-n) = n
  BY ONLY <1>3, SMT
<1>5. ~ (n < 0) => n \in Nat /\ n < 10000000000
  BY ONLY <1>3, SMT
<1> QED
  BY ONLY <1>2, <1>3, <1>4, <1>5, SMT

(* A printed number is one to ten digits, and starts with 0 only when it is  *)
(* 0.                                                                        *)
LEMMA DecimalText ==
  ASSUME NEW n \in Nat, n < 10 * PowersOf10[10]
  PROVE  /\ Decimal(n) \in Strings /\ Len(Decimal(n)) \in 1 .. 10
         /\ \A i \in 1 .. Len(Decimal(n)) : Decimal(n)[i] \in Digits
         /\ n = 0 => Len(Decimal(n)) = 1 /\ Decimal(n)[1] = DigitZero
         /\ n # 0 => Decimal(n)[1] # DigitZero
<1>1. PICK d \in 1 .. 10 :
        /\ d = 1 \/ PowersOf10[d] <= n
        /\ d = 10 \/ n < PowersOf10[d + 1]
        /\ Decimal(n) = [i \in 1 .. d |-> DigitZero + ((n \div PowersOf10[d + 1 - i]) % 10)]
  BY DecimalIs
<1>2. /\ Decimal(n) \in Strings /\ Len(Decimal(n)) = d
      /\ \A i \in 1 .. d : Decimal(n)[i] \in Digits
      /\ n = 0 => d = 1 /\ Decimal(n)[1] = DigitZero
      /\ n # 0 => Decimal(n)[1] # DigitZero
  BY <1>1, DigitsAre
<1> QED
  BY <1>2

(* What print_number makes fits, and starts with a minus or a digit.         *)
LEMMA NumberPrinted ==
  ASSUME NEW n \in Ints
  PROVE  /\ print_number(n).text = (IF n < 0 THEN <<Minus>> \o Decimal(-n) ELSE Decimal(n))
         /\ print_number(n).text \in Strings /\ Len(print_number(n).text) >= 1
         /\ print_number(n).text[1] \in Digits \cup {Minus}
         /\ print_number(n).fits = TRUE
<1>1. CASE n < 0
  <2>1. Decimal(-n) \in Strings /\ Len(Decimal(-n)) \in 1 .. 10
    BY <1>1, IntsAre, DecimalText
  <2>2. <<Minus>> \in Strings /\ Len(<<Minus>>) = 1 /\ <<Minus>>[1] = Minus
    BY DEF Strings, Minus
  <2>3. print_number(n) = End(Out(<<Minus>>, 21), Decimal(-n))
    BY <1>1, Zenon DEF print_number
  <2>4. /\ <<Minus>> \o Decimal(-n) \in Strings
        /\ Len(<<Minus>> \o Decimal(-n)) = 1 + Len(Decimal(-n))
        /\ (<<Minus>> \o Decimal(-n))[1] = Minus
    BY <2>1, <2>2, JoinedStrings
  <2> DEFINE t == <<Minus>> \o Decimal(-n)
             l == Len(Decimal(-n))
  <2>10. End(Out(<<Minus>>, 21), Decimal(-n))
           = [text |-> t, room |-> 21, fits |-> TRUE /\ Len(t) < 21]
    BY DEF End, Out
  <2>5. /\ print_number(n).text = t
        /\ print_number(n).fits = (TRUE /\ Len(t) < 21)
    <3> HIDE DEF t
    <3> QED
      BY <2>3, <2>10
  <2>6. Len(t) < 21 /\ Len(t) >= 1
    <3>1. Len(t) = 1 + l /\ l \in 1 .. 10
      BY <2>1, <2>4
    <3> HIDE DEF t, l
    <3> QED
      BY <3>1
  <2>7. print_number(n).fits = TRUE
    BY <2>5, <2>6
  <2>8. print_number(n).text[1] \in Digits \cup {Minus}
    BY <2>4, <2>5, Zenon
  <2>9. print_number(n).text \in Strings /\ Len(print_number(n).text) >= 1
    BY <2>4, <2>5, <2>6, Zenon
  <2> QED
    BY <1>1, <2>5, <2>7, <2>8, <2>9, Zenon
<1>2. CASE ~ (n < 0)
  <2>1. /\ Decimal(n) \in Strings /\ Len(Decimal(n)) \in 1 .. 10
        /\ \A i \in 1 .. Len(Decimal(n)) : Decimal(n)[i] \in Digits
    BY <1>2, IntsAre, DecimalText
  <2>2. print_number(n) = End(Out(<<>>, 21), Decimal(n))
    BY <1>2, Zenon DEF print_number
  <2>3. <<>> \o Decimal(n) = Decimal(n)
    BY <2>1, JoinedNothing
  <2> DEFINE t == Decimal(n)
  <2>9. End(Out(<<>>, 21), t) = [text |-> t, room |-> 21, fits |-> TRUE /\ Len(t) < 21]
    <3> HIDE DEF t
    <3> QED
      BY <2>3 DEF End, Out, t
  <2>4. print_number(n).text = t /\ print_number(n).fits = (TRUE /\ Len(t) < 21)
    <3> HIDE DEF t
    <3> QED
      BY <2>2, <2>9 DEF t
  <2>5. Len(t) < 21 /\ Len(t) >= 1 /\ t[1] \in Digits
    <3> HIDE DEF t
    <3>1. Len(t) \in 1 .. 10 /\ \A i \in 1 .. Len(t) : t[i] \in Digits
      BY <2>1 DEF t
    <3> QED
      BY <3>1
  <2>6. print_number(n).fits = TRUE
    BY <2>4, <2>5
  <2>7. print_number(n).text[1] \in Digits \cup {Minus}
    BY <2>4, <2>5, Zenon
  <2>8. print_number(n).text \in Strings /\ Len(print_number(n).text) >= 1
    BY <2>1, <2>4, <2>5, Zenon
  <2> QED
    BY <1>2, <2>4, <2>6, <2>7, <2>8, Zenon
<1> QED
  BY <1>1, <1>2

(* The digits from a place on, up to a character that is none.               *)
LEMMA DigitsRead ==
  ASSUME NEW n \in Nat, n < 10 * PowersOf10[10], NEW text \in Strings,
         NEW first \in Nat \ {0}, Starts(text, first, Decimal(n)),
         NEW rest, rest = (IF Char(text, first) = DigitZero THEN first + 1 ELSE first),
         NEW end, end = (IF Char(text, rest) \in Digits \ {DigitZero}
                         THEN PassOver(text, rest, Digits) ELSE rest),
         Char(text, first + Len(Decimal(n))) \notin Digits
  PROVE  end = first + Len(Decimal(n)) /\ Value(text, rest, end) = n
         /\ Char(text, first) \in Digits
<1> DEFINE d == Len(Decimal(n))
<1>1. /\ Decimal(n) \in Strings /\ d \in 1 .. 10
      /\ \A i \in 1 .. d : Decimal(n)[i] \in Digits
      /\ n = 0 => d = 1 /\ Decimal(n)[1] = DigitZero
      /\ n # 0 => Decimal(n)[1] # DigitZero
  BY DecimalText
<1>2. ASSUME NEW i \in 1 .. d PROVE Char(text, first + i - 1) = Decimal(n)[i]
  BY <1>1, SMTT(30) DEF Starts, Strings
<1>3. Char(text, first) = Decimal(n)[1] /\ Char(text, first) \in Digits
  <2>1. 1 \in 1 .. d /\ first + 1 - 1 = first
    BY <1>1
  <2> QED
    BY <1>1, <1>2, <2>1
<1>4. CASE n = 0
  <2>1. rest = first + 1 /\ d = 1
    BY <1>1, <1>3, <1>4
  <2>2. end = rest
    BY <2>1
  <2>3. Value(text, rest, rest + 0) = 0
    <3>1. PICK v : IsValue(text, rest, 0, v) /\ Value(text, rest, rest + 0) = v[0]
      <4>1. rest \in Nat /\ 0 \in Nat
        BY <2>1
      <4> QED
        BY ONLY <4>1, ValueExists
    <3> QED
      BY <3>1 DEF IsValue
  <2>4. rest + 0 = rest
    BY <2>1
  <2> QED
    BY <1>3, <1>4, <2>1, <2>2, <2>3, <2>4
<1>5. CASE n # 0
  <2>1. rest = first
    BY <1>1, <1>3, <1>5
  <2>2. PassOver(text, first, Digits) = first + d
    <3> DEFINE q == first + d
    <3>1. \A j \in first .. q - 1 : Char(text, j) \in Digits
      <4>1. ASSUME NEW j \in first .. q - 1 PROVE Char(text, j) \in Digits
        <5>1. j - first + 1 \in 1 .. d /\ first + (j - first + 1) - 1 = j
          BY <1>1
        <5>2. Char(text, first + (j - first + 1) - 1) \in Digits
          BY <1>1, <1>2, <5>1
        <5> QED
          BY <5>1, <5>2
      <4> QED
        BY <4>1
    <3>2. q \in first .. Len(text) + 1
      <4>1. Decimal(n) # <<>>
        BY <1>1
      <4>2. first + d - 1 <= Len(text) /\ Len(text) \in Nat
        BY <1>1, <4>1, StartsInside DEF Strings
      <4> QED
        BY <1>1, <4>2
    <3>3. Char(text, q) \notin Digits
      OBVIOUS
    <3> HIDE DEF q
    <3>4. PassOver(text, first, Digits) = q
      BY <3>1, <3>2, <3>3, PassOverIs
    <3> QED
      BY <3>4 DEF q
  <2>3. end = first + d
    BY <1>1, <1>3, <1>5, <2>1, <2>2
  <2>4. Value(text, first, first + d) = n
    BY ValueIs
  <2> QED
    BY <1>3, <2>1, <2>3, <2>4
<1> QED
  BY <1>4, <1>5

----------------------------------------------------------------------------
(* cJSON.c. Which characters a value starts with.                            *)
(* parse_number reads what print_number made.                                *)
LEMMA NumberRead ==
  ASSUME NEW n \in Ints, NEW text \in Strings, NEW at \in Nat \ {0},
         Starts(text, at, print_number(n).text),
         Char(text, at + Len(print_number(n).text)) \notin Digits
  PROVE  /\ parse_number(text, at)
              = Read(Item("number", <<>>, n, <<>>), at + Len(print_number(n).text))
         /\ Char(text, at) \in Digits \cup {Minus}
<1> DEFINE signed == Char(text, at) = Minus
           first == IF signed THEN at + 1 ELSE at
           rest == IF Char(text, first) = DigitZero THEN first + 1 ELSE first
           end == IF Char(text, rest) \in Digits \ {DigitZero}
                  THEN PassOver(text, rest, Digits) ELSE rest
           value == Value(text, rest, end)
           p == print_number(n).text
<1>1. parse_number(text, at)
        = Read(Item("number", <<>>, IF signed THEN -value ELSE value, <<>>), end)
  BY DEF parse_number
<1>2. p = (IF n < 0 THEN <<Minus>> \o Decimal(-n) ELSE Decimal(n))
  BY NumberPrinted
<1>3. CASE n < 0
  <2>1. /\ -n \in Nat \ {0} /\ -n < 10 * PowersOf10[10] /\ -(-n) = n
    BY <1>3, IntsAre
  <2>2. Decimal(-n) \in Strings /\ Len(Decimal(-n)) \in 1 .. 10
    BY <2>1, DecimalText
  <2>3. <<Minus>> \in Strings /\ Len(<<Minus>>) = 1
    BY DEF Strings, Minus
  <2>4. p = <<Minus>> \o Decimal(-n)
    BY <1>2, <1>3
  <2>5. Len(p) = 1 + Len(Decimal(-n)) /\ Starts(text, at, <<Minus>>)
        /\ Starts(text, at + 1, Decimal(-n))
    <3>1. Starts(text, at, <<Minus>> \o Decimal(-n))
      BY <2>4
    <3>2. Len(<<Minus>> \o Decimal(-n)) = 1 + Len(Decimal(-n))
      BY <2>2, <2>3, StringsJoined
    <3>3. Starts(text, at, <<Minus>>) /\ Starts(text, at + Len(<<Minus>>), Decimal(-n))
      BY <2>2, <2>3, <3>1, StartsJoined
    <3> QED
      BY <2>3, <2>4, <3>2, <3>3
  <2>6. Char(text, at) = Minus
    BY <2>5 DEF Starts
  <2>7. first = at + 1
    BY <2>6
  <2>8. at + Len(p) = at + 1 + Len(Decimal(-n)) /\ at + 1 \in Nat \ {0}
    <3> DEFINE l == Len(Decimal(-n))
    <3>1. l \in 1 .. 10 /\ Len(p) = 1 + l
      BY <2>2, <2>5
    <3> HIDE DEF l, p
    <3>2. at + Len(p) = at + 1 + l
      BY <3>1
    <3> QED
      BY <3>2 DEF l
  <2>9. end = at + 1 + Len(Decimal(-n)) /\ value = -n
    <3> DEFINE m == -n
               f == at + 1
               l == Len(Decimal(m))
    <3>1. m \in Nat /\ m < 10 * PowersOf10[10] /\ f \in Nat \ {0} /\ Starts(text, f, Decimal(m))
      BY <2>1, <2>5
    <3>2. rest = (IF Char(text, f) = DigitZero THEN f + 1 ELSE f)
      BY <2>7
    <3>3. Char(text, f + l) \notin Digits
      BY <2>8
    <3>4. end = (IF Char(text, rest) \in Digits \ {DigitZero}
                 THEN PassOver(text, rest, Digits) ELSE rest)
      OBVIOUS
    <3> HIDE DEF m, f, rest, end
    <3>5. end = f + l /\ Value(text, rest, end) = m
      BY <3>1, <3>2, <3>3, <3>4, DigitsRead
    <3> QED
      BY <3>5 DEF m, f
  <2>10. (IF signed THEN -value ELSE value) = n
    <3> HIDE DEF value
    <3> QED
      BY <2>1, <2>6, <2>9
  <2> HIDE DEF signed, value, end
  <2> QED
    BY <1>1, <2>6, <2>8, <2>9, <2>10
<1>4. CASE ~ (n < 0)
  <2>1. n \in Nat /\ n < 10 * PowersOf10[10] /\ p = Decimal(n)
    BY <1>2, <1>4, IntsAre
  <2>2. /\ Decimal(n) \in Strings /\ Len(Decimal(n)) \in 1 .. 10
        /\ \A i \in 1 .. Len(Decimal(n)) : Decimal(n)[i] \in Digits
    BY <2>1, DecimalText
  <2>3. Char(text, at) \in Digits
    <3>1. Char(text, at + 1 - 1) = Decimal(n)[1] /\ Decimal(n)[1] \in Digits
      BY <2>1, <2>2 DEF Starts, Strings
    <3> QED
      BY <3>1
  <2>4. ~ signed /\ first = at
    BY <2>3 DEF Digits, DigitZero, Minus
  <2>5. end = at + Len(Decimal(n)) /\ value = n
    <3>1. rest = (IF Char(text, at) = DigitZero THEN at + 1 ELSE at)
      BY <2>4
    <3>2. Char(text, at + Len(Decimal(n))) \notin Digits /\ Starts(text, at, Decimal(n))
      BY <2>1
    <3>3. end = (IF Char(text, rest) \in Digits \ {DigitZero}
                 THEN PassOver(text, rest, Digits) ELSE rest)
      OBVIOUS
    <3> HIDE DEF rest, end
    <3> QED
      BY <2>1, <3>1, <3>2, <3>3, DigitsRead
  <2> HIDE DEF signed, value, end
  <2> QED
    BY <1>1, <2>1, <2>3, <2>4, <2>5
<1> QED
  BY <1>3, <1>4

(* What starts differently is not the word.                                  *)
LEMMA NoWord ==
  ASSUME NEW text, NEW at \in Nat
  PROVE  /\ Char(text, at) # 110 => ~ Starts(text, at, Null)
         /\ Char(text, at) # 102 => ~ Starts(text, at, False)
         /\ Char(text, at) # 116 => ~ Starts(text, at, True)
<1>1. ASSUME NEW word, DOMAIN word = 1 .. Len(word), Len(word) \in Nat \ {0},
             Starts(text, at, word)
      PROVE  Char(text, at) = word[1]
  <2>1. 1 \in DOMAIN word /\ at + 1 - 1 = at
    BY <1>1
  <2>2. Char(text, at + 1 - 1) = word[1]
    BY <1>1, <2>1 DEF Starts
  <2> QED
    BY <2>1, <2>2
<1>2. ASSUME Starts(text, at, Null) PROVE Char(text, at) = 110
  <2>1. DOMAIN Null = 1 .. 4 /\ Len(Null) = 4 /\ Null[1] = 110
    BY DEF Null
  <2> QED
    BY <1>1, <1>2, <2>1
<1>3. ASSUME Starts(text, at, False) PROVE Char(text, at) = 102
  <2>1. DOMAIN False = 1 .. 5 /\ Len(False) = 5 /\ False[1] = 102
    BY DEF False
  <2> QED
    BY <1>1, <1>3, <2>1
<1>4. ASSUME Starts(text, at, True) PROVE Char(text, at) = 116
  <2>1. DOMAIN True = 1 .. 4 /\ Len(True) = 4 /\ True[1] = 116
    BY DEF True
  <2> QED
    BY <1>1, <1>4, <2>1
<1> QED
  BY <1>2, <1>3, <1>4

(* Which function reads a value.                                             *)
LEMMA ValueKinds ==
  ASSUME NEW text, NEW at \in Nat, NEW deeper
  PROVE  /\ Starts(text, at, Null) /\ Char(text, at) = 110 =>
              parse_value(text, at, deeper) = Read(Item("null", <<>>, 0, <<>>), at + 4)
         /\ Starts(text, at, False) /\ Char(text, at) = 102 =>
              parse_value(text, at, deeper) = Read(Item("false", <<>>, 0, <<>>), at + 5)
         /\ Starts(text, at, True) /\ Char(text, at) = 116 =>
              parse_value(text, at, deeper) = Read(Item("true", <<>>, 1, <<>>), at + 4)
         /\ Char(text, at) = Quote => parse_value(text, at, deeper) = parse_string(text, at)
         /\ Char(text, at) \in Digits \cup {Minus} =>
              parse_value(text, at, deeper) = parse_number(text, at)
         /\ Char(text, at) = OpenBracket =>
              parse_value(text, at, deeper) = Container(text, at, "array", deeper)
         /\ Char(text, at) = OpenBrace =>
              parse_value(text, at, deeper) = Container(text, at, "object", deeper)
<1> DEFINE chr == Char(text, at)
           number == chr = Minus \/ chr \in Digits
<1>1. /\ chr # 110 => ~ Starts(text, at, Null)
      /\ chr # 102 => ~ Starts(text, at, False)
      /\ chr # 116 => ~ Starts(text, at, True)
  BY NoWord
<1>2. /\ chr = 110 => ~ number /\ chr # 102 /\ chr # 116 /\ chr # Quote /\ chr # OpenBracket /\ chr # OpenBrace
      /\ chr = 102 => ~ number /\ chr # 110 /\ chr # 116 /\ chr # Quote /\ chr # OpenBracket /\ chr # OpenBrace
      /\ chr = 116 => ~ number /\ chr # 110 /\ chr # 102 /\ chr # Quote /\ chr # OpenBracket /\ chr # OpenBrace
      /\ chr = Quote => ~ number /\ chr # 110 /\ chr # 102 /\ chr # 116 /\ chr # OpenBracket /\ chr # OpenBrace
      /\ chr = OpenBracket => ~ number /\ chr # 110 /\ chr # 102 /\ chr # 116 /\ chr # Quote /\ chr # OpenBrace
      /\ chr = OpenBrace => ~ number /\ chr # 110 /\ chr # 102 /\ chr # 116 /\ chr # Quote /\ chr # OpenBracket
      /\ number => chr # 110 /\ chr # 102 /\ chr # 116 /\ chr # Quote /\ chr # OpenBracket /\ chr # OpenBrace
      /\ chr \in Digits \cup {Minus} => number
  BY DEF Quote, OpenBracket, OpenBrace, Minus, Digits, DigitZero
<1>3. ASSUME Starts(text, at, Null), chr = 110
      PROVE  parse_value(text, at, deeper) = Read(Item("null", <<>>, 0, <<>>), at + 4)
  BY <1>1, <1>2, <1>3, Zenon DEF parse_value
<1>4. ASSUME Starts(text, at, False), chr = 102
      PROVE  parse_value(text, at, deeper) = Read(Item("false", <<>>, 0, <<>>), at + 5)
  BY <1>1, <1>2, <1>4, Zenon DEF parse_value
<1>5. ASSUME Starts(text, at, True), chr = 116
      PROVE  parse_value(text, at, deeper) = Read(Item("true", <<>>, 1, <<>>), at + 4)
  BY <1>1, <1>2, <1>5, Zenon DEF parse_value
<1>6. ASSUME chr = Quote PROVE parse_value(text, at, deeper) = parse_string(text, at)
  BY <1>1, <1>2, <1>6, Zenon DEF parse_value
<1>7. ASSUME number PROVE parse_value(text, at, deeper) = parse_number(text, at)
  BY <1>1, <1>2, <1>7, Zenon DEF parse_value
<1>8. ASSUME chr = OpenBracket
      PROVE  parse_value(text, at, deeper) = Container(text, at, "array", deeper)
  BY <1>1, <1>2, <1>8, Zenon DEF parse_value
<1>9. ASSUME chr = OpenBrace
      PROVE  parse_value(text, at, deeper) = Container(text, at, "object", deeper)
  BY <1>1, <1>2, <1>9, Zenon DEF parse_value
<1> QED
  BY <1>2, <1>3, <1>4, <1>5, <1>6, <1>7, <1>8, <1>9, Zenon

----------------------------------------------------------------------------
(* cJSON.c. What the functions of how deep they may go are, level by level.  *)
(* The loop of parse_array and parse_object.                                 *)
IsList(text, type, deeper, r) ==
  \A n \in 1 .. Len(text) + 1, i \in 1 .. Len(text) + 1 :
    r[n][i] = ChildrenFrom(text, i, type, deeper, r[n - 1])

(* The reading of children has its rows, one for each number of them.        *)
LEMMA ListExists ==
  ASSUME NEW text, Len(text) \in Nat, NEW type, NEW deeper
  PROVE  \E r : /\ IsList(text, type, deeper, r)
                /\ \A at : Children(text, at, type, deeper) = r[Len(text) + 1][at]
<1> DEFINE N == Len(text) + 1
<1> DEFINE F(g, n) == [i \in 1 .. N |-> IF n = 0 THEN {} ELSE ChildrenFrom(text, i, type, deeper, g[n - 1])]
           T == {m \in 0 .. N : \E g : g = [n \in 0 .. m |-> F(g, n)]}
           r == CHOOSE g : g = [n \in 0 .. N |-> F(g, n)]
<1>1. 0 \in T
  <2> DEFINE g == [n \in 0 .. 0 |-> [i \in 1 .. N |-> {}]]
  <2>1. g = [n \in 0 .. 0 |-> F(g, n)]
    OBVIOUS
  <2> HIDE DEF g, F
  <2> QED
    BY <2>1
<1>2. ASSUME NEW m \in 0 .. N - 1, m \in T PROVE m + 1 \in T
  <2>1. PICK g : g = [n \in 0 .. m |-> F(g, n)]
    BY <1>2
  <2> DEFINE h == [n \in 0 .. m + 1 |-> F(g, n)]
  <2>2. ASSUME NEW n \in 0 .. m + 1 PROVE F(g, n) = F(h, n)
    <3>1. n # 0 => g[n - 1] = h[n - 1]
      <4> HIDE DEF F
      <4> QED
        BY <2>1
    <3> HIDE DEF h
    <3> QED
      BY <3>1
  <2>3. h = [n \in 0 .. m + 1 |-> F(h, n)]
    BY <2>2
  <2> HIDE DEF h, F
  <2> QED
    BY <2>3
<1>3. N \in T
  <2>0. N \in Nat
    OBVIOUS
  <2>1. \A m \in 0 .. N - 1 : m \in T => m + 1 \in T
    BY <1>2
  <2> HIDE DEF T
  <2>2. \A m \in 0 .. N : m \in T
    BY <1>1, <2>0, <2>1, UpTo
  <2> QED
    BY <2>2
<1>4. r = [n \in 0 .. N |-> F(r, n)]
  <2> HIDE DEF F
  <2> QED
    BY <1>3
<1>5. ASSUME NEW at PROVE Children(text, at, type, deeper) = r[N][at]
  BY DEF Children
<1> HIDE DEF r
<1>6. IsList(text, type, deeper, r)
  <2>1. \A n \in 1 .. N : r[n] = F(r, n)
    <3> HIDE DEF F
    <3> QED
      BY <1>4
  <2>2. ASSUME NEW n \in 1 .. N, NEW i \in 1 .. N
        PROVE  r[n][i] = ChildrenFrom(text, i, type, deeper, r[n - 1])
    <3>1. r[n] = F(r, n)
      <4> HIDE DEF F
      <4> QED
        BY <2>1
    <3>2. n # 0 /\ F(r, n)[i] = ChildrenFrom(text, i, type, deeper, r[n - 1])
      OBVIOUS
    <3> QED
      BY <3>1, <3>2
  <2> QED
    BY <2>2 DEF IsList
<1> QED
  BY <1>5, <1>6

(* A level of values is read with the one below it.                          *)
LEMMA ValuesAre ==
  ASSUME NEW text, Len(text) \in Nat, NEW level \in 1 .. Len(text) + 1,
         NEW at \in 1 .. Len(text) + 1
  PROVE  Values(text)[level][at] = parse_value(text, at, Values(text)[level - 1])
<1> DEFINE N == Len(text) + 1
<1> DEFINE F(g, n) == [i \in 1 .. N |-> IF n = 0 THEN {} ELSE parse_value(text, i, g[n - 1])]
           T == {m \in 0 .. N : \E g : g = [n \in 0 .. m |-> F(g, n)]}
           r == CHOOSE g : g = [n \in 0 .. N |-> F(g, n)]
<1>1. 0 \in T
  <2> DEFINE g == [n \in 0 .. 0 |-> [i \in 1 .. N |-> {}]]
  <2>1. g = [n \in 0 .. 0 |-> F(g, n)]
    OBVIOUS
  <2> HIDE DEF g, F
  <2> QED
    BY <2>1
<1>2. ASSUME NEW m \in 0 .. N - 1, m \in T PROVE m + 1 \in T
  <2>1. PICK g : g = [n \in 0 .. m |-> F(g, n)]
    BY <1>2
  <2> DEFINE h == [n \in 0 .. m + 1 |-> F(g, n)]
  <2>2. ASSUME NEW n \in 0 .. m + 1 PROVE F(g, n) = F(h, n)
    <3>1. n # 0 => g[n - 1] = h[n - 1]
      <4> HIDE DEF F
      <4> QED
        BY <2>1
    <3> HIDE DEF h
    <3> QED
      BY <3>1
  <2>3. h = [n \in 0 .. m + 1 |-> F(h, n)]
    BY <2>2
  <2> HIDE DEF h, F
  <2> QED
    BY <2>3
<1>3. N \in T
  <2>0. N \in Nat
    OBVIOUS
  <2>1. \A m \in 0 .. N - 1 : m \in T => m + 1 \in T
    BY <1>2
  <2> HIDE DEF T
  <2>2. \A m \in 0 .. N : m \in T
    BY <1>1, <2>0, <2>1, UpTo
  <2> QED
    BY <2>2
<1>4. r = [n \in 0 .. N |-> F(r, n)]
  <2> HIDE DEF F
  <2> QED
    BY <1>3
<1>5. Values(text) = r
  BY DEF Values
<1> HIDE DEF r
<1>6. r[level] = F(r, level)
  <2> HIDE DEF F
  <2> QED
    BY <1>4
<1>7. F(r, level)[at] = parse_value(text, at, r[level - 1])
  OBVIOUS
<1> QED
  BY <1>5, <1>6, <1>7

(* The items with at most n levels, from those with less.                    *)
ItemsOf(children) ==
  {i \in [type : Types, string : Strings, valuestring : Strings, valueint : Ints,
          child : children] :
     /\ i.type # "string" => i.valuestring = <<>>
     /\ i.type # "number" => i.valueint = IF i.type = "true" THEN 1 ELSE 0
     /\ i.type \notin {"array", "object"} => i.child = <<>>
     /\ i.type = "array" => \A k \in DOMAIN i.child : i.child[k].string = <<>>}

(* The items of one level are those whose children are of the level below.   *)
LEMMA ItemsAre ==
  ASSUME NEW n \in 0 .. Nesting
  PROVE  ItemsTo[n] = ItemsOf(IF n = 0 THEN {<<>>} ELSE Seq(ItemsTo[n - 1]))
<1> USE NestingAssumption
<1> DEFINE F(g, k) == ItemsOf(IF k = 0 THEN {<<>>} ELSE Seq(g[k - 1]))
           T == {m \in 0 .. Nesting : \E g : g = [k \in 0 .. m |-> F(g, k)]}
           r == CHOOSE g : g = [k \in 0 .. Nesting |-> F(g, k)]
<1>1. 0 \in T
  <2> DEFINE g == [k \in 0 .. 0 |-> ItemsOf({<<>>})]
  <2>1. g = [k \in 0 .. 0 |-> F(g, k)]
    OBVIOUS
  <2> HIDE DEF g, F
  <2> QED
    BY <2>1
<1>2. ASSUME NEW m \in 0 .. Nesting - 1, m \in T PROVE m + 1 \in T
  <2>1. PICK g : g = [k \in 0 .. m |-> F(g, k)]
    BY <1>2
  <2> DEFINE h == [k \in 0 .. m + 1 |-> F(g, k)]
  <2>2. ASSUME NEW k \in 0 .. m + 1 PROVE F(g, k) = F(h, k)
    <3>1. k # 0 => g[k - 1] = h[k - 1]
      <4> HIDE DEF F
      <4> QED
        BY <2>1
    <3> HIDE DEF h
    <3> QED
      BY <3>1
  <2>3. h = [k \in 0 .. m + 1 |-> F(h, k)]
    BY <2>2
  <2> HIDE DEF h, F
  <2> QED
    BY <2>3
<1>3. Nesting \in T
  <2>0. Nesting \in Nat
    OBVIOUS
  <2>1. \A m \in 0 .. Nesting - 1 : m \in T => m + 1 \in T
    BY <1>2
  <2> HIDE DEF T
  <2>2. \A m \in 0 .. Nesting : m \in T
    BY <1>1, <2>0, <2>1, UpTo
  <2> QED
    BY <2>2
<1>4. r = [k \in 0 .. Nesting |-> F(r, k)]
  <2> HIDE DEF F
  <2> QED
    BY <1>3
<1>5. ItemsTo = r
  BY DEF ItemsTo, ItemsOf
<1> HIDE DEF r, F
<1>6. r[n] = F(r, n)
  BY <1>4
<1> QED
  BY <1>5, <1>6 DEF F

PrintsOf(n, fmt, deeper) ==
  [item \in ItemsTo[n] |-> [depth \in Nat |-> print_value(item, depth, fmt, deeper)]]

(* How items print is what print_value makes of how their children print.    *)
LEMMA PrintsAre ==
  ASSUME NEW n \in 0 .. Nesting, NEW item \in ItemsTo[n], NEW depth \in Nat, NEW fmt
  PROVE  Prints(fmt)[n][item][depth]
           = print_value(item, depth, fmt, IF n = 0 THEN <<>> ELSE Prints(fmt)[n - 1])
<1> USE NestingAssumption
<1> DEFINE F(g, k) == PrintsOf(k, fmt, IF k = 0 THEN <<>> ELSE g[k - 1])
           T == {m \in 0 .. Nesting : \E g : g = [k \in 0 .. m |-> F(g, k)]}
           r == CHOOSE g : g = [k \in 0 .. Nesting |-> F(g, k)]
<1>1. 0 \in T
  <2> DEFINE g == [k \in 0 .. 0 |-> PrintsOf(0, fmt, <<>>)]
  <2>1. g = [k \in 0 .. 0 |-> F(g, k)]
    OBVIOUS
  <2> HIDE DEF g, F
  <2> QED
    BY <2>1
<1>2. ASSUME NEW m \in 0 .. Nesting - 1, m \in T PROVE m + 1 \in T
  <2>1. PICK g : g = [k \in 0 .. m |-> F(g, k)]
    BY <1>2
  <2> DEFINE h == [k \in 0 .. m + 1 |-> F(g, k)]
  <2>2. ASSUME NEW k \in 0 .. m + 1 PROVE F(g, k) = F(h, k)
    <3>1. k # 0 => g[k - 1] = h[k - 1]
      <4> HIDE DEF F
      <4> QED
        BY <2>1, SMTT(30)
    <3> HIDE DEF h
    <3> QED
      BY <3>1
  <2>3. h = [k \in 0 .. m + 1 |-> F(h, k)]
    BY <2>2
  <2> HIDE DEF h, F
  <2> QED
    BY <2>3
<1>3. Nesting \in T
  <2>0. Nesting \in Nat
    OBVIOUS
  <2>1. \A m \in 0 .. Nesting - 1 : m \in T => m + 1 \in T
    BY <1>2
  <2> HIDE DEF T
  <2>2. \A m \in 0 .. Nesting : m \in T
    BY <1>1, <2>0, <2>1, UpTo
  <2> QED
    BY <2>2
<1>4. r = [k \in 0 .. Nesting |-> F(r, k)]
  <2> HIDE DEF F
  <2> QED
    BY <1>3
<1>5. Prints(fmt) = r
  BY DEF Prints, PrintsOf
<1> HIDE DEF r, F
<1>6. r[n] = F(r, n)
  BY <1>4
<1> DEFINE deeper == IF n = 0 THEN <<>> ELSE r[n - 1]
<1>7. F(r, n) = PrintsOf(n, fmt, deeper)
  BY DEF F
<1> HIDE DEF deeper
<1>8. PrintsOf(n, fmt, deeper)[item][depth] = print_value(item, depth, fmt, deeper)
  BY DEF PrintsOf
<1>9. Prints(fmt)[n][item][depth] = print_value(item, depth, fmt, deeper)
  BY <1>5, <1>6, <1>7, <1>8
<1> QED
  BY <1>5, <1>9 DEF deeper

----------------------------------------------------------------------------
(* cJSON.c. The children of an array or object are read one after the other. *)
(* The rest of a sequence.                                                   *)
LEMMA RestIs ==
  ASSUME NEW S, NEW s \in Seq(S), NEW m \in 1 .. Len(s) + 1
  PROVE  /\ SubSeq(s, m, Len(s)) \in Seq(S) /\ Len(SubSeq(s, m, Len(s))) = Len(s) + 1 - m
         /\ \A i \in 1 .. Len(s) + 1 - m : SubSeq(s, m, Len(s))[i] = s[m + i - 1]
<1>1. Len(s) \in Nat
  OBVIOUS
<1>2. \A i \in m .. Len(s) : s[i] \in S
  <2>1. \A i \in m .. Len(s) : i \in 1 .. Len(s)
    BY <1>1
  <2> QED
    BY <1>1, <2>1, ElementOfSeq
<1>3. m \in Int /\ Len(s) \in Int
  BY <1>1
<1>4. /\ SubSeq(s, m, Len(s)) \in Seq(S)
      /\ Len(SubSeq(s, m, Len(s))) = IF m <= Len(s) THEN Len(s) - m + 1 ELSE 0
      /\ \A i \in 1 .. Len(s) - m + 1 : SubSeq(s, m, Len(s))[i] = s[m + i - 1]
  BY <1>2, <1>3, SubSeqProperties
<1>5. Len(s) - m + 1 = Len(s) + 1 - m /\ (m > Len(s) => Len(s) + 1 - m = 0)
  BY <1>1
<1>6. (IF m <= Len(s) THEN Len(s) - m + 1 ELSE 0) = Len(s) + 1 - m
  BY <1>1
<1> QED
  BY <1>4, <1>5, <1>6

(* The elements of two sequences that are joined.                            *)
LEMMA SeqsJoined ==
  ASSUME NEW S, NEW a \in Seq(S), NEW b \in Seq(S)
  PROVE  /\ a \o b \in Seq(S) /\ Len(a \o b) = Len(a) + Len(b)
         /\ \A i \in 1 .. Len(a) : (a \o b)[i] = a[i]
         /\ \A i \in 1 .. Len(b) : (a \o b)[Len(a) + i] = b[i]
OBVIOUS

(* The rest of a sequence is its first element and the rest of that.         *)
LEMMA RestFirst ==
  ASSUME NEW S, NEW s \in Seq(S), NEW k \in 0 .. Len(s) - 1
  PROVE  <<s[k + 1]>> \o SubSeq(s, k + 2, Len(s)) = SubSeq(s, k + 1, Len(s))
<1> DEFINE a == <<s[k + 1]>>
           b == SubSeq(s, k + 2, Len(s))
           d == SubSeq(s, k + 1, Len(s))
<1>1. /\ Len(s) \in Nat /\ k + 1 \in 1 .. Len(s) + 1 /\ k + 2 \in 1 .. Len(s) + 1
  OBVIOUS
<1>2. a \in Seq(S) /\ Len(a) = 1 /\ a[1] = s[k + 1]
  <2>1. s[k + 1] \in S
    BY <1>1, ElementOfSeq
  <2> QED
    BY <2>1
<1>3. /\ b \in Seq(S) /\ Len(b) = Len(s) + 1 - (k + 2)
      /\ \A i \in 1 .. Len(s) + 1 - (k + 2) : b[i] = s[k + 2 + i - 1]
  BY <1>1, RestIs
<1>4. /\ d \in Seq(S) /\ Len(d) = Len(s) + 1 - (k + 1)
      /\ \A i \in 1 .. Len(s) + 1 - (k + 1) : d[i] = s[k + 1 + i - 1]
  BY <1>1, RestIs
<1> HIDE DEF a, b, d
<1>5. /\ a \o b \in Seq(S) /\ Len(a \o b) = Len(a) + Len(b)
      /\ \A i \in 1 .. Len(a) : (a \o b)[i] = a[i]
      /\ \A i \in 1 .. Len(b) : (a \o b)[Len(a) + i] = b[i]
  <2>1. a \in Seq(S) /\ b \in Seq(S)
    BY <1>2, <1>3
  <2> QED
    BY ONLY <2>1, SeqsJoined
<1>6. ASSUME NEW i \in 1 .. Len(d) PROVE (a \o b)[i] = d[i]
  <2>1. CASE i = 1
    <3>1. (a \o b)[1] = a[1]
      BY <1>2, <1>5
    <3>2. d[1] = s[k + 1]
      BY <1>1, <1>4
    <3> QED
      BY <1>2, <2>1, <3>1, <3>2
  <2>2. CASE i # 1
    <3>1. i - 1 \in 1 .. Len(b) /\ 1 + (i - 1) = i /\ k + 2 + (i - 1) - 1 = k + 1 + i - 1
      BY <1>1, <1>3, <1>4, <2>2
    <3>2. (a \o b)[i] = b[i - 1]
      BY <1>2, <1>5, <3>1
    <3> QED
      BY <1>3, <1>4, <3>1, <3>2
  <2> QED
    BY <2>1, <2>2
<1>7. Len(a \o b) = Len(d)
  <2>1. Len(a \o b) = 1 + (Len(s) + 1 - (k + 2))
    BY <1>2, <1>3, <1>5
  <2>2. Len(d) = Len(s) + 1 - (k + 1)
    BY <1>4
  <2>3. 1 + (Len(s) + 1 - (k + 2)) = Len(s) + 1 - (k + 1)
    BY <1>1
  <2> QED
    BY <2>1, <2>2, <2>3
<1>8. a \o b = d
  BY <1>4, <1>5, <1>6, <1>7, SeqEqual
<1> QED
  BY <1>8 DEF a, b, d

(* The texts of a walk that appends a piece at each step: they stand where   *)
(* the last of them stands, and the pieces between them.                     *)
IsChain(N, t, u) ==
  /\ \A k \in 0 .. N : t[k] \in Strings
  /\ \A k \in 1 .. N : u[k] \in Strings /\ Len(u[k]) >= 1 /\ t[k] = t[k - 1] \o u[k]

ChainStands(N, t, u, text, at) ==
  /\ Starts(text, at, t[0])
  /\ \A k \in 1 .. N : /\ Starts(text, at + Len(t[k - 1]), u[k])
                       /\ Len(t[k]) = Len(t[k - 1]) + Len(u[k])
  /\ \A k \in 0 .. N : Len(t[k]) \in Nat /\ Len(t[k]) >= Len(t[0]) + k

(* Such a walk stands in a text when its last text does.                     *)
LEMMA ChainStarts ==
  ASSUME NEW N \in Nat, NEW t, NEW u, IsChain(N, t, u), NEW text \in Strings,
         NEW at \in Nat \ {0}, Starts(text, at, t[N])
  PROVE  ChainStands(N, t, u, text, at)
<1>1. ASSUME NEW k \in 1 .. N
      PROVE  /\ t[k] \in Strings /\ t[k - 1] \in Strings /\ u[k] \in Strings
             /\ Len(t[k]) = Len(t[k - 1]) + Len(u[k])
             /\ Len(t[k - 1]) \in Nat /\ Len(u[k]) \in Nat /\ Len(u[k]) >= 1
             /\ Starts(text, at, t[k]) => /\ Starts(text, at, t[k - 1])
                                          /\ Starts(text, at + Len(t[k - 1]), u[k])
  <2>1. /\ t[k] \in Strings /\ t[k - 1] \in Strings /\ u[k] \in Strings
        /\ Len(u[k]) >= 1 /\ t[k] = t[k - 1] \o u[k]
    <3>1. k \in 0 .. N /\ k - 1 \in 0 .. N
      OBVIOUS
    <3>2. t[k] \in Strings /\ t[k - 1] \in Strings
      BY <3>1 DEF IsChain
    <3>3. u[k] \in Strings /\ Len(u[k]) >= 1 /\ t[k] = t[k - 1] \o u[k]
      BY DEF IsChain
    <3> QED
      BY <3>2, <3>3
  <2>2. /\ Len(t[k - 1] \o u[k]) = Len(t[k - 1]) + Len(u[k])
        /\ Len(t[k - 1]) \in Nat /\ Len(u[k]) \in Nat
    BY <2>1, StringsJoined
  <2>3. Starts(text, at, t[k - 1] \o u[k]) <=> /\ Starts(text, at, t[k - 1])
                                               /\ Starts(text, at + Len(t[k - 1]), u[k])
    BY <2>1, StartsJoined
  <2> QED
    BY <2>1, <2>2, <2>3
<1> DEFINE T == {j \in 0 .. N : Starts(text, at, t[N - j])}
<1>2. \A j \in 0 .. N : j \in T
  <2>1. 0 \in T
    OBVIOUS
  <2>2. ASSUME NEW j \in 0 .. N - 1, j \in T PROVE j + 1 \in T
    <3>1. N - j \in 1 .. N /\ N - j - 1 = N - (j + 1) /\ j + 1 \in 0 .. N
      OBVIOUS
    <3>2. Starts(text, at, t[N - j])
      BY <2>2
    <3>3. Starts(text, at, t[N - j - 1])
      BY <1>1, <3>1, <3>2
    <3> QED
      BY <3>1, <3>3
  <2>3. \A j \in 0 .. N - 1 : j \in T => j + 1 \in T
    BY <2>2
  <2> HIDE DEF T
  <2> QED
    BY <2>1, <2>3, UpTo
<1>3. ASSUME NEW k \in 0 .. N PROVE Starts(text, at, t[k])
  <2>1. N - k \in T /\ N - (N - k) = k
    BY <1>2
  <2> QED
    BY <2>1
<1> DEFINE L == {k \in 0 .. N : Len(t[k]) >= Len(t[0]) + k}
<1>4. \A k \in 0 .. N : Len(t[k]) \in Nat
  BY DEF IsChain, Strings
<1>5. \A k \in 0 .. N : k \in L
  <2>1. 0 \in L
    BY <1>4
  <2>2. ASSUME NEW k \in 0 .. N - 1, k \in L PROVE k + 1 \in L
    <3>1. k + 1 \in 1 .. N /\ k + 1 - 1 = k
      OBVIOUS
    <3>2. Len(t[k + 1]) = Len(t[k]) + Len(u[k + 1]) /\ Len(u[k + 1]) \in Nat /\ Len(u[k + 1]) >= 1
      <4> DEFINE i == k + 1
      <4>1. i \in 1 .. N /\ i - 1 = k
        BY <3>1
      <4> HIDE DEF i
      <4>2. Len(t[i]) = Len(t[i - 1]) + Len(u[i]) /\ Len(u[i]) \in Nat /\ Len(u[i]) >= 1
        BY <1>1, <4>1
      <4>3. Len(t[i]) = Len(t[k]) + Len(u[i])
        BY <4>1, <4>2
      <4> QED
        BY <4>2, <4>3 DEF i
    <3>3. Len(t[k]) >= Len(t[0]) + k /\ Len(t[k]) \in Nat /\ Len(t[0]) \in Nat
      BY <1>4, <2>2
    <3> DEFINE a == Len(t[k + 1])
               b == Len(t[k])
               chr == Len(u[k + 1])
               d == Len(t[0])
    <3>4. a = b + chr /\ chr \in Nat /\ chr >= 1 /\ b >= d + k /\ b \in Nat /\ d \in Nat
      BY <3>2, <3>3
    <3> HIDE DEF a, b, chr, d
    <3>5. a >= d + (k + 1)
      BY <3>4
    <3>6. k + 1 \in 0 .. N
      BY <3>1
    <3> QED
      BY <3>5, <3>6 DEF a, d
  <2>3. \A k \in 0 .. N - 1 : k \in L => k + 1 \in L
    BY <2>2
  <2> HIDE DEF L
  <2> QED
    BY <2>1, <2>3, UpTo
<1>6. Starts(text, at, t[0])
  BY <1>3
<1>7. ASSUME NEW k \in 1 .. N
      PROVE  /\ Starts(text, at + Len(t[k - 1]), u[k])
             /\ Len(t[k]) = Len(t[k - 1]) + Len(u[k])
  <2>1. Starts(text, at, t[k])
    BY <1>3
  <2> QED
    BY <1>1, <2>1
<1>8. ASSUME NEW k \in 0 .. N
      PROVE  Len(t[k]) \in Nat /\ Len(t[k]) >= Len(t[0]) + k
  BY <1>4, <1>5
<1> HIDE DEF T, L
<1> QED
  BY <1>6, <1>7, <1>8 DEF ChainStands

(* What is read at the start of a child.                                     *)
ChildAt(text, at, type, deeper) == IF type = "array" THEN deeper[at] ELSE Member(text, at, deeper)

(* A list that was read, with the place behind it.                           *)
ReadList(items, end) == {[items |-> items, at |-> end]}

(* Read as a list at its starts, each child up to its stop, then a comma, or *)
(* what closes the list.                                                     *)
IsListed(child, text, type, deeper, start, stop) ==
  /\ \A k \in 1 .. Len(child) :
       /\ start[k] \in 1 .. Len(text) + 1
       /\ ChildAt(text, start[k], type, deeper)
            = Read(child[k], stop[k])
  /\ \A k \in 1 .. Len(child) - 1 :
       /\ Char(text, skip(text, stop[k])) = Comma
       /\ skip(text, skip(text, stop[k]) + 1) = start[k + 1]
  /\ Char(text, skip(text, stop[Len(child)])) = CloseOf(type)

(* One child, with what is read behind it, or with the end of the list.      *)
LEMMA ChildRead ==
  ASSUME NEW text, NEW at, NEW type, NEW deeper, NEW others, NEW item, NEW stop,
         NEW next, next = skip(text, stop),
         ChildAt(text, at, type, deeper) = Read(item, stop)
  PROVE  /\ \A items, end :
              Char(text, next) = Comma /\ others[skip(text, next + 1)] = ReadList(items, end) =>
                ChildrenFrom(text, at, type, deeper, others) = ReadList(<<item>> \o items, end)
         /\ Char(text, next) = CloseOf(type) =>
              ChildrenFrom(text, at, type, deeper, others) = ReadList(<<item>>, next + 1)
<1> DEFINE B(x) ==
      LET n == skip(text, x.at)
      IN  CASE Char(text, n) = Comma ->
                 {[items |-> <<x.item>> \o r.items, at |-> r.at] : r \in others[skip(text, n + 1)]}
            [] Char(text, n) = CloseOf(type) -> {[items |-> <<x.item>>, at |-> n + 1]}
            [] OTHER -> {}
           x0 == [item |-> item, at |-> stop]
           X == ChildAt(text, at, type, deeper)
<1>1. ChildrenFrom(text, at, type, deeper, others) = UNION {B(x) : x \in X}
  BY Zenon DEF ChildrenFrom, ChildAt
<1>2. X = {x0}
  BY DEF Read
<1>3. x0.at = stop /\ x0.item = item
  OBVIOUS
<1>4. UNION {B(x) : x \in X} = B(x0)
  <2> HIDE DEF B, X, x0
  <2> QED
    BY <1>2
<1>5. CloseOf(type) # Comma
  BY DEF CloseOf, CloseBracket, CloseBrace, Comma
<1> HIDE DEF X, x0
<1>6. ASSUME Char(text, next) = Comma
      PROVE  B(x0) = {[items |-> <<item>> \o r.items, at |-> r.at] : r \in others[skip(text, next + 1)]}
  BY <1>3, <1>5, <1>6, Zenon
<1>7. ASSUME Char(text, next) = CloseOf(type)
      PROVE  B(x0) = {[items |-> <<item>>, at |-> next + 1]}
  <2>1. ~ (Char(text, next) = Comma)
    BY <1>5, <1>7
  <2> QED
    BY <1>3, <1>7, <2>1, Zenon
<1> HIDE DEF B
<1>8. ASSUME Char(text, next) = Comma, NEW items, NEW end,
             others[skip(text, next + 1)] = ReadList(items, end)
      PROVE  ChildrenFrom(text, at, type, deeper, others) = ReadList(<<item>> \o items, end)
  <2> DEFINE r0 == [items |-> items, at |-> end]
             C(r) == [items |-> <<item>> \o r.items, at |-> r.at]
  <2>1. C(r0) = [items |-> <<item>> \o items, at |-> end]
    OBVIOUS
  <2>2. {C(r) : r \in others[skip(text, next + 1)]} = {C(r0)}
    <3>1. others[skip(text, next + 1)] = {r0}
      BY <1>8 DEF ReadList
    <3> HIDE DEF C, r0
    <3> QED
      BY <3>1
  <2>3. ChildrenFrom(text, at, type, deeper, others) = {C(r) : r \in others[skip(text, next + 1)]}
    BY <1>1, <1>4, <1>6, <1>8
  <2> HIDE DEF C
  <2> QED
    BY <2>1, <2>2, <2>3 DEF ReadList
<1>9. ASSUME Char(text, next) = CloseOf(type)
      PROVE  ChildrenFrom(text, at, type, deeper, others) = ReadList(<<item>>, next + 1)
  BY <1>1, <1>4, <1>7, <1>9 DEF ReadList
<1> QED
  BY <1>8, <1>9

(* Such a list is read as the children, up to the place behind its end.      *)
LEMMA ListRead ==
  ASSUME NEW S, NEW child \in Seq(S), NEW text \in Strings, NEW type, NEW deeper,
         NEW start, NEW stop, IsListed(child, text, type, deeper, start, stop),
         Len(child) \in 1 .. Len(text) + 1
  PROVE  Children(text, start[1], type, deeper)
           = ReadList(child, skip(text, stop[Len(child)]) + 1)
<1> DEFINE N == Len(child)
           end == skip(text, stop[N]) + 1
           Rest(k) == SubSeq(child, k, N)
<1>0. Len(text) \in Nat /\ N \in Nat \ {0} /\ N <= Len(text) + 1
  BY DEF Strings
<1>1. PICK r : /\ IsList(text, type, deeper, r)
               /\ \A at : Children(text, at, type, deeper) = r[Len(text) + 1][at]
  BY <1>0, ListExists
<1> DEFINE T == {j \in 0 .. N - 1 : \A n \in j + 1 .. Len(text) + 1 :
                   r[n][start[N - j]] = ReadList(Rest(N - j), end)}
<1>2. ASSUME NEW k \in 1 .. N, NEW n \in 1 .. Len(text) + 1
      PROVE  /\ r[n][start[k]] = ChildrenFrom(text, start[k], type, deeper, r[n - 1])
             /\ ChildAt(text, start[k], type, deeper)
                  = Read(child[k], stop[k])
  <2>1. /\ start[k] \in 1 .. Len(text) + 1
        /\ ChildAt(text, start[k], type, deeper)
             = Read(child[k], stop[k])
    BY DEF IsListed
  <2>2. r[n][start[k]] = ChildrenFrom(text, start[k], type, deeper, r[n - 1])
    BY <1>1, <2>1 DEF IsList
  <2> QED
    BY <2>1, <2>2, Zenon
<1>3. 0 \in T
  <2>1. ASSUME NEW n \in 0 + 1 .. Len(text) + 1
        PROVE  r[n][start[N]] = ReadList(Rest(N), end)
    <3>1. n \in 1 .. Len(text) + 1 /\ N \in 1 .. N
      BY <1>0
    <3>2. /\ r[n][start[N]] = ChildrenFrom(text, start[N], type, deeper, r[n - 1])
          /\ ChildAt(text, start[N], type, deeper)
               = Read(child[N], stop[N])
      BY <1>2, <3>1, Zenon
    <3>3. Char(text, skip(text, stop[N])) = CloseOf(type)
      BY DEF IsListed
    <3> DEFINE next == skip(text, stop[N])
    <3>4. ChildrenFrom(text, start[N], type, deeper, r[n - 1])
            = ReadList(<<child[N]>>, next + 1)
      <4>1. next = skip(text, stop[N])
        OBVIOUS
      <4> HIDE DEF next, N
      <4> QED
        BY <3>2, <3>3, <4>1, ChildRead
    <3>5. Rest(N) = <<child[N]>>
      <4>1. <<child[(N - 1) + 1]>> \o SubSeq(child, (N - 1) + 2, N) = SubSeq(child, (N - 1) + 1, N)
        BY <1>0, RestFirst
      <4>2. SubSeq(child, N + 1, N) = <<>>
        BY <1>0
      <4>3. child[N] \in S
        BY <1>0
      <4>4. <<child[N]>> \o <<>> = <<child[N]>>
        BY <4>3
      <4>5. (N - 1) + 1 = N /\ (N - 1) + 2 = N + 1
        BY <1>0
      <4> QED
        BY <4>1, <4>2, <4>4, <4>5
    <3> HIDE DEF Rest
    <3> QED
      BY <3>2, <3>4, <3>5
  <2>2. N - 0 = N /\ 0 \in 0 .. N - 1
    BY <1>0
  <2> HIDE DEF Rest, end
  <2> QED
    BY <2>1, <2>2
<1>4. ASSUME NEW j \in 0 .. N - 1 - 1, j \in T PROVE j + 1 \in T
  <2> DEFINE k == N - (j + 1)
  <2>1. /\ k \in 1 .. N - 1 /\ k \in 1 .. N /\ k + 1 = N - j /\ j + 1 \in 0 .. N - 1
        /\ k - 1 \in 0 .. N - 1
    BY <1>0
  <2>2. ASSUME NEW n \in (j + 1) + 1 .. Len(text) + 1
        PROVE  r[n][start[k]] = ReadList(Rest(k), end)
    <3>1. n \in 1 .. Len(text) + 1 /\ n - 1 \in j + 1 .. Len(text) + 1
      BY <1>0
    <3>2. /\ r[n][start[k]] = ChildrenFrom(text, start[k], type, deeper, r[n - 1])
          /\ ChildAt(text, start[k], type, deeper)
               = Read(child[k], stop[k])
      <4> HIDE DEF k, N
      <4> QED
        BY <1>2, <2>1, <3>1, Zenon
    <3>3. /\ Char(text, skip(text, stop[k])) = Comma
          /\ skip(text, skip(text, stop[k]) + 1) = start[k + 1]
      <4> HIDE DEF k
      <4> QED
        BY <2>1 DEF IsListed
    <3>4. r[n - 1][start[k + 1]] = ReadList(Rest(k + 1), end)
      <4>1. r[n - 1][start[N - j]] = ReadList(Rest(N - j), end)
        <5> HIDE DEF Rest, end
        <5> QED
          BY <1>4, <3>1
      <4> HIDE DEF k
      <4> QED
        BY <2>1, <4>1
    <3> DEFINE next == skip(text, stop[k])
               items == Rest(k + 1)
    <3>5. ChildrenFrom(text, start[k], type, deeper, r[n - 1])
            = ReadList(<<child[k]>> \o items, end)
      <4>1. next = skip(text, stop[k])
        OBVIOUS
      <4>2. Char(text, next) = Comma
        BY <3>3
      <4>3. r[n - 1][skip(text, next + 1)] = ReadList(items, end)
        <5> HIDE DEF Rest, end, k
        <5> QED
          BY <3>3, <3>4
      <4> HIDE DEF next, items, end, k
      <4> QED
        BY <3>2, <4>1, <4>2, <4>3, ChildRead
    <3>6. <<child[k]>> \o items = Rest(k)
      <4>1. <<child[(k - 1) + 1]>> \o SubSeq(child, (k - 1) + 2, N) = SubSeq(child, (k - 1) + 1, N)
        <5> DEFINE i == k - 1
        <5>1. i \in 0 .. Len(child) - 1
          BY <2>1
        <5> HIDE DEF i
        <5> QED
          BY <5>1, RestFirst DEF i
      <4>2. (k - 1) + 1 = k /\ (k - 1) + 2 = k + 1
        BY <2>1
      <4> HIDE DEF k, N
      <4> QED
        BY <4>1, <4>2
    <3> HIDE DEF Rest, end, k, items
    <3> QED
      BY <3>2, <3>5, <3>6
  <2> HIDE DEF Rest, end
  <2> QED
    BY <2>1, <2>2
<1>5. \A j \in 0 .. N - 1 : j \in T
  <2>1. \A j \in 0 .. N - 1 - 1 : j \in T => j + 1 \in T
    BY <1>4
  <2>2. N - 1 \in Nat
    BY <1>0
  <2> HIDE DEF T, N
  <2> QED
    BY <1>3, <2>1, <2>2, UpTo
<1>6. N - 1 \in T /\ N - (N - 1) = 1 /\ Len(text) + 1 \in (N - 1) + 1 .. Len(text) + 1
  <2> HIDE DEF T
  <2> QED
    BY <1>0, <1>5
<1>7. r[Len(text) + 1][start[1]] = ReadList(Rest(1), end)
  <2>1. r[Len(text) + 1][start[N - (N - 1)]] = ReadList(Rest(N - (N - 1)), end)
    <3> HIDE DEF Rest, end
    <3> QED
      BY <1>6
  <2> HIDE DEF Rest, end
  <2> QED
    BY <1>6, <2>1
<1>8. Rest(1) = child
  BY <1>0
<1> HIDE DEF Rest
<1> QED
  BY <1>1, <1>7, <1>8

(* An array or object is its children, or empty.                             *)
LEMMA ContainerRead ==
  ASSUME NEW text, NEW at, NEW type, NEW deeper, NEW first, first = skip(text, at + 1)
  PROVE  /\ Char(text, first) = CloseOf(type) =>
              Container(text, at, type, deeper) = Read(Item(type, <<>>, 0, <<>>), first + 1)
         /\ \A child, end :
              Char(text, first) # CloseOf(type) /\ Children(text, first, type, deeper) = ReadList(child, end) =>
                Container(text, at, type, deeper) = Read(Item(type, <<>>, 0, child), end)
<1>1. ASSUME Char(text, first) = CloseOf(type)
      PROVE  Container(text, at, type, deeper) = Read(Item(type, <<>>, 0, <<>>), first + 1)
  BY <1>1, Zenon DEF Container
<1>2. ASSUME NEW child, NEW end, Char(text, first) # CloseOf(type),
             Children(text, first, type, deeper) = ReadList(child, end)
      PROVE  Container(text, at, type, deeper) = Read(Item(type, <<>>, 0, child), end)
  <2> DEFINE B(l) == Read(Item(type, <<>>, 0, l.items), l.at)
             l0 == [items |-> child, at |-> end]
  <2>1. Container(text, at, type, deeper) = UNION {B(l) : l \in Children(text, first, type, deeper)}
    BY <1>2, Zenon DEF Container
  <2>2. Children(text, first, type, deeper) = {l0}
    BY <1>2 DEF ReadList
  <2>3. l0.items = child /\ l0.at = end
    OBVIOUS
  <2>4. B(l0) = Read(Item(type, <<>>, 0, child), end)
    <3> HIDE DEF l0
    <3> QED
      BY <2>3
  <2> HIDE DEF B, l0
  <2> QED
    BY <2>1, <2>2, <2>4
<1> QED
  BY <1>1, <1>2

IsMember(text, at, deeper, name, value, next, colon, stop) ==
  /\ parse_string(text, at) = Read(Item("string", name, 0, <<>>), next)
  /\ colon = skip(text, next) /\ Char(text, colon) = Colon
  /\ deeper[skip(text, colon + 1)] = Read(value, stop)

(* A member is its name, a colon and its value.                              *)
LEMMA MemberRead ==
  ASSUME NEW text, NEW at, NEW deeper, NEW name, NEW value, NEW chr, NEW colon, NEW stop,
         IsMember(text, at, deeper, name, value, chr, colon, stop)
  PROVE  Member(text, at, deeper) = Read(Named(name, value), stop)
<1> USE DEF IsMember
<1> DEFINE B(s) == LET n == skip(text, s.at)
                   IN  IF Char(text, n) # Colon THEN {}
                       ELSE {[v EXCEPT !.item = Named(s.item.valuestring, v.item)] :
                               v \in deeper[skip(text, n + 1)]}
           s0 == [item |-> Item("string", name, 0, <<>>), at |-> chr]
           v0 == [item |-> value, at |-> stop]
           C(v) == [v EXCEPT !.item = Named(name, v.item)]
<1>1. Member(text, at, deeper) = UNION {B(s) : s \in parse_string(text, at)}
  BY Zenon DEF Member
<1>2. parse_string(text, at) = {s0}
  BY DEF Read
<1>3. s0.at = chr /\ s0.item.valuestring = name
  BY DEF Item
<1>4. B(s0) = {C(v) : v \in deeper[skip(text, colon + 1)]}
  <2> HIDE DEF s0
  <2> QED
    BY <1>3, Zenon
<1>5. deeper[skip(text, colon + 1)] = {v0}
  BY DEF Read
<1>6. C(v0) = [item |-> Named(name, value), at |-> stop]
  OBVIOUS
<1> HIDE DEF B, s0, v0, C
<1>7. UNION {B(s) : s \in parse_string(text, at)} = B(s0)
  BY <1>2
<1>8. {C(v) : v \in deeper[skip(text, colon + 1)]} = {C(v0)}
  BY <1>5
<1> QED
  BY <1>1, <1>4, <1>6, <1>7, <1>8 DEF Read

(* White space.                                                              *)
Blank(s) == s \in Strings /\ \A i \in 1 .. Len(s) : s[i] \in 1 .. Space

(* skip passes over white space.                                             *)
LEMMA SkipBlank ==
  ASSUME NEW text \in Strings, NEW at \in Nat \ {0}, NEW s, Blank(s), Starts(text, at, s),
         Char(text, at + Len(s)) > Space
  PROVE  skip(text, at) = at + Len(s)
<1> DEFINE q == at + Len(s)
<1>1. Len(s) \in Nat /\ DOMAIN s = 1 .. Len(s) /\ q \in Nat \ {0} /\ Len(text) \in Nat
  BY DEF Blank, Strings
<1>2. ASSUME NEW j \in at .. q - 1 PROVE Char(text, j) \in 1 .. Space
  <2>1. j - at + 1 \in 1 .. Len(s) /\ at + (j - at + 1) - 1 = j
    BY <1>1
  <2>2. Char(text, at + (j - at + 1) - 1) = s[j - at + 1]
    BY <1>1, <2>1 DEF Starts
  <2> QED
    BY <2>1, <2>2 DEF Blank
<1>3. q <= Len(text) /\ Char(text, q) \notin 1 .. Space
  <2>1. Char(text, q) # 0
    BY DEF Space
  <2>2. q <= Len(text)
    <3> HIDE DEF q
    <3> QED
      BY <1>1, <2>1, CharIs
  <2> DEFINE ch == Char(text, q)
  <2>3. ch > Space
    OBVIOUS
  <2> HIDE DEF ch
  <2>4. ch \notin 1 .. Space
    BY ONLY <2>3 DEF Space
  <2> QED
    BY <2>2, <2>4 DEF ch
<1>4. q \in at .. Len(text) + 1
  BY <1>1, <1>3
<1> HIDE DEF q
<1>5. PassOver(text, at, 1 .. Space) = q
  BY <1>2, <1>3, <1>4, PassOverIs
<1> QED
  BY <1>5 DEF skip, q

(* skip stays where there is none.                                           *)
LEMMA SkipNone ==
  ASSUME NEW text \in Strings, NEW at \in Nat \ {0}, Char(text, at) > Space
  PROVE  skip(text, at) = at
<1>1. Blank(<<>>) /\ Len(<<>>) = 0
  BY NoText DEF Blank
<1>2. Starts(text, at, <<>>) /\ at + 0 = at
  BY DEF Starts
<1> QED
  BY <1>1, <1>2, SkipBlank

(* It does not matter which texts are joined first.                          *)
LEMMA JoinedLeft ==
  ASSUME NEW a \in Strings, NEW b \in Strings, NEW chr \in Strings
  PROVE  (a \o b) \o chr = a \o (b \o chr)
BY ConcatAssociative DEF Strings

(* A part of a text.                                                         *)
IsPart(e) == e.text \in Strings /\ e.fits = TRUE

IsAdded(next, out, before, part, behind, more) ==
  /\ Partial(next) /\ next.text = out.text \o ((before \o part.text) \o behind)
  /\ (before \o part.text) \o behind \in Strings
  /\ Len((before \o part.text) \o behind) = Len(before) + Len(part.text) + Len(behind)
  /\ Len(next.text) = Len(out.text) + Len(before) + Len(part.text) + Len(behind)
  /\ next.room = out.room + more

(* What Add makes of a text with room and a part that fits.                  *)
LEMMA Added ==
  ASSUME NEW out, Partial(out), NEW before \in Strings, NEW part, IsPart(part),
         NEW behind \in Strings, NEW more \in Nat, NEW next,
         next = Add(out, before, part, behind, more)
  PROVE  IsAdded(next, out, before, part, behind, more)
<1>1. /\ out.text \in Strings /\ out.room \in Nat /\ out.fits = TRUE
      /\ part.text \in Strings /\ part.fits = TRUE
  BY DEF Partial, IsPart
<1> DEFINE a == before \o part.text
           b == a \o behind
           t == out.text \o b
<1>2. a \in Strings /\ Len(a) = Len(before) + Len(part.text)
  BY <1>1, StringsJoined
<1>3. b \in Strings /\ Len(b) = Len(a) + Len(behind)
  BY <1>2, StringsJoined
<1>4. t \in Strings /\ Len(t) = Len(out.text) + Len(b)
  BY <1>1, <1>3, StringsJoined
<1>5. out.text \o before \o part.text \o behind = t
  <2>1. (out.text \o before) \o part.text = out.text \o a
    BY <1>1, JoinedLeft
  <2>2. (out.text \o a) \o behind = out.text \o b
    <3> DEFINE o == out.text
    <3>1. o \in Strings /\ a \in Strings /\ behind \in Strings
      BY <1>1, <1>2
    <3> HIDE DEF a, o
    <3>2. (o \o a) \o behind = o \o (a \o behind)
      BY ONLY <3>1, JoinedLeft
    <3> QED
      BY <3>2 DEF o
  <2> QED
    BY <2>1, <2>2
<1>6. next = [text |-> t, room |-> out.room + more, fits |-> TRUE]
  <2> HIDE DEF t
  <2> QED
    BY <1>1, <1>5 DEF Add
<1>7. /\ Len(before) \in Nat /\ Len(part.text) \in Nat /\ Len(behind) \in Nat /\ Len(out.text) \in Nat
  BY <1>1 DEF Strings
<1> HIDE DEF a, b, t
<1>8. next.text = t /\ next.room = out.room + more /\ Partial(next)
  BY <1>1, <1>4, <1>6 DEF Partial
<1>9. Len(b) = Len(before) + Len(part.text) + Len(behind)
  BY <1>2, <1>3, <1>7
<1>10. Len(t) = Len(out.text) + Len(before) + Len(part.text) + Len(behind)
  <2> DEFINE n == Len(before)
             m == Len(part.text)
             k == Len(behind)
             l == Len(out.text)
             x == Len(t)
  <2>1. x = l + (n + m + k) /\ n \in Nat /\ m \in Nat /\ k \in Nat /\ l \in Nat
    BY <1>4, <1>7, <1>9
  <2> HIDE DEF n, m, k, l, x
  <2>2. x = l + n + m + k
    BY <2>1
  <2> QED
    BY <2>2 DEF n, m, k, l, x
<1>11. next.text = out.text \o b
  BY <1>8 DEF t
<1>12. b = (before \o part.text) \o behind
  BY DEF b, a
<1> QED
  BY <1>3, <1>8, <1>9, <1>10, <1>11, <1>12 DEF IsAdded

(* What End makes of a text with room for its end.                           *)
LEMMA Ended ==
  ASSUME NEW out, Partial(out), NEW end \in Strings, Len(out.text) + Len(end) < out.room,
         NEW x, x = End(out, end)
  PROVE  IsPart(x) /\ x.text = out.text \o end /\ Len(x.text) = Len(out.text) + Len(end)
<1>1. out.text \in Strings /\ out.fits = TRUE
  BY DEF Partial
<1> DEFINE t == out.text \o end
<1>2. t \in Strings /\ Len(t) = Len(out.text) + Len(end)
  BY <1>1, StringsJoined
<1>3. End(out, end) = [text |-> t, room |-> out.room, fits |-> out.fits /\ Len(t) < out.room]
  BY DEF End
<1> HIDE DEF t
<1>4. x.text = t /\ x.fits = (out.fits /\ Len(t) < out.room)
  BY <1>3
<1>5. Len(t) < out.room
  BY <1>2
<1>6. x.fits = TRUE
  BY <1>1, <1>4, <1>5
<1> QED
  BY <1>2, <1>4, <1>6 DEF IsPart, t

----------------------------------------------------------------------------
(* cJSON.c. An array is printed inside its room, and read back.              *)
(* The loop of print_array.                                                  *)
ArrayBehind(k, N, fmt) == IF k = N THEN <<>> ELSE <<Comma>> \o If(fmt, <<Space>>)

ArrayStep(out, entry, k, N, fmt) ==
  Add(out, <<>>, entry, ArrayBehind(k, N, fmt), Len(entry.text) + (IF fmt THEN 3 ELSE 2))

IsArraying(child, depth, fmt, deeper, p) ==
  /\ p[0] = Out(<<OpenBracket>>, 5)
  /\ \A k \in 1 .. Len(child) :
       p[k] = ArrayStep(p[k - 1], deeper[child[k]][depth + 1], k, Len(child), fmt)

(* The loop of print_array has its texts, one for each child.                *)
LEMMA ArrayingExists ==
  ASSUME NEW child, Len(child) \in Nat, child # <<>>, NEW depth, NEW fmt, NEW deeper
  PROVE  \E p : /\ IsArraying(child, depth, fmt, deeper, p)
                /\ print_array(child, depth, fmt, deeper) = End(p[Len(child)], <<CloseBracket>>)
<1> DEFINE N == Len(child)
<1> DEFINE F(g, k) == IF k = 0 THEN Out(<<OpenBracket>>, 5) ELSE ArrayStep(g[k - 1], deeper[child[k]][depth + 1], k, N, fmt)
           T == {m \in 0 .. N : \E g : g = [k \in 0 .. m |-> F(g, k)]}
           r == CHOOSE g : g = [k \in 0 .. N |-> F(g, k)]
<1>1. 0 \in T
  <2> DEFINE g == [k \in 0 .. 0 |-> Out(<<OpenBracket>>, 5)]
  <2>1. g = [k \in 0 .. 0 |-> F(g, k)]
    OBVIOUS
  <2> HIDE DEF g, F
  <2> QED
    BY <2>1
<1>2. ASSUME NEW m \in 0 .. N - 1, m \in T PROVE m + 1 \in T
  <2>1. PICK g : g = [k \in 0 .. m |-> F(g, k)]
    BY <1>2
  <2> DEFINE h == [k \in 0 .. m + 1 |-> F(g, k)]
  <2>2. ASSUME NEW k \in 0 .. m + 1 PROVE F(g, k) = F(h, k)
    <3>1. k # 0 => g[k - 1] = h[k - 1]
      <4> HIDE DEF F
      <4> QED
        BY <2>1
    <3> HIDE DEF h
    <3> QED
      BY <3>1
  <2>3. h = [k \in 0 .. m + 1 |-> F(h, k)]
    BY <2>2
  <2> HIDE DEF h, F
  <2> QED
    BY <2>3
<1>3. N \in T
  <2>0. N \in Nat
    OBVIOUS
  <2>1. \A m \in 0 .. N - 1 : m \in T => m + 1 \in T
    BY <1>2
  <2> HIDE DEF T
  <2>2. \A m \in 0 .. N : m \in T
    BY <1>1, <2>0, <2>1, UpTo
  <2> QED
    BY <2>2
<1>4. r = [k \in 0 .. N |-> F(r, k)]
  <2> HIDE DEF F
  <2> QED
    BY <1>3
<1>5. print_array(child, depth, fmt, deeper) = End(r[N], <<CloseBracket>>)
  BY DEF print_array, ArrayStep, ArrayBehind
<1> HIDE DEF r
<1>6. IsArraying(child, depth, fmt, deeper, r)
  <2>1. \A k \in 0 .. N : r[k] = F(r, k)
    <3> HIDE DEF F
    <3> QED
      BY <1>4
  <2>2. r[0] = F(r, 0) /\ \A k \in 1 .. N : r[k] = F(r, k)
    <3> HIDE DEF F
    <3> QED
      BY <2>1
  <2> QED
    BY <2>2 DEF IsArraying
<1> QED
  BY <1>5, <1>6

(* What a value that prints well starts with.                                *)
IsValueText(e) ==
  /\ IsPart(e) /\ Len(e.text) \in Nat /\ Len(e.text) >= 1
  /\ e.text[1] > Space /\ e.text[1] \notin {CloseBracket, CloseBrace}

(* What stands behind a child of an array is counted in its room.            *)
LEMMA ArrayBehindIs ==
  ASSUME NEW k, NEW N, NEW fmt \in BOOLEAN
  PROVE  /\ ArrayBehind(k, N, fmt) \in Strings
         /\ Len(ArrayBehind(k, N, fmt)) \in 0 .. (IF fmt THEN 2 ELSE 1)
<1>1. <<Comma>> \in Strings /\ <<Space>> \in Strings /\ Len(<<Comma>>) = 1 /\ Len(<<Space>>) = 1
  BY OneChar DEF Comma, Space
<1>2. CASE k = N
  BY <1>2, NoText DEF ArrayBehind
<1>3. CASE k # N /\ fmt
  <2>1. ArrayBehind(k, N, fmt) = <<Comma>> \o <<Space>>
    BY <1>3 DEF ArrayBehind, If
  <2>2. <<Comma>> \o <<Space>> \in Strings /\ Len(<<Comma>> \o <<Space>>) = 1 + 1
    BY <1>1, StringsJoined
  <2>3. 1 + 1 \in 0 .. (IF fmt THEN 2 ELSE 1)
    BY <1>3
  <2> QED
    BY <2>1, <2>2, <2>3
<1>4. CASE k # N /\ ~ fmt
  <2>1. ArrayBehind(k, N, fmt) = <<Comma>> \o <<>>
    BY <1>4 DEF ArrayBehind, If
  <2> QED
    BY <1>1, <1>4, <2>1, JoinedNothing
<1> QED
  BY <1>2, <1>3, <1>4

(* What print_array makes of an array that is not empty.                     *)
ArrayPiece(child, k, depth, fmt, deeper) ==
  deeper[child[k]][depth + 1].text \o ArrayBehind(k, Len(child), fmt)

IsArrayText(x, child, depth, fmt, deeper, t, u) ==
  /\ IsChain(Len(child), t, u) /\ t[0] = <<OpenBracket>>
  /\ \A k \in 1 .. Len(child) : u[k] = ArrayPiece(child, k, depth, fmt, deeper)
  /\ x.text = t[Len(child)] \o <<CloseBracket>>
  /\ Len(x.text) = Len(t[Len(child)]) + 1

(* An array that is not empty fits, and its text is a chain of its           *)
(* children's.                                                               *)
LEMMA ArrayPrinted ==
  ASSUME NEW child, Len(child) \in Nat, child # <<>>, NEW depth, NEW fmt \in BOOLEAN, NEW deeper,
         \A k \in 1 .. Len(child) : IsValueText(deeper[child[k]][depth + 1]),
         NEW x, x = print_array(child, depth, fmt, deeper)
  PROVE  IsPart(x) /\ \E t, u : IsArrayText(x, child, depth, fmt, deeper, t, u)
<1> DEFINE N == Len(child)
           e(k) == deeper[child[k]][depth + 1]
           b(k) == ArrayBehind(k, N, fmt)
           m(k) == Len(e(k).text) + (IF fmt THEN 3 ELSE 2)
<1>1. PICK p : /\ IsArraying(child, depth, fmt, deeper, p)
               /\ print_array(child, depth, fmt, deeper) = End(p[N], <<CloseBracket>>)
  BY ArrayingExists
<1> DEFINE Good(k) == Partial(p[k]) /\ Len(p[k].text) + 4 <= p[k].room
           T == {k \in 0 .. N : Good(k)}
<1>2. ASSUME NEW k \in 0 .. N - 1, Good(k)
      PROVE  /\ Good(k + 1) /\ p[k + 1].text = p[k].text \o ArrayPiece(child, k + 1, depth, fmt, deeper)
             /\ ArrayPiece(child, k + 1, depth, fmt, deeper) \in Strings
             /\ Len(ArrayPiece(child, k + 1, depth, fmt, deeper)) >= 1
  <2> DEFINE i == k + 1
  <2>1. i \in 1 .. N /\ i - 1 = k
    OBVIOUS
  <2>2. p[i] = ArrayStep(p[k], e(i), i, N, fmt)
    <3> HIDE DEF i
    <3>1. p[i] = ArrayStep(p[i - 1], e(i), i, N, fmt)
      BY <1>1, <2>1 DEF IsArraying
    <3> QED
      BY <2>1, <3>1
  <2>3. IsValueText(e(i))
    <3> HIDE DEF i
    <3> QED
      BY <2>1
  <2> DEFINE part == e(i)
             behind == b(i)
             more == m(i)
             next == p[i]
             out == p[k]
  <2>4. next = Add(out, <<>>, part, behind, more)
    BY <2>2 DEF ArrayStep
  <2>5. behind \in Strings /\ Len(behind) \in 0 .. (IF fmt THEN 2 ELSE 1)
    BY ArrayBehindIs
  <2>6. IsPart(part) /\ Len(part.text) \in Nat /\ Len(part.text) >= 1
    BY <2>3 DEF IsValueText
  <2>7. more = Len(part.text) + (IF fmt THEN 3 ELSE 2)
    OBVIOUS
  <2>8. Partial(out) /\ Len(out.text) + 4 <= out.room /\ out.room \in Nat /\ Len(out.text) \in Nat
    BY <1>2 DEF Partial, Strings
  <2>9. ArrayPiece(child, i, depth, fmt, deeper) = part.text \o behind
    BY DEF ArrayPiece
  <2> HIDE DEF part, behind, more, next, out, i, N
  <2>10. more \in Nat
    <3> DEFINE l == Len(part.text)
    <3>1. l \in Nat /\ more = l + (IF fmt THEN 3 ELSE 2)
      BY <2>6, <2>7
    <3> HIDE DEF l
    <3> QED
      BY <3>1
  <2>11. /\ Partial(next) /\ next.text = out.text \o ((<<>> \o part.text) \o behind)
         /\ (<<>> \o part.text) \o behind \in Strings
         /\ Len((<<>> \o part.text) \o behind) = Len(<<>>) + Len(part.text) + Len(behind)
         /\ Len(next.text) = Len(out.text) + Len(<<>>) + Len(part.text) + Len(behind)
         /\ next.room = out.room + more
    <3> DEFINE none == <<>>
    <3>1. none \in Strings /\ next = Add(out, none, part, behind, more)
      BY <2>4, NoText
    <3> HIDE DEF none
    <3>2. IsAdded(next, out, none, part, behind, more)
      <4>1. /\ Partial(out) /\ none \in Strings /\ IsPart(part) /\ behind \in Strings
            /\ more \in Nat /\ next = Add(out, none, part, behind, more)
        BY <2>5, <2>6, <2>8, <2>10, <3>1
      <4> QED
        BY ONLY <4>1, Added
    <3> QED
      BY <3>2 DEF none, IsAdded
  <2>12. <<>> \o part.text = part.text /\ Len(<<>>) = 0
    BY <2>6, JoinedNothing, NoText DEF IsPart
  <2> DEFINE l == Len(part.text)
             chr == Len(behind)
             o == Len(out.text)
             w == Len(next.text)
             z == Len(part.text \o behind)
  <2>13. w = o + 0 + l + chr /\ z = 0 + l + chr
    BY <2>11, <2>12
  <2>14. l \in Nat /\ l >= 1 /\ o \in Nat /\ chr \in Nat /\ chr <= (IF fmt THEN 2 ELSE 1)
    BY <2>5, <2>6, <2>8
  <2>15. o + 4 <= out.room /\ out.room \in Nat /\ more = l + (IF fmt THEN 3 ELSE 2)
    BY <2>7, <2>8
  <2> HIDE DEF l, chr, o, w, z
  <2>16. z >= 1 /\ w + 4 <= out.room + more
    BY <2>13, <2>14, <2>15
  <2>17. Partial(next) /\ Len(next.text) + 4 <= next.room
    BY <2>11, <2>16 DEF w
  <2>18. next.text = out.text \o (part.text \o behind) /\ part.text \o behind \in Strings
    BY <2>11, <2>12
  <2>19. Good(i)
    BY <2>17 DEF next
  <2> QED
    BY <2>9, <2>16, <2>18, <2>19 DEF next, out, i, z
<1>3. \A k \in 0 .. N : k \in T
  <2>1. Good(0)
    <3>1. p[0] = [text |-> <<OpenBracket>>, room |-> 5, fits |-> TRUE]
      BY <1>1 DEF IsArraying, Out
    <3>2. <<OpenBracket>> \in Strings /\ Len(<<OpenBracket>>) = 1
      BY OneChar DEF OpenBracket
    <3>3. p[0].text = <<OpenBracket>> /\ p[0].room = 5 /\ Partial(p[0])
      BY <3>1, <3>2 DEF Partial
    <3> QED
      BY <3>2, <3>3
  <2>2. 0 \in T
    <3> HIDE DEF Good
    <3> QED
      BY <2>1
  <2>3. \A k \in 0 .. N - 1 : k \in T => k + 1 \in T
    <3>1. ASSUME NEW k \in 0 .. N - 1, k \in T PROVE k + 1 \in T
      <4>1. Good(k + 1)
        <5> HIDE DEF Good
        <5> QED
          BY <1>2, <3>1
      <4> HIDE DEF Good
      <4> QED
        BY <4>1
    <3> QED
      BY <3>1
  <2> HIDE DEF T
  <2> QED
    BY <2>2, <2>3, UpTo
<1>4. \A k \in 0 .. N : Good(k)
  <2> HIDE DEF Good
  <2> QED
    BY <1>3
<1> DEFINE t == [k \in 0 .. N |-> p[k].text]
           u == [k \in 1 .. N |-> ArrayPiece(child, k, depth, fmt, deeper)]
<1>5. IsChain(N, t, u)
  <2>1. ASSUME NEW k \in 0 .. N PROVE t[k] \in Strings
    BY <1>4 DEF Partial
  <2>2. ASSUME NEW k \in 1 .. N
        PROVE  u[k] \in Strings /\ Len(u[k]) >= 1 /\ t[k] = t[k - 1] \o u[k]
    <3> DEFINE j == k - 1
    <3>1. j \in 0 .. N - 1 /\ j \in 0 .. N /\ j + 1 = k
      OBVIOUS
    <3>2. Good(j)
      <4> HIDE DEF Good, j
      <4> QED
        BY <1>4, <3>1
    <3>3. /\ p[j + 1].text = p[j].text \o ArrayPiece(child, j + 1, depth, fmt, deeper)
          /\ ArrayPiece(child, j + 1, depth, fmt, deeper) \in Strings
          /\ Len(ArrayPiece(child, j + 1, depth, fmt, deeper)) >= 1
      <4> HIDE DEF Good, j
      <4> QED
        BY <1>2, <3>1, <3>2
    <3>4. t[k] = p[k].text /\ t[j] = p[j].text /\ u[k] = ArrayPiece(child, k, depth, fmt, deeper)
      <4> HIDE DEF j
      <4> QED
        BY <3>1
    <3> HIDE DEF t, u
    <3> QED
      BY <3>1, <3>3, <3>4
  <2> HIDE DEF t, u
  <2> QED
    BY <2>1, <2>2 DEF IsChain
<1>6. t[0] = <<OpenBracket>> /\ t[N] = p[N].text
  <2>1. p[0].text = <<OpenBracket>>
    BY <1>1 DEF IsArraying, Out
  <2> QED
    BY <2>1
<1>7. IsPart(x) /\ x.text = p[N].text \o <<CloseBracket>> /\ Len(x.text) = Len(p[N].text) + 1
  <2>1. <<CloseBracket>> \in Strings /\ Len(<<CloseBracket>>) = 1
    BY OneChar DEF CloseBracket
  <2>2. Partial(p[N]) /\ Len(p[N].text) + 4 <= p[N].room
    BY <1>4
  <2>3. Len(p[N].text) \in Nat /\ p[N].room \in Nat
    BY <2>2 DEF Partial, Strings
  <2>4. Len(p[N].text) + Len(<<CloseBracket>>) < p[N].room
    <3> DEFINE a == Len(p[N].text)
               r == p[N].room
    <3>1. a \in Nat /\ r \in Nat /\ a + 4 <= r
      BY <2>2, <2>3
    <3> HIDE DEF a, r
    <3>2. a + 1 < r
      BY <3>1
    <3> QED
      BY <2>1, <3>2 DEF a, r
  <2> HIDE DEF N
  <2> QED
    BY <1>1, <2>1, <2>2, <2>4, Ended
<1>8. \A k \in 1 .. N : u[k] = ArrayPiece(child, k, depth, fmt, deeper)
  OBVIOUS
<1> HIDE DEF t, u
<1>9. IsArrayText(x, child, depth, fmt, deeper, t, u)
  BY <1>5, <1>6, <1>7, <1>8 DEF IsArrayText
<1> QED
  BY <1>7, <1>9

(* The character at which a text stands is its first.                        *)
LEMMA FirstChar ==
  ASSUME NEW text \in Strings, NEW at \in Nat \ {0}, NEW s \in Strings, Len(s) >= 1,
         Starts(text, at, s)
  PROVE  Char(text, at) = s[1] /\ at + Len(s) - 1 <= Len(text) /\ at <= Len(text)
<1>1. Len(s) \in Nat /\ 1 \in DOMAIN s /\ at + 1 - 1 = at /\ Len(text) \in Nat
  BY DEF Strings
<1>2. Char(text, at + 1 - 1) = s[1]
  BY <1>1 DEF Starts
<1>3. s # <<>>
  BY <1>1
<1>4. at + Len(s) - 1 <= Len(text)
  BY <1>3, StartsInside
<1> QED
  BY <1>1, <1>2, <1>4

(* So it is of a text of one character.                                      *)
LEMMA OneStands ==
  ASSUME NEW chr \in 1 .. 255, NEW text \in Strings, NEW at \in Nat \ {0}, Starts(text, at, <<chr>>)
  PROVE  Char(text, at) = chr
<1> DEFINE a == <<chr>>
<1>1. a \in Strings /\ Len(a) = 1 /\ a[1] = chr
  BY OneChar
<1>2. Starts(text, at, a)
  OBVIOUS
<1> HIDE DEF a
<1>3. Len(a) >= 1
  BY <1>1
<1>4. Char(text, at) = a[1]
  BY <1>1, <1>2, <1>3, FirstChar
<1> QED
  BY <1>1, <1>4

(* How a value that was printed is read one level down.                      *)
ReadsBelow(text, at, below, e, item) ==
  \A pos \in at + 1 .. Len(text) :
    Starts(text, pos, e.text) /\ Char(text, pos + Len(e.text)) \notin Digits =>
      below[pos] = Read(item, pos + Len(e.text))

(* Each child is printed well, and an array or object is read back from the  *)
(* text printed for it.                                                      *)
ChildrenPrinted(child, depth, deeper) ==
  \A k \in 1 .. Len(child) : IsValueText(deeper[child[k]][depth + 1])

ListReadBack(kind, child, x, text, at, below) ==
  Container(text, at, kind, below) = Read(Item(kind, <<>>, 0, child), at + Len(x.text))

ElementsRead(child, depth, deeper, text, at, below) ==
  \A k \in 1 .. Len(child) :
    ReadsBelow(text, at, below, deeper[child[k]][depth + 1], child[k])

(* An array that is not empty is read back, when its children are.           *)
LEMMA ArrayRead ==
  ASSUME NEW S, NEW child \in Seq(S), child # <<>>, NEW depth \in Nat, NEW fmt \in BOOLEAN, NEW deeper,
         ChildrenPrinted(child, depth, deeper),
         NEW x, x = print_array(child, depth, fmt, deeper),
         NEW text \in Strings, NEW at \in Nat \ {0}, Starts(text, at, x.text), NEW below,
         ElementsRead(child, depth, deeper, text, at, below)
  PROVE  ListReadBack("array", child, x, text, at, below)
<1> USE DEF ChildrenPrinted, ElementsRead, ListReadBack
<1> DEFINE N == Len(child)
           e(k) == deeper[child[k]][depth + 1]
<1>0. N \in Nat /\ N >= 1 /\ N # 0 /\ Len(text) \in Nat
  BY DEF Strings
<1> PICK t, u : IsArrayText(x, child, depth, fmt, deeper, t, u)
  BY <1>0, ArrayPrinted
<1>1. /\ IsChain(N, t, u) /\ t[0] = <<OpenBracket>>
      /\ \A k \in 1 .. N : u[k] = ArrayPiece(child, k, depth, fmt, deeper)
      /\ x.text = t[N] \o <<CloseBracket>>
      /\ Len(x.text) = Len(t[N]) + 1
  BY DEF IsArrayText
<1>2. <<CloseBracket>> \in Strings /\ <<OpenBracket>> \in Strings /\ <<Comma>> \in Strings
      /\ Len(<<CloseBracket>>) = 1 /\ Len(<<OpenBracket>>) = 1 /\ Len(<<Comma>>) = 1
      /\ CloseBracket \in 1 .. 255 /\ Comma \in 1 .. 255
  BY OneChar DEF CloseBracket, OpenBracket, Comma
<1>3. t[N] \in Strings
  BY <1>0, <1>1 DEF IsChain
<1>4. Starts(text, at, t[N]) /\ Starts(text, at + Len(t[N]), <<CloseBracket>>)
  <2>1. Starts(text, at, t[N] \o <<CloseBracket>>)
    BY <1>1
  <2> QED
    BY <1>2, <1>3, <2>1, StartsJoined
<1>5. /\ \A k \in 1 .. N : /\ Starts(text, at + Len(t[k - 1]), u[k])
                           /\ Len(t[k]) = Len(t[k - 1]) + Len(u[k])
      /\ \A k \in 0 .. N : Len(t[k]) \in Nat /\ Len(t[k]) >= Len(t[0]) + k
  <2>1. ChainStands(N, t, u, text, at)
    BY <1>0, <1>1, <1>4, ChainStarts
  <2> QED
    BY <2>1 DEF ChainStands
<1> DEFINE start == [k \in 1 .. N |-> at + Len(t[k - 1])]
           stop == [k \in 1 .. N |-> at + Len(t[k - 1]) + Len(e(k).text)]
<1>6. ASSUME NEW k \in 1 .. N
      PROVE  /\ start[k] \in at + 1 .. Len(text) /\ stop[k] \in Nat \ {0}
             /\ start[k] = at + Len(t[k - 1]) /\ stop[k] = start[k] + Len(e(k).text)
             /\ Starts(text, start[k], e(k).text)
             /\ Starts(text, stop[k], ArrayBehind(k, N, fmt))
             /\ at + Len(t[k]) = stop[k] + Len(ArrayBehind(k, N, fmt))
             /\ Char(text, start[k]) > Space /\ Char(text, start[k]) # CloseBracket
  <2> DEFINE v == e(k).text
             b == ArrayBehind(k, N, fmt)
             l == Len(t[k - 1])
  <2>1. IsValueText(e(k))
    OBVIOUS
  <2>2. v \in Strings /\ Len(v) \in Nat /\ Len(v) >= 1 /\ v[1] > Space /\ v[1] # CloseBracket
    BY <2>1 DEF IsValueText, IsPart
  <2>3. b \in Strings /\ Len(b) \in Nat
    <3>1. b \in Strings
      BY ArrayBehindIs
    <3> QED
      BY <3>1 DEF Strings
  <2>4. u[k] = v \o b
    BY <1>1 DEF ArrayPiece
  <2>5. Starts(text, at + l, v \o b) /\ Len(t[k]) = l + Len(v \o b)
    BY <1>5, <2>4
  <2>6. l \in Nat /\ l >= 1
    <3>1. k - 1 \in 0 .. N /\ Len(t[0]) = 1
      BY <1>1, <1>2
    <3> DEFINE i == k - 1
    <3>2. i \in 0 .. N /\ i \in Nat
      BY <3>1
    <3> HIDE DEF i
    <3>3. Len(t[i]) \in Nat /\ Len(t[i]) >= Len(t[0]) + i
      BY <1>5, <3>2
    <3>4. Len(t[i]) >= 1
      BY <3>1, <3>2, <3>3
    <3> QED
      BY <3>3, <3>4 DEF i
  <2>7. start[k] = at + l /\ stop[k] = at + l + Len(v)
    OBVIOUS
  <2> HIDE DEF v, b, l, start, stop
  <2>8. at + l \in Nat \ {0} /\ at + l + Len(v) \in Nat \ {0}
    BY <2>2, <2>6
  <2>9. Starts(text, at + l, v) /\ Starts(text, at + l + Len(v), b)
    BY <2>2, <2>3, <2>5, <2>8, StartsJoined
  <2>10. Len(v \o b) = Len(v) + Len(b)
    BY <2>2, <2>3, StringsJoined
  <2>11. Char(text, at + l) = v[1] /\ at + l <= Len(text)
    BY <2>2, <2>8, <2>9, FirstChar
  <2>12. at + Len(t[k]) = at + l + Len(v) + Len(b)
    <3> DEFINE p == Len(v)
               q == Len(b)
               r == Len(t[k])
    <3>1. r = l + (p + q) /\ p \in Nat /\ q \in Nat /\ l \in Nat
      BY <2>2, <2>3, <2>5, <2>6, <2>10
    <3> HIDE DEF p, q, r
    <3>2. at + r = at + l + p + q
      BY <3>1
    <3> QED
      BY <3>2 DEF p, q, r
  <2>13. at + l \in at + 1 .. Len(text)
    BY <1>0, <2>6, <2>11
  <2>14. /\ start[k] \in at + 1 .. Len(text) /\ stop[k] \in Nat \ {0}
         /\ Starts(text, start[k], v) /\ Starts(text, stop[k], b)
    BY <2>7, <2>8, <2>9, <2>13
  <2>15. /\ at + Len(t[k]) = stop[k] + Len(b)
         /\ Char(text, start[k]) > Space /\ Char(text, start[k]) # CloseBracket
    BY <2>2, <2>7, <2>11, <2>12
  <2>16. start[k] = at + l /\ stop[k] = start[k] + Len(v)
    BY <2>7
  <2> QED
    BY <2>14, <2>15, <2>16 DEF v, b, l
<1>7. /\ start[1] = at + 1 /\ stop[N] = at + Len(t[N])
      /\ \A k \in 1 .. N - 1 : start[k + 1] = at + Len(t[k])
  <2>1. start[1] = at + 1
    <3>1. 1 \in 1 .. N /\ 1 - 1 = 0
      BY <1>0
    <3>2. start[1] = at + Len(t[0])
      BY <3>1
    <3> QED
      BY <1>1, <1>2, <3>2
  <2>2. stop[N] = at + Len(t[N])
    <3>1. ArrayBehind(N, N, fmt) = <<>> /\ Len(<<>>) = 0
      BY DEF ArrayBehind
    <3>2. at + Len(t[N]) = stop[N] + 0 /\ stop[N] \in Nat
      <4> HIDE DEF N, start, stop
      <4> QED
        BY <1>0, <1>6, <3>1
    <3> HIDE DEF stop
    <3> QED
      BY <3>2
  <2>3. ASSUME NEW k \in 1 .. N - 1 PROVE start[k + 1] = at + Len(t[k])
    <3>1. k + 1 \in 1 .. N /\ (k + 1) - 1 = k
      BY <1>0
    <3> QED
      BY <3>1
  <2> QED
    BY <2>1, <2>2, <2>3
<1>8. ASSUME NEW k \in 1 .. N
      PROVE  ChildAt(text, start[k], "array", below) = Read(child[k], stop[k])
  <2>1. Char(text, stop[k]) \notin Digits
    <3>1. CASE k = N
      <4>1. Char(text, stop[k]) = CloseBracket
        <5>1. Starts(text, stop[k], <<CloseBracket>>)
          BY <1>4, <1>7, <3>1
        <5>2. stop[k] \in Nat \ {0}
          <6> HIDE DEF start, stop
          <6> QED
            BY <1>6
        <5> HIDE DEF stop
        <5> QED
          BY <1>2, <5>1, <5>2, OneStands
      <4> HIDE DEF stop
      <4> QED
        BY <4>1 DEF CloseBracket, Digits, DigitZero
    <3>2. CASE k # N
      <4>1. ArrayBehind(k, N, fmt) = <<Comma>> \o If(fmt, <<Space>>)
        BY <3>2 DEF ArrayBehind
      <4>2. If(fmt, <<Space>>) \in Strings
        BY NoText, OneChar DEF If, Space
      <4>3. stop[k] \in Nat \ {0} /\ Starts(text, stop[k], <<Comma>> \o If(fmt, <<Space>>))
        <5> HIDE DEF stop, start, N
        <5> QED
          BY <1>6, <4>1
      <4>4. Starts(text, stop[k], <<Comma>>)
        <5> HIDE DEF stop
        <5> QED
          BY <1>2, <4>2, <4>3, StartsJoined
      <4>5. Char(text, stop[k]) = Comma
        <5> HIDE DEF stop
        <5> QED
          BY <1>2, <4>3, <4>4, OneStands
      <4> HIDE DEF stop
      <4> QED
        BY <4>5 DEF Comma, Digits, DigitZero
    <3> QED
      BY <3>1, <3>2
  <2>2. /\ start[k] \in at + 1 .. Len(text) /\ Starts(text, start[k], e(k).text)
        /\ stop[k] = start[k] + Len(e(k).text)
    <3> HIDE DEF start, stop, N
    <3> QED
      BY <1>6
  <2>3. ReadsBelow(text, at, below, e(k), child[k])
    OBVIOUS
  <2> HIDE DEF start, stop, e
  <2>4. below[start[k]] = Read(child[k], stop[k])
    BY <2>1, <2>2, <2>3 DEF ReadsBelow
  <2> QED
    BY <2>4 DEF ChildAt
<1>9. ASSUME NEW k \in 1 .. N - 1
      PROVE  /\ Char(text, skip(text, stop[k])) = Comma
             /\ skip(text, skip(text, stop[k]) + 1) = start[k + 1]
  <2> DEFINE s == stop[k]
             b == If(fmt, <<Space>>)
  <2>1. ArrayBehind(k, N, fmt) = <<Comma>> \o b /\ k \in 1 .. N /\ k + 1 \in 1 .. N
    <3>1. k # N /\ k \in 1 .. N /\ k + 1 \in 1 .. N
      BY <1>0
    <3> QED
      BY <3>1 DEF ArrayBehind
  <2>2. b \in Strings /\ Blank(b) /\ Len(b) \in Nat
    <3>1. <<Space>> \in Strings /\ <<>> \in Strings /\ Len(<<Space>>) = 1 /\ Len(<<>>) = 0
      BY NoText, OneChar DEF Space
    <3>2. Blank(<<Space>>) /\ Blank(<<>>)
      BY <3>1 DEF Blank, Space
    <3> QED
      BY <3>1, <3>2 DEF If
  <2>3. /\ s \in Nat \ {0} /\ Starts(text, s, <<Comma>> \o b)
        /\ at + Len(t[k]) = s + Len(<<Comma>> \o b)
        /\ Char(text, start[k + 1]) > Space
    <3> HIDE DEF start, stop, N
    <3> QED
      BY <1>6, <2>1
  <2>4. start[k + 1] = at + Len(t[k])
    BY <1>7
  <2> HIDE DEF s, b, start, stop
  <2>5. Starts(text, s, <<Comma>>) /\ Starts(text, s + 1, b)
    <3>1. Starts(text, s + Len(<<Comma>>), b) /\ Starts(text, s, <<Comma>>)
      BY <1>2, <2>2, <2>3, StartsJoined
    <3> QED
      BY <1>2, <3>1
  <2>6. Char(text, s) = Comma
    BY <1>2, <2>3, <2>5, OneStands
  <2>7. skip(text, s) = s
    <3>1. Char(text, s) > Space
      BY <2>6 DEF Comma, Space
    <3> QED
      BY <2>3, <3>1, SkipNone
  <2>8. start[k + 1] = s + 1 + Len(b)
    <3>1. Len(<<Comma>> \o b) = 1 + Len(b)
      BY <1>2, <2>2, StringsJoined
    <3> QED
      BY <2>2, <2>3, <2>4, <3>1
  <2>9. skip(text, s + 1) = s + 1 + Len(b)
    <3>1. s + 1 \in Nat \ {0} /\ Char(text, s + 1 + Len(b)) > Space
      BY <2>3, <2>8
    <3> QED
      BY <2>2, <2>5, <3>1, SkipBlank
  <2> QED
    BY <2>6, <2>7, <2>8, <2>9 DEF s
<1>10. skip(text, stop[N]) = stop[N] /\ Char(text, stop[N]) = CloseBracket
  <2>1. stop[N] \in Nat \ {0} /\ Starts(text, stop[N], <<CloseBracket>>)
    <3>1. N \in 1 .. N
      BY <1>0
    <3>2. stop[N] \in Nat \ {0}
      <4> HIDE DEF start, stop, N
      <4> QED
        BY <1>6, <3>1
    <3> HIDE DEF stop
    <3> QED
      BY <1>4, <1>7, <3>2
  <2> HIDE DEF stop
  <2>2. Char(text, stop[N]) = CloseBracket
    BY <1>2, <2>1, OneStands
  <2>3. Char(text, stop[N]) > Space
    BY <2>2 DEF CloseBracket, Space
  <2> QED
    BY <2>1, <2>2, <2>3, SkipNone
<1> HIDE DEF start, stop
<1>11. IsListed(child, text, "array", below, start, stop)
  <2>1. ASSUME NEW k \in 1 .. N PROVE start[k] \in 1 .. Len(text) + 1
    <3>1. start[k] \in at + 1 .. Len(text)
      BY <1>6
    <3> QED
      BY <1>0, <3>1
  <2>2. CloseOf("array") = CloseBracket
    BY DEF CloseOf
  <2> QED
    BY <1>8, <1>9, <1>10, <2>1, <2>2 DEF IsListed
<1>12. N \in 1 .. Len(text) + 1
  <2>1. Len(t[N]) \in Nat /\ Len(t[N]) >= 1 + N
    <3>1. N \in 0 .. N /\ Len(t[0]) = 1
      BY <1>0, <1>1, <1>2
    <3> HIDE DEF N
    <3> QED
      BY <1>5, <3>1
  <2>2. at + Len(t[N]) - 1 <= Len(text)
    <3>1. Len(t[N]) >= 1
      BY <1>0, <2>1
    <3> QED
      BY <1>3, <1>4, <3>1, FirstChar
  <2> QED
    BY <1>0, <2>1, <2>2
<1>13. Children(text, start[1], "array", below) = ReadList(child, stop[N] + 1)
  <2>1. Children(text, start[1], "array", below)
          = ReadList(child, skip(text, stop[Len(child)]) + 1)
    BY <1>11, <1>12, ListRead
  <2> QED
    BY <1>10, <2>1
<1>14. start[1] = skip(text, at + 1) /\ Char(text, start[1]) # CloseOf("array")
  <2>1. 1 \in 1 .. N
    BY <1>0
  <2>2. Char(text, start[1]) > Space /\ Char(text, start[1]) # CloseBracket
    <3> HIDE DEF N
    <3> QED
      BY <1>6, <2>1
  <2>3. at + 1 \in Nat \ {0} /\ Char(text, at + 1) > Space
    BY <1>7, <2>2
  <2>4. skip(text, at + 1) = at + 1
    BY <2>3, SkipNone
  <2> QED
    BY <1>7, <2>2, <2>4 DEF CloseOf
<1>15. stop[N] + 1 = at + Len(x.text)
  BY <1>1, <1>3, <1>7 DEF Strings
<1> QED
  BY <1>13, <1>14, <1>15, ContainerRead

----------------------------------------------------------------------------
(* cJSON.c. An object is printed inside its room, and read back.             *)
(* White space behind white space is white space.                            *)
LEMMA BlankJoined ==
  ASSUME NEW a, Blank(a), NEW b, Blank(b)
  PROVE  Blank(a \o b) /\ Len(a \o b) = Len(a) + Len(b)
<1>1. /\ a \in Strings /\ \A i \in 1 .. Len(a) : a[i] \in 1 .. Space
      /\ b \in Strings /\ \A i \in 1 .. Len(b) : b[i] \in 1 .. Space
  BY DEF Blank
<1>2. /\ a \o b \in Strings /\ Len(a \o b) = Len(a) + Len(b)
      /\ \A i \in 1 .. Len(a) : (a \o b)[i] = a[i]
      /\ \A i \in 1 .. Len(b) : (a \o b)[Len(a) + i] = b[i]
      /\ Len(a) \in Nat /\ Len(b) \in Nat
  BY <1>1, JoinedStrings
<1>3. ASSUME NEW i \in 1 .. Len(a \o b) PROVE (a \o b)[i] \in 1 .. Space
  <2>1. CASE i <= Len(a)
    <3>1. i \in 1 .. Len(a)
      BY <1>2, <2>1
    <3> QED
      BY <1>1, <1>2, <3>1
  <2>2. CASE i > Len(a)
    <3>1. i - Len(a) \in 1 .. Len(b) /\ Len(a) + (i - Len(a)) = i
      BY <1>2, <2>2
    <3>2. (a \o b)[Len(a) + (i - Len(a))] = b[i - Len(a)]
      BY <1>2, <3>1
    <3> QED
      BY <1>1, <3>1, <3>2
  <2> QED
    BY <1>2, <2>1, <2>2
<1> QED
  BY <1>2, <1>3 DEF Blank

(* Tabs are white space.                                                     *)
LEMMA TabsAre ==
  ASSUME NEW n \in Int
  PROVE  Blank(Tabs(n)) /\ Len(Tabs(n)) = (IF n < 0 THEN 0 ELSE n)
<1>1. CASE n < 0
  <2>1. Tabs(n) = <<>>
    BY <1>1 DEF Tabs
  <2> QED
    BY <1>1, <2>1, NoText DEF Blank
<1>2. CASE ~ (n < 0)
  <2>1. n \in Nat /\ Tabs(n) = [i \in 1 .. n |-> Tab]
    BY <1>2 DEF Tabs
  <2>2. Tab \in 1 .. 255 /\ Tab \in 1 .. Space
    BY DEF Tab, Space
  <2>3. Tabs(n) \in Strings /\ Len(Tabs(n)) = n
    BY <2>1, <2>2 DEF Strings
  <2>4. \A i \in 1 .. n : Tabs(n)[i] \in 1 .. Space
    BY <2>1, <2>2
  <2> QED
    BY <1>2, <2>3, <2>4 DEF Blank
<1> QED
  BY <1>1, <1>2

(* The empty text and the characters up to a space are white space.          *)
LEMMA BlankChars ==
  /\ Blank(<<>>) /\ Len(<<>>) = 0
  /\ \A chr \in 1 .. Space : Blank(<<chr>>) /\ Len(<<chr>>) = 1
<1>1. ASSUME NEW chr \in 1 .. Space PROVE Blank(<<chr>>) /\ Len(<<chr>>) = 1
  <2>1. chr \in 1 .. 255
    BY DEF Space
  <2>2. <<chr>> \in Strings /\ Len(<<chr>>) = 1
    BY <2>1, OneChar
  <2> QED
    BY <2>2 DEF Blank
<1> QED
  BY <1>1, NoText DEF Blank

(* The parts of a member: what stands before its name, between name and      *)
(* value, and behind the value.                                              *)
Indent(depth, fmt) == If(fmt, Tabs(depth + 1))
Between(fmt) == <<Colon>> \o If(fmt, <<Tab>>)
Feed(fmt) == If(fmt, <<LineFeed>>)
MemberBehind(k, N, fmt) == (IF k = N THEN <<>> ELSE <<Comma>>) \o Feed(fmt)

(* What is printed around a member, and how long it is.                      *)
LEMMA MemberParts ==
  ASSUME NEW depth \in Nat, NEW fmt \in BOOLEAN
  PROVE  /\ Blank(Indent(depth, fmt)) /\ Len(Indent(depth, fmt)) = (IF fmt THEN depth + 1 ELSE 0)
         /\ Blank(If(fmt, Tabs(depth))) /\ Len(If(fmt, Tabs(depth))) = (IF fmt THEN depth ELSE 0)
         /\ Blank(If(fmt, <<Tab>>)) /\ Len(If(fmt, <<Tab>>)) = (IF fmt THEN 1 ELSE 0)
         /\ Blank(Feed(fmt)) /\ Len(Feed(fmt)) = (IF fmt THEN 1 ELSE 0)
         /\ Between(fmt) \in Strings /\ Len(Between(fmt)) = (IF fmt THEN 2 ELSE 1)
         /\ \A k, N : /\ MemberBehind(k, N, fmt) \in Strings
                      /\ Len(MemberBehind(k, N, fmt)) \in 0 .. (IF fmt THEN 2 ELSE 1)
<1>1. /\ Blank(Tabs(depth + 1)) /\ Len(Tabs(depth + 1)) = depth + 1
      /\ Blank(Tabs(depth)) /\ Len(Tabs(depth)) = depth
  <2>1. depth + 1 \in Int /\ ~ (depth + 1 < 0) /\ depth \in Int /\ ~ (depth < 0)
    OBVIOUS
  <2> QED
    BY <2>1, TabsAre
<1>2. /\ Blank(<<Tab>>) /\ Len(<<Tab>>) = 1 /\ Blank(<<LineFeed>>) /\ Len(<<LineFeed>>) = 1
      /\ Blank(<<>>) /\ Len(<<>>) = 0
  <2>1. Tab \in 1 .. Space /\ LineFeed \in 1 .. Space
    BY DEF Tab, Space, LineFeed
  <2> QED
    BY <2>1, BlankChars
<1>3. /\ Blank(Indent(depth, fmt)) /\ Len(Indent(depth, fmt)) = (IF fmt THEN depth + 1 ELSE 0)
  BY <1>1, <1>2 DEF Indent, If
<1>4. Blank(If(fmt, Tabs(depth))) /\ Len(If(fmt, Tabs(depth))) = (IF fmt THEN depth ELSE 0)
  BY <1>1, <1>2 DEF If
<1>5. Blank(If(fmt, <<Tab>>)) /\ Len(If(fmt, <<Tab>>)) = (IF fmt THEN 1 ELSE 0)
  BY <1>2 DEF If
<1>6. Blank(Feed(fmt)) /\ Len(Feed(fmt)) = (IF fmt THEN 1 ELSE 0)
  BY <1>2 DEF If, Feed
<1>7. <<Colon>> \in Strings /\ Len(<<Colon>>) = 1 /\ <<Comma>> \in Strings /\ Len(<<Comma>>) = 1
  BY OneChar DEF Colon, Comma
<1>8. Between(fmt) \in Strings /\ Len(Between(fmt)) = (IF fmt THEN 2 ELSE 1)
  <2> DEFINE b == If(fmt, <<Tab>>)
  <2>1. b \in Strings /\ Len(b) = (IF fmt THEN 1 ELSE 0)
    BY <1>5 DEF Blank
  <2>2. Between(fmt) = <<Colon>> \o b
    BY DEF Between
  <2> HIDE DEF b
  <2>3. Between(fmt) \in Strings /\ Len(Between(fmt)) = 1 + Len(b)
    BY <1>7, <2>1, <2>2, StringsJoined
  <2> QED
    BY <2>1, <2>3
<1>9. ASSUME NEW k, NEW N
      PROVE  /\ MemberBehind(k, N, fmt) \in Strings
             /\ Len(MemberBehind(k, N, fmt)) \in 0 .. (IF fmt THEN 2 ELSE 1)
  <2> DEFINE a == IF k = N THEN <<>> ELSE <<Comma>>
             b == Feed(fmt)
  <2>1. b \in Strings /\ Len(b) = (IF fmt THEN 1 ELSE 0)
    BY <1>6 DEF Blank
  <2>2. a \in Strings /\ Len(a) \in 0 .. 1
    BY <1>7, NoText
  <2>3. MemberBehind(k, N, fmt) = a \o b
    BY DEF MemberBehind
  <2> HIDE DEF a, b
  <2>4. MemberBehind(k, N, fmt) \in Strings /\ Len(MemberBehind(k, N, fmt)) = Len(a) + Len(b)
    BY <2>1, <2>2, <2>3, StringsJoined
  <2> DEFINE x == Len(a)
             y == Len(b)
             z == Len(MemberBehind(k, N, fmt))
  <2>5. x \in 0 .. 1 /\ y = (IF fmt THEN 1 ELSE 0) /\ z = x + y
    BY <2>1, <2>2, <2>4
  <2> HIDE DEF x, y, z
  <2>6. z \in 0 .. (IF fmt THEN 2 ELSE 1)
    BY ONLY <2>5, fmt \in BOOLEAN
  <2> QED
    BY <2>4, <2>6 DEF z
<1> QED
  BY <1>3, <1>4, <1>5, <1>6, <1>8, <1>9

(* A printed name fits, and is not empty.                                    *)
LEMMA NamePart ==
  ASSUME NEW s \in Strings
  PROVE  /\ IsPart(print_string_ptr(s)) /\ Len(print_string_ptr(s).text) \in Nat
         /\ Len(print_string_ptr(s).text) >= 1
<1>1. /\ print_string_ptr(s).text \in Strings /\ print_string_ptr(s).fits = TRUE
      /\ \E p : /\ p[Len(s)].text \in Strings
               /\ Len(print_string_ptr(s).text) = Len(p[Len(s)].text) + 1
  BY StringPrinted
<1> QED
  BY <1>1 DEF IsPart, Strings

(* The loop of print_object.                                                 *)
ObjectStep(out, name, entry, k, N, depth, fmt) == PrintMember(out, name, entry, depth, fmt, k = N)

IsObjecting(child, depth, fmt, deeper, p) ==
  /\ p[0] = Out(<<OpenBrace>> \o Feed(fmt), 7 + (IF fmt THEN depth + 1 ELSE 0))
  /\ \A k \in 1 .. Len(child) :
       p[k] = ObjectStep(p[k - 1], print_string_ptr(child[k].string),
                         deeper[child[k]][depth + 1], k, Len(child), depth, fmt)

(* The loop of print_object has its texts, one for each member.              *)
LEMMA ObjectingExists ==
  ASSUME NEW child, Len(child) \in Nat, child # <<>>, NEW depth, NEW fmt, NEW deeper
  PROVE  \E p : /\ IsObjecting(child, depth, fmt, deeper, p)
                /\ print_object(child, depth, fmt, deeper)
                     = End(p[Len(child)], If(fmt, Tabs(depth)) \o <<CloseBrace>>)
<1> DEFINE N == Len(child)
           Z == Out(<<OpenBrace>> \o Feed(fmt), 7 + (IF fmt THEN depth + 1 ELSE 0))
<1> DEFINE F(g, k) == IF k = 0 THEN Z ELSE ObjectStep(g[k - 1], print_string_ptr(child[k].string), deeper[child[k]][depth + 1], k, N, depth, fmt)
           T == {m \in 0 .. N : \E g : g = [k \in 0 .. m |-> F(g, k)]}
           r == CHOOSE g : g = [k \in 0 .. N |-> F(g, k)]
<1>1. 0 \in T
  <2> DEFINE g == [k \in 0 .. 0 |-> Z]
  <2>1. g = [k \in 0 .. 0 |-> F(g, k)]
    OBVIOUS
  <2> HIDE DEF g, F
  <2> QED
    BY <2>1
<1>2. ASSUME NEW m \in 0 .. N - 1, m \in T PROVE m + 1 \in T
  <2>1. PICK g : g = [k \in 0 .. m |-> F(g, k)]
    BY <1>2
  <2> DEFINE h == [k \in 0 .. m + 1 |-> F(g, k)]
  <2>2. ASSUME NEW k \in 0 .. m + 1 PROVE F(g, k) = F(h, k)
    <3>1. k # 0 => g[k - 1] = h[k - 1]
      <4> HIDE DEF F
      <4> QED
        BY <2>1
    <3> HIDE DEF h
    <3> QED
      BY <3>1
  <2>3. h = [k \in 0 .. m + 1 |-> F(h, k)]
    BY <2>2
  <2> HIDE DEF h, F
  <2> QED
    BY <2>3
<1>3. N \in T
  <2>0. N \in Nat
    OBVIOUS
  <2>1. \A m \in 0 .. N - 1 : m \in T => m + 1 \in T
    BY <1>2
  <2> HIDE DEF T
  <2>2. \A m \in 0 .. N : m \in T
    BY <1>1, <2>0, <2>1, UpTo
  <2> QED
    BY <2>2
<1>4. r = [k \in 0 .. N |-> F(r, k)]
  <2> HIDE DEF F
  <2> QED
    BY <1>3
<1>5. print_object(child, depth, fmt, deeper) = End(r[N], If(fmt, Tabs(depth)) \o <<CloseBrace>>)
  BY DEF print_object, ObjectStep, Feed
<1> HIDE DEF r
<1>6. IsObjecting(child, depth, fmt, deeper, r)
  <2>1. \A k \in 0 .. N : r[k] = F(r, k)
    <3> HIDE DEF F
    <3> QED
      BY <1>4
  <2>2. r[0] = F(r, 0) /\ \A k \in 1 .. N : r[k] = F(r, k)
    <3> HIDE DEF F
    <3> QED
      BY <2>1
  <2> QED
    BY <2>2 DEF IsObjecting
<1> QED
  BY <1>5, <1>6

(* One member of a printed object.                                           *)
MemberPiece(name, entry, k, N, depth, fmt) ==
  ((Indent(depth, fmt) \o name.text) \o Between(fmt)) \o (entry.text \o MemberBehind(k, N, fmt))

(* The room that is left, for the end of an object too.                      *)
HasRoom(out, depth, fmt) ==
  /\ Partial(out) /\ Len(out.text) \in Nat /\ out.room \in Nat
  /\ Len(out.text) + (IF fmt THEN depth ELSE 0) + 2 <= out.room

IsPrintedMember(next, out, name, entry, k, N, depth, fmt) ==
  /\ HasRoom(next, depth, fmt)
  /\ next.text = out.text \o MemberPiece(name, entry, k, N, depth, fmt)
  /\ MemberPiece(name, entry, k, N, depth, fmt) \in Strings
  /\ Len(MemberPiece(name, entry, k, N, depth, fmt)) >= 1

(* A member is printed into the room counted for it, which leaves that for   *)
(* the end.                                                                  *)
LEMMA MemberPrinted ==
  ASSUME NEW out, NEW depth \in Nat, NEW fmt \in BOOLEAN, HasRoom(out, depth, fmt),
         NEW name, IsPart(name), NEW entry, IsValueText(entry), NEW k, NEW N,
         NEW next, next = ObjectStep(out, name, entry, k, N, depth, fmt)
  PROVE  IsPrintedMember(next, out, name, entry, k, N, depth, fmt)
<1> DEFINE a == Indent(depth, fmt)
           b == Between(fmt)
           chr == MemberBehind(k, N, fmt)
           roomA == Len(name.text) + 2 + (IF fmt THEN 3 + depth ELSE 0)
           mid == Add(out, a, name, b, roomA)
           none == <<>>
           X == (a \o name.text) \o b
           Y == (none \o entry.text) \o chr
<1>1. next = Add(mid, none, entry, chr, Len(entry.text))
  BY DEF ObjectStep, PrintMember, Indent, Between, MemberBehind, Feed
<1>2. /\ a \in Strings /\ Len(a) = (IF fmt THEN depth + 1 ELSE 0)
      /\ b \in Strings /\ Len(b) = (IF fmt THEN 2 ELSE 1)
      /\ chr \in Strings /\ Len(chr) \in 0 .. (IF fmt THEN 2 ELSE 1)
  BY MemberParts DEF Blank
<1>3. none \in Strings /\ Len(none) = 0
  BY NoText
<1>4. IsPart(entry) /\ entry.text \in Strings /\ Len(entry.text) \in Nat /\ Len(entry.text) >= 1
  BY DEF IsValueText, IsPart
<1>5. name.text \in Strings /\ Len(name.text) \in Nat
  BY DEF IsPart, Strings
<1>6. MemberPiece(name, entry, k, N, depth, fmt) = X \o (entry.text \o chr)
  BY DEF MemberPiece
<1>7. none \o entry.text = entry.text
  BY <1>4, JoinedNothing
<1>8. roomA \in Nat
  <2> DEFINE l == Len(name.text)
  <2>1. l \in Nat
    BY <1>5
  <2> HIDE DEF l
  <2>2. l + 2 + (IF fmt THEN 3 + depth ELSE 0) \in Nat
    BY <2>1
  <2> QED
    BY <2>2 DEF l
<1> HIDE DEF a, b, chr, none, mid
<1>9. Partial(out) /\ Len(out.text) \in Nat /\ out.room \in Nat
      /\ Len(out.text) + (IF fmt THEN depth ELSE 0) + 2 <= out.room
  BY DEF HasRoom
<1>10. IsAdded(mid, out, a, name, b, roomA)
  <2> DEFINE more == roomA
  <2>1. /\ Partial(out) /\ a \in Strings /\ IsPart(name) /\ b \in Strings
        /\ more \in Nat /\ mid = Add(out, a, name, b, more)
    BY <1>2, <1>8, <1>9 DEF mid
  <2> HIDE DEF more
  <2>2. IsAdded(mid, out, a, name, b, more)
    BY ONLY <2>1, Added
  <2> QED
    BY <2>2 DEF more
<1>11. IsAdded(next, mid, none, entry, chr, Len(entry.text))
  <2> DEFINE more == Len(entry.text)
  <2>1. /\ Partial(mid) /\ none \in Strings /\ IsPart(entry) /\ chr \in Strings
        /\ more \in Nat /\ next = Add(mid, none, entry, chr, more)
    BY <1>1, <1>2, <1>3, <1>4, <1>10 DEF IsAdded
  <2> HIDE DEF more
  <2>2. IsAdded(next, mid, none, entry, chr, more)
    BY ONLY <2>1, Added
  <2> QED
    BY <2>2 DEF more
<1>12. /\ mid.text = out.text \o X /\ X \in Strings
       /\ Len(X) = Len(a) + Len(name.text) + Len(b)
       /\ Len(mid.text) = Len(out.text) + Len(a) + Len(name.text) + Len(b)
       /\ mid.room = out.room + roomA
  BY <1>10 DEF IsAdded
<1>13. /\ Partial(next) /\ next.text = mid.text \o Y /\ Y \in Strings
       /\ Len(Y) = Len(none) + Len(entry.text) + Len(chr)
       /\ Len(next.text) = Len(mid.text) + Len(none) + Len(entry.text) + Len(chr)
       /\ next.room = mid.room + Len(entry.text)
  BY <1>11 DEF IsAdded
<1>14. next.text = out.text \o (X \o Y) /\ X \o Y \in Strings /\ Len(X \o Y) = Len(X) + Len(Y)
  <2>1. out.text \in Strings
    BY <1>9 DEF Partial
  <2> HIDE DEF X, Y
  <2>2. (out.text \o X) \o Y = out.text \o (X \o Y)
    BY <2>1, <1>12, <1>13, JoinedLeft
  <2>3. X \o Y \in Strings /\ Len(X \o Y) = Len(X) + Len(Y)
    BY <1>12, <1>13, StringsJoined
  <2> QED
    BY <1>12, <1>13, <2>2, <2>3
<1>15. MemberPiece(name, entry, k, N, depth, fmt) = X \o Y
  BY <1>6, <1>7
<1> DEFINE la == Len(a)
           ln == Len(name.text)
           lb == Len(b)
           le == Len(entry.text)
           lc == Len(chr)
           lo == Len(out.text)
           lx == Len(next.text)
           lp == Len(X \o Y)
           ro == out.room
           rx == next.room
<1>16. /\ la = (IF fmt THEN depth + 1 ELSE 0) /\ lb = (IF fmt THEN 2 ELSE 1)
       /\ lc \in 0 .. (IF fmt THEN 2 ELSE 1)
       /\ ln \in Nat /\ le \in Nat /\ le >= 1 /\ lo \in Nat /\ ro \in Nat
       /\ lo + (IF fmt THEN depth ELSE 0) + 2 <= ro
  BY <1>2, <1>4, <1>5, <1>9
<1>17. lx = (lo + la + ln + lb) + 0 + le + lc
  BY <1>3, <1>12, <1>13
<1>18. lp = (la + ln + lb) + (0 + le + lc)
  BY <1>3, <1>12, <1>13, <1>14
<1>19. rx = (ro + (ln + 2 + (IF fmt THEN 3 + depth ELSE 0))) + le
  BY <1>12, <1>13
<1> HIDE DEF X, Y, la, ln, lb, le, lc, lo, lx, lp, ro, rx
<1>20. lx + (IF fmt THEN depth ELSE 0) + 2 <= rx /\ lx \in Nat /\ rx \in Nat /\ lp >= 1
  <2>1. CASE fmt
    BY <1>16, <1>17, <1>18, <1>19, <2>1
  <2>2. CASE ~ fmt
    BY <1>16, <1>17, <1>18, <1>19, <2>2
  <2> QED
    BY <2>1, <2>2
<1>21. HasRoom(next, depth, fmt)
  BY <1>13, <1>20 DEF HasRoom, lx, rx
<1> QED
  BY <1>14, <1>15, <1>20, <1>21 DEF lp, IsPrintedMember

(* What print_object makes of an object that is not empty.                   *)
ObjectPiece(child, k, depth, fmt, deeper) ==
  MemberPiece(print_string_ptr(child[k].string), deeper[child[k]][depth + 1], k, Len(child), depth, fmt)

ObjectEnd(depth, fmt) == If(fmt, Tabs(depth)) \o <<CloseBrace>>

IsObjectText(x, child, depth, fmt, deeper, t, u) ==
  /\ IsChain(Len(child), t, u) /\ t[0] = <<OpenBrace>> \o Feed(fmt)
  /\ \A k \in 1 .. Len(child) : u[k] = ObjectPiece(child, k, depth, fmt, deeper)
  /\ x.text = t[Len(child)] \o ObjectEnd(depth, fmt)

(* An object that is not empty fits, and its text is a chain of its          *)
(* members'.                                                                 *)
LEMMA ObjectPrinted ==
  ASSUME NEW child, Len(child) \in Nat, child # <<>>, NEW depth \in Nat, NEW fmt \in BOOLEAN,
         NEW deeper, \A k \in 1 .. Len(child) : child[k].string \in Strings,
         \A k \in 1 .. Len(child) : IsValueText(deeper[child[k]][depth + 1]),
         NEW x, x = print_object(child, depth, fmt, deeper)
  PROVE  IsPart(x) /\ \E t, u : IsObjectText(x, child, depth, fmt, deeper, t, u)
<1> DEFINE N == Len(child)
           e(k) == deeper[child[k]][depth + 1]
           q(k) == print_string_ptr(child[k].string)
           Piece(k) == ObjectPiece(child, k, depth, fmt, deeper)
<1>1. PICK p : /\ IsObjecting(child, depth, fmt, deeper, p)
               /\ print_object(child, depth, fmt, deeper)
                    = End(p[N], If(fmt, Tabs(depth)) \o <<CloseBrace>>)
  BY ObjectingExists
<1> DEFINE Good(k) == HasRoom(p[k], depth, fmt)
           T == {k \in 0 .. N : Good(k)}
<1>2. ASSUME NEW k \in 0 .. N - 1, Good(k)
      PROVE  /\ Good(k + 1) /\ p[k + 1].text = p[k].text \o Piece(k + 1)
             /\ Piece(k + 1) \in Strings /\ Len(Piece(k + 1)) >= 1
  <2> DEFINE i == k + 1
             entry == e(i)
             name == q(i)
             next == p[i]
             out == p[k]
  <2>1. i \in 1 .. N /\ i - 1 = k
    OBVIOUS
  <2>2. next = ObjectStep(out, name, entry, i, N, depth, fmt)
    <3> HIDE DEF i
    <3>1. p[i] = ObjectStep(p[i - 1], name, entry, i, N, depth, fmt)
      BY <1>1, <2>1 DEF IsObjecting
    <3> QED
      BY <2>1, <3>1
  <2>3. IsValueText(entry) /\ child[i].string \in Strings
    <3> HIDE DEF i
    <3> QED
      BY <2>1
  <2>4. IsPart(name)
    BY <2>3, NamePart
  <2>5. Piece(i) = MemberPiece(name, entry, i, N, depth, fmt)
    BY DEF ObjectPiece
  <2>6. HasRoom(out, depth, fmt)
    BY <1>2
  <2> HIDE DEF entry, name, next, out, i, N, Piece
  <2>9. IsPrintedMember(next, out, name, entry, i, N, depth, fmt)
    BY <2>2, <2>3, <2>4, <2>6, MemberPrinted
  <2>7. /\ HasRoom(next, depth, fmt)
        /\ next.text = out.text \o MemberPiece(name, entry, i, N, depth, fmt)
        /\ MemberPiece(name, entry, i, N, depth, fmt) \in Strings
        /\ Len(MemberPiece(name, entry, i, N, depth, fmt)) >= 1
    BY <2>9 DEF IsPrintedMember
  <2>8. next.text = out.text \o Piece(i) /\ Piece(i) \in Strings /\ Len(Piece(i)) >= 1
    BY <2>5, <2>7
  <2> QED
    BY <2>7, <2>8 DEF next, out, i
<1>3. Good(0) /\ p[0].text = <<OpenBrace>> \o Feed(fmt)
  <2> DEFINE a == <<OpenBrace>> \o Feed(fmt)
             r == 7 + (IF fmt THEN depth + 1 ELSE 0)
  <2>1. p[0] = [text |-> a, room |-> r, fits |-> TRUE]
    BY <1>1 DEF IsObjecting, Out
  <2>2. <<OpenBrace>> \in Strings /\ Len(<<OpenBrace>>) = 1
    BY OneChar DEF OpenBrace
  <2>3. Feed(fmt) \in Strings /\ Len(Feed(fmt)) = (IF fmt THEN 1 ELSE 0)
    <3>1. Blank(Feed(fmt)) /\ Len(Feed(fmt)) = (IF fmt THEN 1 ELSE 0)
      BY MemberParts
    <3> QED
      BY <3>1 DEF Blank
  <2>4. a \in Strings /\ Len(a) = 1 + Len(Feed(fmt))
    BY <2>2, <2>3, StringsJoined
  <2>5. r \in Nat
    OBVIOUS
  <2>6. Len(a) \in Nat /\ Len(a) + (IF fmt THEN depth ELSE 0) + 2 <= r
    <3> DEFINE l == Len(a)
    <3>1. l = 1 + (IF fmt THEN 1 ELSE 0)
      BY <2>3, <2>4
    <3> HIDE DEF l, a
    <3>2. CASE fmt
      BY <3>1, <3>2 DEF l
    <3>3. CASE ~ fmt
      BY <3>1, <3>3 DEF l
    <3> QED
      BY <3>2, <3>3
  <2> HIDE DEF a, r
  <2>7. p[0].text = a /\ p[0].room = r /\ Partial(p[0])
    BY <2>1, <2>4, <2>5 DEF Partial
  <2>8. HasRoom(p[0], depth, fmt)
    BY <2>5, <2>6, <2>7 DEF HasRoom
  <2> QED
    BY <2>7, <2>8 DEF a
<1>4. \A k \in 0 .. N : Good(k)
  <2>1. 0 \in T
    <3> HIDE DEF Good
    <3> QED
      BY <1>3
  <2>2. \A k \in 0 .. N - 1 : k \in T => k + 1 \in T
    <3>1. ASSUME NEW k \in 0 .. N - 1, k \in T PROVE k + 1 \in T
      <4>1. Good(k + 1)
        <5> HIDE DEF Good
        <5> QED
          BY <1>2, <3>1
      <4> HIDE DEF Good
      <4> QED
        BY <4>1
    <3> QED
      BY <3>1
  <2>3. \A k \in 0 .. N : k \in T
    <3> HIDE DEF T
    <3> QED
      BY <2>1, <2>2, UpTo
  <2> HIDE DEF Good
  <2> QED
    BY <2>3
<1> DEFINE t == [k \in 0 .. N |-> p[k].text]
           u == [k \in 1 .. N |-> Piece(k)]
<1>5. IsChain(N, t, u)
  <2>1. ASSUME NEW k \in 0 .. N PROVE t[k] \in Strings
    <3>1. Good(k)
      <4> HIDE DEF Good
      <4> QED
        BY <1>4
    <3> QED
      BY <3>1 DEF HasRoom, Partial
  <2>2. ASSUME NEW k \in 1 .. N
        PROVE  u[k] \in Strings /\ Len(u[k]) >= 1 /\ t[k] = t[k - 1] \o u[k]
    <3> DEFINE j == k - 1
    <3>1. j \in 0 .. N - 1 /\ j \in 0 .. N /\ j + 1 = k
      OBVIOUS
    <3>2. Good(j)
      <4> HIDE DEF Good, j
      <4> QED
        BY <1>4, <3>1
    <3>3. /\ p[j + 1].text = p[j].text \o Piece(j + 1)
          /\ Piece(j + 1) \in Strings /\ Len(Piece(j + 1)) >= 1
      <4> HIDE DEF Good, j, Piece
      <4> QED
        BY <1>2, <3>1, <3>2
    <3>4. t[k] = p[k].text /\ t[j] = p[j].text /\ u[k] = Piece(k)
      <4> HIDE DEF j, Piece
      <4> QED
        BY <3>1
    <3> HIDE DEF t, u, Piece
    <3> QED
      BY <3>1, <3>3, <3>4
  <2> HIDE DEF t, u
  <2> QED
    BY <2>1, <2>2 DEF IsChain
<1>6. t[0] = <<OpenBrace>> \o Feed(fmt) /\ t[N] = p[N].text
  BY <1>3
<1>7. IsPart(x) /\ x.text = p[N].text \o ObjectEnd(depth, fmt)
  <2> DEFINE b == If(fmt, Tabs(depth))
             end == b \o <<CloseBrace>>
             a == Len(p[N].text)
             r == p[N].room
  <2>1. <<CloseBrace>> \in Strings /\ Len(<<CloseBrace>>) = 1
    BY OneChar DEF CloseBrace
  <2>2. Good(N)
    <3> HIDE DEF Good
    <3> QED
      BY <1>4
  <2>3. Partial(p[N]) /\ a \in Nat /\ r \in Nat /\ a + (IF fmt THEN depth ELSE 0) + 2 <= r
    BY <2>2 DEF HasRoom
  <2>4. b \in Strings /\ Len(b) = (IF fmt THEN depth ELSE 0)
    <3>1. Blank(b) /\ Len(b) = (IF fmt THEN depth ELSE 0)
      BY MemberParts
    <3> QED
      BY <3>1 DEF Blank
  <2>5. end \in Strings /\ Len(end) = Len(b) + 1
    <3> HIDE DEF b
    <3> QED
      BY <2>1, <2>4, StringsJoined
  <2>6. a + Len(end) < r
    <3> DEFINE l == Len(end)
    <3>1. l = (IF fmt THEN depth ELSE 0) + 1
      BY <2>4, <2>5
    <3> HIDE DEF a, r, l
    <3>2. a \in Nat /\ r \in Nat /\ a + (IF fmt THEN depth ELSE 0) + 2 <= r
      BY <2>3
    <3>3. a + l < r
      BY ONLY <3>1, <3>2, depth \in Nat, fmt \in BOOLEAN
    <3> QED
      BY <3>3 DEF l
  <2>7. x = End(p[N], end)
    BY <1>1
  <2>8. end = ObjectEnd(depth, fmt)
    BY DEF ObjectEnd
  <2> HIDE DEF end, N
  <2> QED
    BY <2>3, <2>5, <2>6, <2>7, <2>8, Ended
<1>8. \A k \in 1 .. N : u[k] = ObjectPiece(child, k, depth, fmt, deeper)
  OBVIOUS
<1> HIDE DEF t, u
<1>9. IsObjectText(x, child, depth, fmt, deeper, t, u)
  BY <1>5, <1>6, <1>7, <1>8 DEF IsObjectText
<1> QED
  BY <1>7, <1>9

(* Where the parts of a member stand that starts at a place.                 *)
NameAt(o, depth, fmt) == o + Len(Indent(depth, fmt))
ColonAt(o, name, depth, fmt) == NameAt(o, depth, fmt) + Len(name.text)
EntryAt(o, name, depth, fmt) == ColonAt(o, name, depth, fmt) + Len(Between(fmt))
BehindAt(o, name, entry, depth, fmt) == EntryAt(o, name, depth, fmt) + Len(entry.text)

MemberStands(text, o, name, entry, k, N, depth, fmt) ==
  LET n == NameAt(o, depth, fmt)
      colon == ColonAt(o, name, depth, fmt)
      w == EntryAt(o, name, depth, fmt)
      b == BehindAt(o, name, entry, depth, fmt)
  IN  /\ n \in Nat /\ colon \in Nat /\ w \in Nat /\ b \in Nat
      /\ o <= n /\ n < colon /\ colon < w /\ w < b /\ w <= Len(text) /\ n <= Len(text)
      /\ Starts(text, o, Indent(depth, fmt)) /\ Starts(text, n, name.text)
      /\ Char(text, colon) = Colon /\ skip(text, colon) = colon /\ skip(text, colon + 1) = w
      /\ Starts(text, w, entry.text) /\ Starts(text, b, MemberBehind(k, N, fmt))
      /\ Len(MemberPiece(name, entry, k, N, depth, fmt)) \in Nat
      /\ o + Len(MemberPiece(name, entry, k, N, depth, fmt)) = b + Len(MemberBehind(k, N, fmt))

(* The parts of a member stand behind each other, with its colon between.    *)
LEMMA MemberIsThere ==
  ASSUME NEW text \in Strings, NEW o \in Nat \ {0}, NEW depth \in Nat, NEW fmt \in BOOLEAN,
         NEW name, IsPart(name), Len(name.text) >= 1, NEW entry, IsValueText(entry),
         NEW k, NEW N, Starts(text, o, MemberPiece(name, entry, k, N, depth, fmt))
  PROVE  MemberStands(text, o, name, entry, k, N, depth, fmt)
<1> DEFINE a == Indent(depth, fmt)
           q == name.text
           b == Between(fmt)
           v == entry.text
           d == MemberBehind(k, N, fmt)
           i == If(fmt, <<Tab>>)
           aq == a \o q
           aqb == aq \o b
           vd == v \o d
           all == aqb \o vd
<1>1. a \in Strings /\ b \in Strings /\ d \in Strings /\ i \in Strings /\ Blank(i)
  <2>1. Blank(a) /\ Blank(i) /\ b \in Strings /\ d \in Strings
    BY MemberParts
  <2> QED
    BY <2>1 DEF Blank
<1>2. q \in Strings /\ v \in Strings /\ Len(v) >= 1 /\ v[1] > Space
  BY DEF IsPart, IsValueText
<1>3. MemberPiece(name, entry, k, N, depth, fmt) = all
  BY DEF MemberPiece
<1>4. b = <<Colon>> \o i
  BY DEF Between
<1>5. <<Colon>> \in Strings /\ Len(<<Colon>>) = 1 /\ <<Colon>>[1] = Colon
  BY OneChar DEF Colon
<1> HIDE DEF a, q, b, v, d, i
<1>6. aq \in Strings /\ Len(aq) = Len(a) + Len(q) /\ Len(a) \in Nat /\ Len(q) \in Nat
  BY <1>1, <1>2, StringsJoined
<1>7. aqb \in Strings /\ Len(aqb) = Len(aq) + Len(b) /\ Len(b) \in Nat
  <2> HIDE DEF aq
  <2> QED
    BY <1>1, <1>6, StringsJoined
<1>8. vd \in Strings /\ Len(vd) = Len(v) + Len(d) /\ Len(v) \in Nat /\ Len(d) \in Nat
  BY <1>1, <1>2, StringsJoined
<1>9. all \in Strings /\ Len(all) = Len(aqb) + Len(vd)
  <2> HIDE DEF aqb, vd
  <2> QED
    BY <1>7, <1>8, StringsJoined
<1>10. Len(b) = 1 + Len(i) /\ Len(i) \in Nat
  BY <1>1, <1>4, <1>5, StringsJoined
<1> HIDE DEF aq, aqb, vd, all
<1> DEFINE la == Len(a)
           lq == Len(q)
           lb == Len(b)
           lv == Len(v)
           ld == Len(d)
           li == Len(i)
           n == o + la
           colon == n + lq
           w == colon + lb
           s == w + lv
<1>11. /\ la \in Nat /\ lq \in Nat /\ lb \in Nat /\ lv \in Nat /\ ld \in Nat /\ li \in Nat
       /\ lb = 1 + li /\ lv >= 1 /\ lq >= 1
       /\ Len(aq) = la + lq /\ Len(aqb) = la + lq + lb /\ Len(all) = la + lq + lb + (lv + ld)
  <2>1. lq >= 1
    BY DEF q
  <2> QED
    BY <1>2, <1>6, <1>7, <1>8, <1>9, <1>10, <2>1
<1>12. /\ n \in Nat \ {0} /\ colon \in Nat \ {0} /\ w \in Nat \ {0} /\ s \in Nat \ {0}
       /\ o <= n /\ n < colon /\ colon < w /\ w < s /\ w = colon + 1 + li /\ colon + 1 \in Nat \ {0}
       /\ o + Len(all) = s + ld /\ o + Len(aqb) = w /\ o + Len(aq) = colon
       /\ Len(all) \in Nat
  <2> DEFINE x == Len(aq)
             y == Len(aqb)
             z == Len(all)
  <2>1. /\ x = la + lq /\ y = la + lq + lb /\ z = la + lq + lb + (lv + ld)
        /\ la \in Nat /\ lq \in Nat /\ lb \in Nat /\ lv \in Nat /\ ld \in Nat /\ li \in Nat
        /\ lb = 1 + li /\ lv >= 1 /\ lq >= 1 /\ o \in Nat \ {0}
    BY <1>11
  <2> HIDE DEF x, y, z, la, lq, lb, lv, ld, li
  <2>2. n \in Nat \ {0} /\ colon \in Nat \ {0} /\ w \in Nat \ {0} /\ s \in Nat \ {0}
    BY <2>1
  <2>3. o <= n /\ n < colon /\ colon < w /\ w < s /\ w = colon + 1 + li /\ colon + 1 \in Nat \ {0}
    BY <2>1
  <2>4. o + z = s + ld /\ o + y = w /\ o + x = colon /\ z \in Nat
    BY <2>1
  <2> QED
    BY <2>2, <2>3, <2>4 DEF x, y, z
<1>13. Starts(text, o, aqb) /\ Starts(text, w, vd)
  <2>1. Starts(text, o, aqb) /\ Starts(text, o + Len(aqb), vd)
    <3>1. Starts(text, o, aqb \o vd)
      BY <1>3 DEF all
    <3> QED
      BY ONLY <1>7, <1>8, <3>1, text \in Strings, o \in Nat \ {0}, StartsJoined
  <2> QED
    BY <1>12, <2>1
<1>14. Starts(text, o, aq) /\ Starts(text, colon, b)
  <2>1. Starts(text, o, aq) /\ Starts(text, o + Len(aq), b)
    BY <1>1, <1>6, <1>13, StartsJoined DEF aqb
  <2> QED
    BY <1>12, <2>1
<1>15. Starts(text, o, a) /\ Starts(text, n, q)
  BY <1>1, <1>2, <1>14, StartsJoined DEF aq
<1> HIDE DEF n, colon, w, s, li
<1>16. Starts(text, w, v) /\ Starts(text, w + Len(v), d)
  BY <1>1, <1>2, <1>12, <1>13, StartsJoined DEF vd
<1>17. Starts(text, s, d)
  BY <1>16 DEF s, lv
<1>18. Starts(text, colon, <<Colon>>) /\ Starts(text, colon + 1, i)
  <2>1. Starts(text, colon, <<Colon>>) /\ Starts(text, colon + Len(<<Colon>>), i)
    BY <1>1, <1>4, <1>5, <1>12, <1>14, StartsJoined
  <2> QED
    BY <1>5, <2>1
<1>19. Char(text, colon) = Colon
  <2>1. Colon \in 1 .. 255
    BY DEF Colon
  <2> QED
    BY <1>12, <1>18, <2>1, OneStands
<1>20. Char(text, w) > Space /\ w <= Len(text)
  BY <1>2, <1>12, <1>16, FirstChar
<1>21. n <= Len(text)
  <2>1. Len(text) \in Nat
    BY DEF Strings
  <2> QED
    BY <1>12, <1>20, <2>1
<1>22. skip(text, colon) = colon
  <2>1. Char(text, colon) > Space
    BY <1>19 DEF Colon, Space
  <2> QED
    BY <1>12, <2>1, SkipNone
<1>23. skip(text, colon + 1) = w
  <2>1. colon + 1 + Len(i) = w
    BY <1>12 DEF li
  <2>2. colon + 1 \in Nat \ {0} /\ Char(text, colon + 1 + Len(i)) > Space
    BY <1>12, <1>20, <2>1
  <2>3. skip(text, colon + 1) = colon + 1 + Len(i)
    BY <1>1, <1>18, <2>2, SkipBlank
  <2> QED
    BY <2>1, <2>3
<1>24. /\ NameAt(o, depth, fmt) = n /\ ColonAt(o, name, depth, fmt) = colon
       /\ EntryAt(o, name, depth, fmt) = w /\ BehindAt(o, name, entry, depth, fmt) = s
  BY DEF NameAt, ColonAt, EntryAt, BehindAt, n, colon, w, s, a, q, b, v
<1>25. /\ Starts(text, o, Indent(depth, fmt)) /\ Starts(text, n, name.text)
       /\ Starts(text, w, entry.text) /\ Starts(text, s, MemberBehind(k, N, fmt))
       /\ Len(MemberPiece(name, entry, k, N, depth, fmt)) \in Nat
       /\ o + Len(MemberPiece(name, entry, k, N, depth, fmt)) = s + Len(MemberBehind(k, N, fmt))
  BY <1>3, <1>12, <1>15, <1>16, <1>17 DEF a, q, v, d
<1>26. /\ n \in Nat /\ colon \in Nat /\ w \in Nat /\ s \in Nat
       /\ o <= n /\ n < colon /\ colon < w /\ w < s
  BY <1>12
<1> HIDE DEF a, q, b, v, d
<1> QED
  BY <1>19, <1>20, <1>21, <1>22, <1>23, <1>24, <1>25, <1>26, Zenon DEF MemberStands

(* White space in two parts is passed over as one, and is no digit.          *)
LEMMA TwoBlanks ==
  ASSUME NEW text \in Strings, NEW at \in Nat \ {0}, NEW a, Blank(a), NEW b, Blank(b),
         Starts(text, at, a), Starts(text, at + Len(a), b), NEW end, end = at + Len(a) + Len(b),
         Char(text, end) > Space, Char(text, end) \notin Digits
  PROVE  skip(text, at) = end /\ Char(text, at) \notin Digits
<1> DEFINE s == a \o b
<1>1. /\ Blank(s) /\ Len(s) = Len(a) + Len(b) /\ a \in Strings /\ b \in Strings
      /\ Len(a) \in Nat /\ Len(b) \in Nat
  BY BlankJoined DEF Blank, Strings
<1>2. Starts(text, at, s)
  BY <1>1, StartsJoined
<1>3. at + Len(s) = end
  <2> DEFINE x == Len(s)
             y == Len(a)
             z == Len(b)
  <2>1. x = y + z /\ y \in Nat /\ z \in Nat /\ end = at + y + z
    BY <1>1
  <2> HIDE DEF x, y, z, s
  <2>2. at + x = end
    BY <2>1
  <2> QED
    BY <2>2 DEF x
<1> HIDE DEF s
<1>4. skip(text, at) = end
  BY <1>1, <1>2, <1>3, SkipBlank
<1>5. Char(text, at) \notin Digits
  <2>0. s \in Strings /\ Len(s) \in Nat /\ \A i \in 1 .. Len(s) : s[i] \in 1 .. Space
    BY <1>1 DEF Blank, Strings
  <2>1. CASE Len(s) = 0
    BY <1>3, <2>1
  <2>2. CASE Len(s) # 0
    <3>1. Len(s) >= 1
      BY <2>0, <2>2
    <3>2. Char(text, at) = s[1]
      BY <1>2, <2>0, <3>1, FirstChar
    <3>3. 1 \in 1 .. Len(s)
      BY <2>0, <3>1
    <3>4. Char(text, at) \in 1 .. Space
      BY <2>0, <3>2, <3>3
    <3> DEFINE cl == Char(text, at)
    <3>5. cl \in 1 .. Space
      BY <3>4
    <3> HIDE DEF cl
    <3>6. cl \notin Digits
      BY ONLY <3>5 DEF Space, Digits, DigitZero
    <3> QED
      BY <3>6 DEF cl
  <2> QED
    BY <2>1, <2>2
<1> QED
  BY <1>4, <1>5

(* A member that stands in a text is read, when its value is read.           *)
LEMMA MemberStandsRead ==
  ASSUME NEW text \in Strings, NEW at \in Nat \ {0}, NEW o \in Nat \ {0}, at <= o,
         NEW depth \in Nat, NEW fmt \in BOOLEAN, NEW s \in Strings, NEW name,
         name = print_string_ptr(s), NEW entry, NEW k, NEW N,
         MemberStands(text, o, name, entry, k, N, depth, fmt), NEW below, NEW item,
         ReadsBelow(text, at, below, entry, Named(<<>>, item)),
         Named(s, Named(<<>>, item)) = item,
         Char(text, BehindAt(o, name, entry, depth, fmt)) \notin Digits
  PROVE  /\ Char(text, NameAt(o, depth, fmt)) = Quote
         /\ ChildAt(text, NameAt(o, depth, fmt), "object", below)
              = Read(item, BehindAt(o, name, entry, depth, fmt))
<1> DEFINE n == NameAt(o, depth, fmt)
           cl == ColonAt(o, name, depth, fmt)
           w == EntryAt(o, name, depth, fmt)
           b == BehindAt(o, name, entry, depth, fmt)
<1>1. /\ n \in Nat /\ cl \in Nat /\ w \in Nat /\ b \in Nat
      /\ o <= n /\ n < cl /\ cl < w /\ w < b /\ w <= Len(text) /\ n <= Len(text)
      /\ Starts(text, n, name.text)
      /\ Char(text, cl) = Colon /\ skip(text, cl) = cl /\ skip(text, cl + 1) = w
      /\ Starts(text, w, entry.text)
  BY DEF MemberStands
<1>2. cl = n + Len(name.text) /\ b = w + Len(entry.text)
  BY DEF ColonAt, BehindAt
<1> HIDE DEF n, cl, w, b
<1>3. n \in Nat \ {0} /\ w \in at + 1 .. Len(text)
  <2>1. Len(text) \in Nat
    BY DEF Strings
  <2> QED
    BY <1>1, <2>1
<1>4. parse_string(text, n) = Read(Item("string", s, 0, <<>>), cl)
  BY <1>1, <1>2, <1>3, StringRead
<1>5. Char(text, n) = Quote
  <2>1. parse_string(text, n) # {}
    BY <1>4 DEF Read
  <2> QED
    BY <2>1 DEF parse_string
<1>6. below[w] = Read(Named(<<>>, item), b)
  BY <1>1, <1>2, <1>3 DEF ReadsBelow, b
<1>7. Member(text, n, below) = Read(Named(s, Named(<<>>, item)), b)
  <2> DEFINE v == Named(<<>>, item)
  <2>1. /\ parse_string(text, n) = Read(Item("string", s, 0, <<>>), cl)
        /\ cl = skip(text, cl) /\ Char(text, cl) = Colon /\ below[skip(text, cl + 1)] = Read(v, b)
    BY <1>1, <1>4, <1>6
  <2> HIDE DEF v
  <2>2. Member(text, n, below) = Read(Named(s, v), b)
    <3>1. IsMember(text, n, below, s, v, cl, cl, b)
      BY <2>1 DEF IsMember
    <3> QED
      BY ONLY <3>1, MemberRead
  <2> QED
    BY <2>2 DEF v
<1>8. ChildAt(text, n, "object", below) = Read(item, b)
  BY <1>7 DEF ChildAt
<1> QED
  BY <1>5, <1>8 DEF n, b

(* How the child of an object stands in a text.                              *)
IsObjectAt(text, at, child, k, o, next, depth, fmt, deeper) ==
  LET name == print_string_ptr(child[k].string)
      entry == deeper[child[k]][depth + 1]
      b == BehindAt(o, name, entry, depth, fmt)
  IN  /\ MemberStands(text, o, name, entry, k, Len(child), depth, fmt)
      /\ next = b + Len(MemberBehind(k, Len(child), fmt))

(* Each member stands behind the one before it.                              *)
LEMMA ObjectStands ==
  ASSUME NEW child, Len(child) \in Nat, child # <<>>, NEW depth \in Nat, NEW fmt \in BOOLEAN,
         NEW deeper, \A k \in 1 .. Len(child) : child[k].string \in Strings,
         \A k \in 1 .. Len(child) : IsValueText(deeper[child[k]][depth + 1]),
         NEW x, NEW t, NEW u, IsObjectText(x, child, depth, fmt, deeper, t, u),
         NEW text \in Strings, NEW at \in Nat \ {0}, Starts(text, at, x.text)
  PROVE  /\ Starts(text, at, t[0]) /\ Starts(text, at + Len(t[Len(child)]), ObjectEnd(depth, fmt))
         /\ \A k \in 0 .. Len(child) : Len(t[k]) \in Nat /\ Len(t[k]) >= 1
         /\ Len(child) \in 1 .. Len(text) + 1
         /\ \A k \in 1 .. Len(child) :
              IsObjectAt(text, at, child, k, at + Len(t[k - 1]), at + Len(t[k]), depth, fmt, deeper)
<1> DEFINE N == Len(child)
           e(k) == deeper[child[k]][depth + 1]
           q(k) == print_string_ptr(child[k].string)
           end == ObjectEnd(depth, fmt)
<1>0. N \in Nat /\ N >= 1 /\ Len(text) \in Nat
  <2>1. N # 0
    OBVIOUS
  <2> QED
    BY <2>1 DEF Strings
<1>1. /\ IsChain(N, t, u) /\ t[0] = <<OpenBrace>> \o Feed(fmt)
      /\ \A k \in 1 .. N : u[k] = ObjectPiece(child, k, depth, fmt, deeper)
      /\ x.text = t[N] \o end
  BY DEF IsObjectText
<1>2. end \in Strings
  <2>1. Blank(If(fmt, Tabs(depth)))
    BY MemberParts
  <2>2. <<CloseBrace>> \in Strings
    BY OneChar DEF CloseBrace
  <2> QED
    BY <2>1, <2>2, StringsJoined DEF ObjectEnd, Blank
<1>3. t[N] \in Strings
  <2>1. N \in 0 .. N
    BY <1>0
  <2> HIDE DEF N
  <2> QED
    BY <1>1, <2>1, Zenon DEF IsChain
<1> HIDE DEF end
<1>4. Starts(text, at, t[N]) /\ Starts(text, at + Len(t[N]), end)
  <2>1. Starts(text, at, t[N] \o end)
    BY <1>1
  <2> HIDE DEF N
  <2> QED
    BY <1>2, <1>3, <2>1, StartsJoined
<1>5. /\ Starts(text, at, t[0])
      /\ \A k \in 1 .. N : /\ Starts(text, at + Len(t[k - 1]), u[k])
                           /\ Len(t[k]) = Len(t[k - 1]) + Len(u[k])
      /\ \A k \in 0 .. N : Len(t[k]) \in Nat /\ Len(t[k]) >= Len(t[0]) + k
  <2>1. ChainStands(N, t, u, text, at)
    BY <1>0, <1>1, <1>4, ChainStarts
  <2> QED
    BY <2>1 DEF ChainStands
<1>6. Len(t[0]) \in Nat /\ Len(t[0]) >= 1
  <2>1. <<OpenBrace>> \in Strings /\ Len(<<OpenBrace>>) = 1 /\ Feed(fmt) \in Strings
    <3>1. Blank(Feed(fmt))
      BY MemberParts
    <3> QED
      BY <3>1, OneChar DEF OpenBrace, Blank
  <2>2. Len(t[0]) = 1 + Len(Feed(fmt)) /\ Len(Feed(fmt)) \in Nat
    BY <1>1, <2>1, StringsJoined
  <2> QED
    BY <2>2
<1>7. ASSUME NEW k \in 0 .. N PROVE Len(t[k]) \in Nat /\ Len(t[k]) >= 1
  <2>1. Len(t[k]) \in Nat /\ Len(t[k]) >= Len(t[0]) + k
    BY <1>5
  <2> QED
    BY <1>6, <2>1
<1>8. N \in 1 .. Len(text) + 1
  <2>1. N \in 0 .. N
    BY <1>0
  <2>2. Len(t[N]) \in Nat /\ Len(t[N]) >= Len(t[0]) + N
    BY <1>5, <2>1
  <2>3. Len(t[N]) >= 1
    BY <1>7, <2>1
  <2> HIDE DEF N
  <2>4. at + Len(t[N]) - 1 <= Len(text)
    BY <1>3, <1>4, <2>3, FirstChar
  <2> QED
    BY <1>0, <1>6, <2>2, <2>4
<1>9. ASSUME NEW k \in 1 .. N
      PROVE  IsObjectAt(text, at, child, k, at + Len(t[k - 1]), at + Len(t[k]), depth, fmt, deeper)
  <2> DEFINE o == at + Len(t[k - 1])
             entry == e(k)
             name == q(k)
             piece == MemberPiece(name, entry, k, N, depth, fmt)
             b == BehindAt(o, name, entry, depth, fmt)
             d == Len(MemberBehind(k, N, fmt))
  <2>1. o \in Nat \ {0} /\ Len(t[k - 1]) \in Nat
    <3>1. k - 1 \in 0 .. N
      OBVIOUS
    <3> HIDE DEF N
    <3>2. Len(t[k - 1]) \in Nat
      BY <1>7, <3>1
    <3> QED
      BY <3>2
  <2>2. u[k] = piece
    BY <1>1 DEF ObjectPiece
  <2>3. Starts(text, o, piece) /\ Len(t[k]) = Len(t[k - 1]) + Len(piece)
    BY <1>5, <2>2
  <2>4. IsValueText(entry) /\ child[k].string \in Strings
    OBVIOUS
  <2>5. IsPart(name) /\ Len(name.text) \in Nat /\ Len(name.text) >= 1
    BY <2>4, NamePart
  <2> HIDE DEF entry, name, N, o
  <2>6. MemberStands(text, o, name, entry, k, N, depth, fmt)
    BY <2>1, <2>3, <2>4, <2>5, MemberIsThere
  <2>7. Len(piece) \in Nat /\ o + Len(piece) = b + d
    BY <2>6 DEF MemberStands
  <2>8. at + Len(t[k]) = b + d
    <3> DEFINE l == Len(piece)
               m == Len(t[k])
               p == Len(t[k - 1])
    <3>1. l \in Nat /\ o + l = b + d /\ m = p + l /\ p \in Nat /\ o = at + p
      BY <2>1, <2>3, <2>7 DEF o
    <3> HIDE DEF l, m, p, b, d
    <3>2. at + m = b + d
      BY <3>1
    <3> QED
      BY <3>2 DEF m
  <2> QED
    BY <2>6, <2>8 DEF IsObjectAt, o, name, entry, N
<1> QED
  BY <1>4, <1>5, <1>7, <1>8, <1>9 DEF end

(* The children of an object have names, and are read as if they had none.   *)
HaveNames(child) ==
  \A k \in 1 .. Len(child) : /\ child[k].string \in Strings
                             /\ Named(child[k].string, Named(<<>>, child[k])) = child[k]

MembersRead(child, depth, deeper, text, at, below) ==
  \A k \in 1 .. Len(child) :
    ReadsBelow(text, at, below, deeper[child[k]][depth + 1], Named(<<>>, child[k]))

(* An object that is not empty is read back, when its values are.            *)
LEMMA ObjectRead ==
  ASSUME NEW S, NEW child \in Seq(S), child # <<>>, NEW depth \in Nat, NEW fmt \in BOOLEAN,
         NEW deeper, HaveNames(child), ChildrenPrinted(child, depth, deeper),
         NEW x, x = print_object(child, depth, fmt, deeper),
         NEW text \in Strings, NEW at \in Nat \ {0}, Starts(text, at, x.text), NEW below,
         MembersRead(child, depth, deeper, text, at, below)
  PROVE  ListReadBack("object", child, x, text, at, below)
<1> USE DEF ChildrenPrinted, HaveNames, MembersRead, ListReadBack
<1> DEFINE N == Len(child)
           e(k) == deeper[child[k]][depth + 1]
           q(k) == print_string_ptr(child[k].string)
           end == ObjectEnd(depth, fmt)
<1>0. N \in Nat /\ N >= 1 /\ N # 0 /\ Len(text) \in Nat
  BY DEF Strings
<1> PICK t, u : IsObjectText(x, child, depth, fmt, deeper, t, u)
  BY <1>0, ObjectPrinted
<1>1. /\ t[0] = <<OpenBrace>> \o Feed(fmt) /\ x.text = t[N] \o end /\ t[N] \in Strings
  <2>1. IsChain(N, t, u) /\ N \in 0 .. N
    BY <1>0 DEF IsObjectText
  <2> QED
    BY <2>1 DEF IsObjectText, IsChain
<1>2. /\ Starts(text, at, t[0]) /\ Starts(text, at + Len(t[N]), end)
      /\ \A k \in 0 .. N : Len(t[k]) \in Nat /\ Len(t[k]) >= 1
      /\ N \in 1 .. Len(text) + 1
      /\ \A k \in 1 .. N :
           IsObjectAt(text, at, child, k, at + Len(t[k - 1]), at + Len(t[k]), depth, fmt, deeper)
  BY <1>0, ObjectStands
<1>3. /\ Blank(Feed(fmt)) /\ Blank(Indent(depth, fmt)) /\ Blank(If(fmt, Tabs(depth)))
      /\ Feed(fmt) \in Strings /\ If(fmt, Tabs(depth)) \in Strings
      /\ Len(Feed(fmt)) \in Nat /\ Len(Indent(depth, fmt)) \in Nat
      /\ Len(If(fmt, Tabs(depth))) \in Nat
  <2>1. Blank(Feed(fmt)) /\ Blank(Indent(depth, fmt)) /\ Blank(If(fmt, Tabs(depth)))
    BY MemberParts
  <2> QED
    BY <2>1 DEF Blank, Strings
<1>4. /\ <<CloseBrace>> \in Strings /\ <<OpenBrace>> \in Strings /\ <<Comma>> \in Strings
      /\ Len(<<CloseBrace>>) = 1 /\ Len(<<OpenBrace>>) = 1 /\ Len(<<Comma>>) = 1
  BY OneChar DEF CloseBrace, OpenBrace, Comma
<1> DEFINE o(k) == at + Len(t[k - 1])
           start == [k \in 1 .. N |-> NameAt(o(k), depth, fmt)]
           stop == [k \in 1 .. N |-> BehindAt(o(k), q(k), e(k), depth, fmt)]
<1>5. ASSUME NEW k \in 1 .. N
      PROVE  /\ o(k) \in Nat \ {0} /\ at <= o(k) /\ start[k] = NameAt(o(k), depth, fmt)
             /\ stop[k] = BehindAt(o(k), q(k), e(k), depth, fmt)
             /\ start[k] \in 1 .. Len(text) + 1 /\ stop[k] \in Nat \ {0}
             /\ MemberStands(text, o(k), q(k), e(k), k, N, depth, fmt)
             /\ Starts(text, o(k), Indent(depth, fmt))
             /\ Starts(text, stop[k], MemberBehind(k, N, fmt))
             /\ at + Len(t[k]) = stop[k] + Len(MemberBehind(k, N, fmt))
  <2> DEFINE i == k - 1
  <2>1. i \in 0 .. N
    OBVIOUS
  <2>2. start[k] = NameAt(o(k), depth, fmt) /\ stop[k] = BehindAt(o(k), q(k), e(k), depth, fmt)
    OBVIOUS
  <2>3. IsObjectAt(text, at, child, k, o(k), at + Len(t[k]), depth, fmt, deeper)
    BY <1>2
  <2> HIDE DEF N, start, stop
  <2>4. Len(t[i]) \in Nat
    <3> HIDE DEF i
    <3> QED
      BY <1>2, <2>1
  <2>5. o(k) \in Nat \ {0} /\ at <= o(k)
    BY <2>4
  <2> HIDE DEF o, q, e
  <2>6. /\ MemberStands(text, o(k), q(k), e(k), k, N, depth, fmt)
        /\ at + Len(t[k]) = stop[k] + Len(MemberBehind(k, N, fmt))
    BY <2>2, <2>3 DEF IsObjectAt, q, e, N
  <2>7. /\ start[k] \in Nat /\ stop[k] \in Nat /\ o(k) <= start[k] /\ start[k] < stop[k]
        /\ start[k] <= Len(text)
        /\ Starts(text, o(k), Indent(depth, fmt))
        /\ Starts(text, stop[k], MemberBehind(k, N, fmt))
    <3> DEFINE n == NameAt(o(k), depth, fmt)
               chr == ColonAt(o(k), q(k), depth, fmt)
               w == EntryAt(o(k), q(k), depth, fmt)
               b == BehindAt(o(k), q(k), e(k), depth, fmt)
    <3>1. /\ n \in Nat /\ chr \in Nat /\ w \in Nat /\ b \in Nat
          /\ o(k) <= n /\ n < chr /\ chr < w /\ w < b /\ n <= Len(text)
          /\ Starts(text, o(k), Indent(depth, fmt))
          /\ Starts(text, b, MemberBehind(k, N, fmt))
      BY <2>6 DEF MemberStands
    <3>2. start[k] = n /\ stop[k] = b
      BY <2>2
    <3> HIDE DEF n, chr, w, b
    <3>3. n < b
      BY <3>1
    <3> QED
      BY <3>1, <3>2, <3>3
  <2>8. start[k] \in 1 .. Len(text) + 1 /\ stop[k] \in Nat \ {0}
    BY <1>0, <2>5, <2>7
  <2> QED
    BY <2>2, <2>5, <2>6, <2>7, <2>8
<1>6. \A k \in 1 .. N - 1 : o(k + 1) = at + Len(t[k]) /\ k \in 1 .. N /\ k + 1 \in 1 .. N /\ k # N
  <2>1. ASSUME NEW k \in 1 .. N - 1
        PROVE  o(k + 1) = at + Len(t[k]) /\ k \in 1 .. N /\ k + 1 \in 1 .. N /\ k # N
    <3>1. (k + 1) - 1 = k /\ k \in 1 .. N /\ k + 1 \in 1 .. N /\ k # N
      BY <1>0
    <3> QED
      BY <3>1
  <2> QED
    BY <2>1
<1>7. o(1) = at + Len(t[0]) /\ 1 \in 1 .. N /\ N \in 1 .. N
  <2>1. 1 - 1 = 0 /\ 1 \in 1 .. N /\ N \in 1 .. N
    BY <1>0
  <2> QED
    BY <2>1
<1> HIDE DEF start, stop, o
<1>8. ASSUME NEW k \in 1 .. N, Char(text, stop[k]) \notin Digits
      PROVE  /\ Char(text, start[k]) = Quote
             /\ ChildAt(text, start[k], "object", below) = Read(child[k], stop[k])
  <2> DEFINE item == child[k]
             entry == e(k)
             name == q(k)
             s == child[k].string
  <2>1. /\ s \in Strings /\ name = print_string_ptr(s) /\ Named(s, Named(<<>>, item)) = item
        /\ ReadsBelow(text, at, below, entry, Named(<<>>, item))
    OBVIOUS
  <2>2. /\ o(k) \in Nat \ {0} /\ at <= o(k) /\ start[k] = NameAt(o(k), depth, fmt)
        /\ stop[k] = BehindAt(o(k), name, entry, depth, fmt)
        /\ MemberStands(text, o(k), name, entry, k, N, depth, fmt)
    BY <1>5
  <2>3. Char(text, BehindAt(o(k), name, entry, depth, fmt)) \notin Digits
    <3> HIDE DEF name, entry
    <3> QED
      BY <1>8, <2>2
  <2> HIDE DEF item, entry, name, s, N
  <2>4. /\ Char(text, NameAt(o(k), depth, fmt)) = Quote
        /\ ChildAt(text, NameAt(o(k), depth, fmt), "object", below)
             = Read(item, BehindAt(o(k), name, entry, depth, fmt))
    BY <2>1, <2>2, <2>3, MemberStandsRead
  <2> QED
    BY <2>2, <2>4 DEF item
<1>9. /\ Char(text, at + Len(t[N])  + Len(If(fmt, Tabs(depth)))) = CloseBrace
      /\ Starts(text, at + Len(t[N]), If(fmt, Tabs(depth)))
  <2> DEFINE p == at + Len(t[N])
             b == If(fmt, Tabs(depth))
  <2>1. p \in Nat \ {0}
    <3>1. Len(t[N]) \in Nat
      <4>1. N \in 0 .. N
        BY <1>0
      <4> HIDE DEF N
      <4> QED
        BY <1>2, <4>1
    <3> QED
      BY <3>1
  <2>2. Starts(text, p, b \o <<CloseBrace>>)
    BY <1>2 DEF ObjectEnd
  <2> HIDE DEF p, b
  <2>3. b \in Strings /\ Len(b) \in Nat
    BY <1>3 DEF b
  <2>4. Starts(text, p, b) /\ Starts(text, p + Len(b), <<CloseBrace>>) /\ p + Len(b) \in Nat \ {0}
    BY <1>4, <2>1, <2>2, <2>3, StartsJoined
  <2>5. Char(text, p + Len(b)) = CloseBrace
    <3>1. CloseBrace \in 1 .. 255
      BY DEF CloseBrace
    <3> QED
      BY ONLY <2>4, <3>1, text \in Strings, OneStands
  <2> QED
    BY <2>4, <2>5 DEF p, b
<1>10. /\ skip(text, stop[N]) = at + Len(t[N]) + Len(If(fmt, Tabs(depth)))
       /\ Char(text, stop[N]) \notin Digits
  <2> DEFINE a == Feed(fmt)
             b == If(fmt, Tabs(depth))
             p == at + Len(t[N])
             last == p + Len(b)
  <2>1. MemberBehind(N, N, fmt) = a
    <3>1. <<>> \o Feed(fmt) = Feed(fmt)
      BY <1>3, JoinedNothing
    <3> QED
      BY <3>1 DEF MemberBehind
  <2>2. stop[N] \in Nat \ {0} /\ Starts(text, stop[N], a) /\ p = stop[N] + Len(a)
    <3> HIDE DEF N, a
    <3> QED
      BY <1>5, <1>7, <2>1
  <2>3. Char(text, last) > Space /\ Char(text, last) \notin Digits
    <3>1. Char(text, last) = CloseBrace
      BY <1>9
    <3> HIDE DEF last
    <3> QED
      BY <3>1 DEF CloseBrace, Space, Digits, DigitZero
  <2>4. Blank(a) /\ Blank(b) /\ Starts(text, p, b)
    BY <1>3, <1>9
  <2> HIDE DEF a, b, p, N
  <2>5. last = stop[N] + Len(a) + Len(b) /\ Starts(text, stop[N] + Len(a), b)
    BY <2>2, <2>4
  <2> HIDE DEF last
  <2>6. skip(text, stop[N]) = last /\ Char(text, stop[N]) \notin Digits
    BY <2>2, <2>3, <2>4, <2>5, TwoBlanks
  <2> QED
    BY <2>6 DEF last, p, b
<1>11. ASSUME NEW k \in 1 .. N - 1
       PROVE  /\ Char(text, stop[k]) = Comma /\ skip(text, stop[k]) = stop[k]
              /\ Starts(text, stop[k] + 1, Feed(fmt)) /\ stop[k] + 1 \in Nat \ {0}
              /\ stop[k] + 1 + Len(Feed(fmt)) = at + Len(t[k])
  <2> DEFINE a == Feed(fmt)
             p == stop[k]
  <2>1. MemberBehind(k, N, fmt) = <<Comma>> \o a /\ k \in 1 .. N
    BY <1>6 DEF MemberBehind
  <2>2. p \in Nat \ {0} /\ Starts(text, p, <<Comma>> \o a) /\ at + Len(t[k]) = p + Len(<<Comma>> \o a)
    <3> HIDE DEF N, a
    <3> QED
      BY <1>5, <2>1
  <2>3. a \in Strings /\ Len(a) \in Nat
    BY <1>3
  <2> HIDE DEF a, p
  <2>4. Starts(text, p, <<Comma>>) /\ Starts(text, p + 1, a)
    <3>1. Starts(text, p, <<Comma>>) /\ Starts(text, p + Len(<<Comma>>), a)
      BY <1>4, <2>2, <2>3, StartsJoined
    <3> QED
      BY <1>4, <3>1
  <2>5. Char(text, p) = Comma
    <3>1. Comma \in 1 .. 255
      BY DEF Comma
    <3> QED
      BY ONLY <2>2, <2>4, <3>1, text \in Strings, OneStands
  <2>6. skip(text, p) = p
    <3>1. Char(text, p) > Space
      BY <2>5 DEF Comma, Space
    <3> QED
      BY <2>2, <3>1, SkipNone
  <2>7. Len(<<Comma>> \o a) = 1 + Len(a)
    BY <1>4, <2>3, StringsJoined
  <2>8. p + 1 + Len(a) = at + Len(t[k]) /\ p + 1 \in Nat \ {0}
    BY <2>2, <2>3, <2>7
  <2> QED
    BY <2>4, <2>5, <2>6, <2>8 DEF a, p
<1>12. ASSUME NEW k \in 1 .. N
       PROVE  /\ Char(text, start[k]) = Quote
              /\ ChildAt(text, start[k], "object", below) = Read(child[k], stop[k])
  <2>1. CASE k = N
    BY <1>8, <1>10, <2>1
  <2>2. CASE k # N
    <3>1. k \in 1 .. N - 1
      BY <1>0, <2>2
    <3>2. Char(text, stop[k]) = Comma
      <4> HIDE DEF N
      <4> QED
        BY <1>11, <3>1
    <3>3. Char(text, stop[k]) \notin Digits
      BY <3>2 DEF Comma, Digits, DigitZero
    <3> HIDE DEF N
    <3> QED
      BY <1>8, <3>3
  <2> QED
    BY <2>1, <2>2
<1>13. ASSUME NEW k \in 1 .. N, NEW p \in Nat \ {0}, Starts(text, p, Feed(fmt)),
              p + Len(Feed(fmt)) = o(k)
       PROVE  skip(text, p) = start[k]
  <2>1. /\ start[k] = o(k) + Len(Indent(depth, fmt)) /\ Starts(text, o(k), Indent(depth, fmt))
    BY <1>5 DEF NameAt
  <2>2. Char(text, start[k]) > Space /\ Char(text, start[k]) \notin Digits
    BY <1>12 DEF Quote, Space, Digits, DigitZero
  <2> DEFINE a == Feed(fmt)
             b == Indent(depth, fmt)
             last == start[k]
  <2>3. /\ Blank(a) /\ Blank(b) /\ Starts(text, p, a) /\ Starts(text, p + Len(a), b)
        /\ last = p + Len(a) + Len(b) /\ Char(text, last) > Space /\ Char(text, last) \notin Digits
    BY <1>3, <1>13, <2>1, <2>2
  <2> HIDE DEF a, b, last
  <2>4. skip(text, p) = last
    BY <2>3, TwoBlanks
  <2> QED
    BY <2>4 DEF last
<1>14. ASSUME NEW k \in 1 .. N - 1
       PROVE  /\ Char(text, skip(text, stop[k])) = Comma
              /\ skip(text, skip(text, stop[k]) + 1) = start[k + 1]
  <2>1. o(k + 1) = at + Len(t[k]) /\ k + 1 \in 1 .. N
    BY <1>6
  <2>2. /\ Char(text, stop[k]) = Comma /\ skip(text, stop[k]) = stop[k]
        /\ Starts(text, stop[k] + 1, Feed(fmt)) /\ stop[k] + 1 \in Nat \ {0}
        /\ stop[k] + 1 + Len(Feed(fmt)) = at + Len(t[k])
    BY <1>11
  <2> DEFINE i == k + 1
             p == stop[k] + 1
  <2>3. i \in 1 .. N /\ p \in Nat \ {0} /\ Starts(text, p, Feed(fmt)) /\ p + Len(Feed(fmt)) = o(i)
    BY <2>1, <2>2
  <2> HIDE DEF i, p, N
  <2>4. skip(text, p) = start[i]
    BY <1>13, <2>3
  <2> QED
    BY <2>2, <2>4 DEF i, p
<1>15. Char(text, skip(text, stop[N])) = CloseOf("object")
  BY <1>9, <1>10 DEF CloseOf
<1>16. IsListed(child, text, "object", below, start, stop)
  BY <1>5, <1>12, <1>14, <1>15 DEF IsListed
<1>17. Children(text, start[1], "object", below) = ReadList(child, skip(text, stop[N]) + 1)
  BY <1>2, <1>16, ListRead
<1>18. start[1] = skip(text, at + 1) /\ Char(text, start[1]) # CloseOf("object")
  <2> DEFINE a == Feed(fmt)
             ob == <<OpenBrace>>
  <2>1. Starts(text, at, ob \o a) /\ a \in Strings /\ ob \in Strings /\ Len(ob) = 1
        /\ Len(a) \in Nat /\ o(1) = at + Len(ob \o a)
    BY <1>1, <1>2, <1>3, <1>4, <1>7
  <2> HIDE DEF a, ob
  <2>2. Starts(text, at + Len(ob), a) /\ Len(ob \o a) = Len(ob) + Len(a)
    BY <2>1, StartsJoined, StringsJoined
  <2>3. Starts(text, at + 1, a) /\ at + 1 \in Nat \ {0} /\ at + 1 + Len(a) = o(1)
    BY <2>1, <2>2
  <2>4. skip(text, at + 1) = start[1]
    BY <1>7, <1>13, <2>3 DEF a
  <2>5. Char(text, start[1]) = Quote
    BY <1>7, <1>12
  <2> QED
    BY <2>4, <2>5 DEF CloseOf, Quote, CloseBrace
<1>19. skip(text, stop[N]) + 1 = at + Len(x.text)
  <2> DEFINE b == If(fmt, Tabs(depth))
             l == Len(t[N])
             m == Len(b)
             n == Len(end)
             z == Len(x.text)
  <2>1. b \in Strings /\ m \in Nat
    BY <1>3
  <2>2. end \in Strings /\ n = m + 1
    <3> HIDE DEF b
    <3>1. b \o <<CloseBrace>> \in Strings /\ Len(b \o <<CloseBrace>>) = Len(b) + 1
      BY <1>4, <2>1, StringsJoined
    <3> QED
      BY <3>1 DEF ObjectEnd, b
  <2>3. z = l + n /\ l \in Nat
    <3> HIDE DEF end, N, b
    <3> QED
      BY <1>1, <2>2, StringsJoined
  <2>4. skip(text, stop[N]) = at + l + m
    BY <1>10
  <2> HIDE DEF b, l, m, n, z
  <2>5. at + l + m + 1 = at + z
    BY <2>1, <2>2, <2>3
  <2> QED
    BY <2>4, <2>5 DEF z
<1> QED
  BY <1>17, <1>18, <1>19, ContainerRead

----------------------------------------------------------------------------
(* cJSON.c. Every item is printed inside its room, and read back.            *)
(* An item, and what is read when its text was printed.                      *)
IsItem(item, children) ==
  /\ item = [type |-> item.type, string |-> item.string, valuestring |-> item.valuestring,
             valueint |-> item.valueint, child |-> item.child]
  /\ item.type \in Types /\ item.string \in Strings /\ item.valuestring \in Strings
  /\ item.valueint \in Ints /\ item.child \in children
  /\ item.type # "string" => item.valuestring = <<>>
  /\ item.type # "number" => item.valueint = IF item.type = "true" THEN 1 ELSE 0
  /\ item.type \notin {"array", "object"} => item.child = <<>>
  /\ item.type = "array" => \A k \in DOMAIN item.child : item.child[k].string = <<>>

(* The items of ItemsTo are those.                                           *)
LEMMA ItemIs ==
  ASSUME NEW n \in 0 .. Nesting, NEW item \in ItemsTo[n]
  PROVE  IsItem(item, IF n = 0 THEN {<<>>} ELSE Seq(ItemsTo[n - 1]))
<1> DEFINE C == IF n = 0 THEN {<<>>} ELSE Seq(ItemsTo[n - 1])
<1>1. item \in ItemsOf(C)
  BY ItemsAre
<1> HIDE DEF C
<1>2. item \in [type : Types, string : Strings, valuestring : Strings, valueint : Ints, child : C]
  BY <1>1 DEF ItemsOf
<1>3. /\ item.type # "string" => item.valuestring = <<>>
      /\ item.type # "number" => item.valueint = IF item.type = "true" THEN 1 ELSE 0
      /\ item.type \notin {"array", "object"} => item.child = <<>>
      /\ item.type = "array" => \A k \in DOMAIN item.child : item.child[k].string = <<>>
  BY <1>1 DEF ItemsOf
<1>4. /\ item = [type |-> item.type, string |-> item.string, valuestring |-> item.valuestring,
                 valueint |-> item.valueint, child |-> item.child]
      /\ item.type \in Types /\ item.string \in Strings /\ item.valuestring \in Strings
      /\ item.valueint \in Ints /\ item.child \in C
  BY <1>2
<1>5. IsItem(item, C)
  BY <1>3, <1>4 DEF IsItem
<1> QED
  BY <1>5 DEF C

(* An item is its name and the item without it.                              *)
LEMMA ItemNamed ==
  ASSUME NEW children, NEW item, IsItem(item, children)
  PROVE  /\ Named(item.string, Named(<<>>, item)) = item
         /\ item.string = <<>> => Named(<<>>, item) = item
         /\ Named(<<>>, item) = Item(item.type, item.valuestring, item.valueint, item.child)
<1> DEFINE a == item.type
           b == item.string
           chr == item.valuestring
           d == item.valueint
           f == item.child
<1>1. item = [type |-> a, string |-> b, valuestring |-> chr, valueint |-> d, child |-> f]
  BY DEF IsItem
<1> HIDE DEF a, b, chr, d, f
<1>2. Named(<<>>, item)
        = [type |-> a, string |-> <<>>, valuestring |-> chr, valueint |-> d, child |-> f]
  BY <1>1 DEF Named
<1>3. Named(b, Named(<<>>, item)) = item
  <2>1. Named(b, [type |-> a, string |-> <<>>, valuestring |-> chr, valueint |-> d, child |-> f])
          = [type |-> a, string |-> b, valuestring |-> chr, valueint |-> d, child |-> f]
    BY DEF Named
  <2> QED
    BY <1>1, <1>2, <2>1
<1>4. b = <<>> => Named(<<>>, item) = item
  BY <1>1, <1>2
<1>5. Named(<<>>, item) = Item(a, chr, d, f)
  BY <1>2 DEF Item
<1> QED
  BY <1>3, <1>4, <1>5 DEF a, b, chr, d, f

(* What print_value calls for each type.                                     *)
LEMMA PrintKinds ==
  ASSUME NEW item, NEW depth, NEW fmt, NEW deeper
  PROVE  /\ item.type = "null" => print_value(item, depth, fmt, deeper) = End(Out(<<>>, 5), Null)
         /\ item.type = "false" => print_value(item, depth, fmt, deeper) = End(Out(<<>>, 6), False)
         /\ item.type = "true" => print_value(item, depth, fmt, deeper) = End(Out(<<>>, 5), True)
         /\ item.type = "number" => print_value(item, depth, fmt, deeper) = print_number(item.valueint)
         /\ item.type = "string" => print_value(item, depth, fmt, deeper) = print_string_ptr(item.valuestring)
         /\ item.type = "array" =>
              print_value(item, depth, fmt, deeper) = print_array(item.child, depth, fmt, deeper)
         /\ item.type = "object" =>
              print_value(item, depth, fmt, deeper) = print_object(item.child, depth, fmt, deeper)
BY Zenon DEF print_value

(* A text that is read as an item when nothing behind it continues it.       *)
ReadsAs(e, item) ==
  \A text \in Strings : \A at \in 1 .. Len(text) : \A level \in 1 .. Len(text) + 1 :
    level >= Len(text) - at + 2 /\ Starts(text, at, e.text) /\ Char(text, at + Len(e.text)) \notin Digits =>
      Values(text)[level][at] = Read(item, at + Len(e.text))

(* It is, when parse_value reads it so with what was read one level down.    *)
LEMMA ReadsAsIs ==
  ASSUME NEW e, NEW item,
         \A text \in Strings : \A at \in 1 .. Len(text) : \A level \in 1 .. Len(text) + 1 :
           level >= Len(text) - at + 2 /\ Starts(text, at, e.text) /\ Char(text, at + Len(e.text)) \notin Digits =>
             parse_value(text, at, Values(text)[level - 1]) = Read(item, at + Len(e.text))
  PROVE  ReadsAs(e, item)
<1> SUFFICES ASSUME NEW text \in Strings, NEW at \in 1 .. Len(text), NEW level \in 1 .. Len(text) + 1,
                    level >= Len(text) - at + 2, Starts(text, at, e.text),
                    Char(text, at + Len(e.text)) \notin Digits
             PROVE  Values(text)[level][at] = Read(item, at + Len(e.text))
  BY DEF ReadsAs
<1>1. Len(text) \in Nat /\ at \in 1 .. Len(text) + 1
  BY DEF Strings
<1>2. Values(text)[level][at] = parse_value(text, at, Values(text)[level - 1])
  BY <1>1, ValuesAre
<1>3. parse_value(text, at, Values(text)[level - 1]) = Read(item, at + Len(e.text))
  OBVIOUS
<1> QED
  BY <1>2, <1>3

(* The three words.                                                          *)
LEMMA WordsAre ==
  /\ Null \in Strings /\ Len(Null) = 4 /\ Null[1] = 110
  /\ False \in Strings /\ Len(False) = 5 /\ False[1] = 102
  /\ True \in Strings /\ Len(True) = 4 /\ True[1] = 116
BY DEF Null, False, True, Strings

(* A word fits into its room.                                                *)
LEMMA WordPrinted ==
  ASSUME NEW w \in Strings, Len(w) >= 1, w[1] \in 102 .. 116, NEW room \in Nat, Len(w) < room,
         NEW e, e = End(Out(<<>>, room), w)
  PROVE  IsValueText(e) /\ e.text = w
<1>1. Partial(Out(<<>>, room)) /\ Out(<<>>, room).text = <<>> /\ Out(<<>>, room).room = room
  BY NoText DEF Partial, Out
<1>2. Len(w) \in Nat /\ Len(<<>>) = 0 /\ 0 + Len(w) < room
  BY NoText DEF Strings
<1> DEFINE o == Out(<<>>, room)
<1>3. Partial(o) /\ Len(o.text) + Len(w) < o.room /\ o.text = <<>>
  BY <1>1, <1>2
<1> HIDE DEF o
<1>4. IsPart(e) /\ e.text = o.text \o w
  BY <1>3, Ended DEF o
<1>5. e.text = w
  BY <1>3, <1>4, JoinedNothing
<1>6. w[1] > Space /\ w[1] \notin {CloseBracket, CloseBrace}
  BY SMTT(30) DEF Space, CloseBracket, CloseBrace
<1> QED
  BY <1>2, <1>4, <1>5, <1>6 DEF IsValueText

(* The three words are read as what they were printed for.                   *)
LEMMA WordRead ==
  /\ ReadsAs(End(Out(<<>>, 5), Null), Item("null", <<>>, 0, <<>>))
  /\ ReadsAs(End(Out(<<>>, 6), False), Item("false", <<>>, 0, <<>>))
  /\ ReadsAs(End(Out(<<>>, 5), True), Item("true", <<>>, 1, <<>>))
  /\ IsValueText(End(Out(<<>>, 5), Null)) /\ IsValueText(End(Out(<<>>, 6), False))
  /\ IsValueText(End(Out(<<>>, 5), True))
<1> DEFINE a == End(Out(<<>>, 5), Null)
           b == End(Out(<<>>, 6), False)
           chr == End(Out(<<>>, 5), True)
<1>1. IsValueText(a) /\ a.text = Null
  <2>1. Null \in Strings /\ Len(Null) >= 1 /\ Null[1] \in 102 .. 116 /\ 5 \in Nat /\ Len(Null) < 5
    BY WordsAre
  <2> QED
    BY <2>1, WordPrinted
<1>2. IsValueText(b) /\ b.text = False
  <2>1. False \in Strings /\ Len(False) >= 1 /\ False[1] \in 102 .. 116 /\ 6 \in Nat /\ Len(False) < 6
    BY WordsAre
  <2> QED
    BY <2>1, WordPrinted
<1>3. IsValueText(chr) /\ chr.text = True
  <2>1. True \in Strings /\ Len(True) >= 1 /\ True[1] \in 102 .. 116 /\ 5 \in Nat /\ Len(True) < 5
    BY WordsAre
  <2> QED
    BY <2>1, WordPrinted
<1> HIDE DEF a, b, chr
<1>4. ASSUME NEW text \in Strings, NEW at \in 1 .. Len(text), NEW w \in Strings, Len(w) >= 1,
             Starts(text, at, w)
      PROVE  Char(text, at) = w[1] /\ at \in Nat
  <2>1. at \in Nat \ {0} /\ at \in Nat
    BY DEF Strings
  <2> QED
    BY <1>4, <2>1, FirstChar
<1>5. ReadsAs(a, Item("null", <<>>, 0, <<>>))
  <2>1. ASSUME NEW text \in Strings, NEW at \in 1 .. Len(text), NEW deeper, Starts(text, at, Null)
        PROVE  parse_value(text, at, deeper) = Read(Item("null", <<>>, 0, <<>>), at + Len(Null))
    <3>1. Char(text, at) = 110 /\ at \in Nat
      <4>1. Null \in Strings /\ Len(Null) >= 1 /\ Null[1] = 110
        BY WordsAre
      <4> QED
        BY <1>4, <2>1, <4>1
    <3> QED
      BY <2>1, <3>1, WordsAre, ValueKinds
  <2> QED
    BY <1>1, <2>1, ReadsAsIs
<1>6. ReadsAs(b, Item("false", <<>>, 0, <<>>))
  <2>1. ASSUME NEW text \in Strings, NEW at \in 1 .. Len(text), NEW deeper, Starts(text, at, False)
        PROVE  parse_value(text, at, deeper) = Read(Item("false", <<>>, 0, <<>>), at + Len(False))
    <3>1. Char(text, at) = 102 /\ at \in Nat
      <4>1. False \in Strings /\ Len(False) >= 1 /\ False[1] = 102
        BY WordsAre
      <4> QED
        BY <1>4, <2>1, <4>1
    <3> QED
      BY <2>1, <3>1, WordsAre, ValueKinds
  <2> QED
    BY <1>2, <2>1, ReadsAsIs
<1>7. ReadsAs(chr, Item("true", <<>>, 1, <<>>))
  <2>1. ASSUME NEW text \in Strings, NEW at \in 1 .. Len(text), NEW deeper, Starts(text, at, True)
        PROVE  parse_value(text, at, deeper) = Read(Item("true", <<>>, 1, <<>>), at + Len(True))
    <3>1. Char(text, at) = 116 /\ at \in Nat
      <4>1. True \in Strings /\ Len(True) >= 1 /\ True[1] = 116
        BY WordsAre
      <4> QED
        BY <1>4, <2>1, <4>1
    <3> QED
      BY <2>1, <3>1, WordsAre, ValueKinds
  <2> QED
    BY <1>3, <2>1, ReadsAsIs
<1> QED
  BY <1>1, <1>2, <1>3, <1>5, <1>6, <1>7 DEF a, b, chr

(* So are numbers.                                                           *)
LEMMA NumberWell ==
  ASSUME NEW n \in Ints
  PROVE  IsValueText(print_number(n)) /\ ReadsAs(print_number(n), Item("number", <<>>, n, <<>>))
<1> DEFINE e == print_number(n)
<1>1. /\ e.text \in Strings /\ Len(e.text) >= 1 /\ e.text[1] \in Digits \cup {Minus} /\ e.fits = TRUE
  BY NumberPrinted
<1>2. IsValueText(e)
  <2> DEFINE chr == e.text[1]
  <2>1. chr \in Digits \cup {Minus}
    BY <1>1
  <2> HIDE DEF chr
  <2>2. chr > Space /\ chr \notin {CloseBracket, CloseBrace}
    BY ONLY <2>1 DEF Digits, DigitZero, Minus, Space, CloseBracket, CloseBrace
  <2>3. Len(e.text) \in Nat
    BY <1>1 DEF Strings
  <2> QED
    BY <1>1, <2>2, <2>3 DEF IsValueText, IsPart, chr
<1>3. ASSUME NEW text \in Strings, NEW at \in 1 .. Len(text), NEW deeper, Starts(text, at, e.text),
             Char(text, at + Len(e.text)) \notin Digits
      PROVE  parse_value(text, at, deeper) = Read(Item("number", <<>>, n, <<>>), at + Len(e.text))
  <2>1. at \in Nat \ {0} /\ at \in Nat
    BY DEF Strings
  <2>2. /\ parse_number(text, at) = Read(Item("number", <<>>, n, <<>>), at + Len(e.text))
        /\ Char(text, at) \in Digits \cup {Minus}
    BY <1>3, <2>1, NumberRead
  <2>3. parse_value(text, at, deeper) = parse_number(text, at)
    BY <2>1, <2>2, ValueKinds
  <2> QED
    BY <2>2, <2>3
<1> HIDE DEF e
<1>4. ReadsAs(e, Item("number", <<>>, n, <<>>))
  BY <1>3, ReadsAsIs
<1> QED
  BY <1>2, <1>4 DEF e

(* So are strings.                                                           *)
LEMMA StringWell ==
  ASSUME NEW s \in Strings
  PROVE  IsValueText(print_string_ptr(s)) /\ ReadsAs(print_string_ptr(s), Item("string", s, 0, <<>>))
<1> DEFINE e == print_string_ptr(s)
<1>1. IsPart(e) /\ Len(e.text) \in Nat /\ Len(e.text) >= 1 /\ e.text \in Strings
  BY NamePart DEF IsPart
<1>2. ASSUME NEW text \in Strings, NEW at \in Nat \ {0}, Starts(text, at, e.text)
      PROVE  /\ Char(text, at) = Quote
             /\ parse_string(text, at) = Read(Item("string", s, 0, <<>>), at + Len(e.text))
  <2>1. parse_string(text, at) = Read(Item("string", s, 0, <<>>), at + Len(e.text))
    BY <1>2, StringRead
  <2>2. parse_string(text, at) # {}
    BY <2>1 DEF Read
  <2>3. Char(text, at) = Quote
    BY <2>2 DEF parse_string
  <2> QED
    BY <2>1, <2>3
<1> HIDE DEF e
<1>3. IsValueText(e)
  <2>1. Starts(e.text, 1, e.text) /\ 1 \in Nat \ {0}
    BY <1>1, StartsItself
  <2>2. Char(e.text, 1) = Quote
    BY <1>1, <1>2, <2>1
  <2>3. e.text[1] = Quote
    BY <1>1, <2>2 DEF Char
  <2>4. Quote > Space /\ Quote \notin {CloseBracket, CloseBrace}
    BY DEF Quote, Space, CloseBracket, CloseBrace
  <2> QED
    BY <1>1, <2>3, <2>4 DEF IsValueText
<1>4. ReadsAs(e, Item("string", s, 0, <<>>))
  <2>1. ASSUME NEW text \in Strings, NEW at \in 1 .. Len(text), NEW deeper, Starts(text, at, e.text)
        PROVE  parse_value(text, at, deeper) = Read(Item("string", s, 0, <<>>), at + Len(e.text))
    <3>1. at \in Nat \ {0} /\ at \in Nat
      BY DEF Strings
    <3>2. Char(text, at) = Quote
      BY <1>2, <2>1, <3>1
    <3>3. parse_value(text, at, deeper) = parse_string(text, at)
      BY <3>1, <3>2, ValueKinds
    <3> QED
      BY <1>2, <2>1, <3>1, <3>3
  <2> QED
    BY <2>1, ReadsAsIs
<1> QED
  BY <1>3, <1>4 DEF e

(* The text of an array or object without children, and how it is read.      *)
EmptyText(type, open, b, s) == Blank(b) /\ s = <<open>> \o (b \o <<CloseOf(type)>>)

EmptyReadBack(type, s, text, at, deeper) ==
  Container(text, at, type, deeper) = Read(Item(type, <<>>, 0, <<>>), at + Len(s))

(* An array or object with only white space in it is empty.                  *)
LEMMA EmptyRead ==
  ASSUME NEW type, NEW open \in 1 .. 255, NEW b, NEW s, EmptyText(type, open, b, s),
         NEW text \in Strings, NEW at \in Nat \ {0}, Starts(text, at, s), NEW deeper
  PROVE  EmptyReadBack(type, s, text, at, deeper)
<1> USE DEF EmptyText, EmptyReadBack
<1> DEFINE chr == CloseOf(type)
           a == <<open>>
           d == <<chr>>
           r == b \o d
<1>1. chr \in 1 .. 255 /\ chr > Space
  BY DEF CloseOf, CloseBracket, CloseBrace, Space
<1> HIDE DEF chr
<1>2. /\ a \in Strings /\ Len(a) = 1 /\ d \in Strings /\ Len(d) = 1 /\ d[1] = chr
      /\ b \in Strings /\ Len(b) \in Nat
  BY <1>1, OneChar DEF Blank, Strings
<1>3. Starts(text, at, a \o r) /\ s = a \o r
  BY DEF chr
<1> HIDE DEF a, d
<1>4. r \in Strings /\ Len(r) = Len(b) + 1
  BY <1>2, StringsJoined
<1> HIDE DEF r
<1>5. Starts(text, at + Len(a), r) /\ Len(s) = Len(a) + Len(r)
  BY <1>2, <1>3, <1>4, StartsJoined, StringsJoined
<1>6. Starts(text, at + 1, r) /\ at + 1 \in Nat \ {0} /\ Len(s) = 1 + Len(r)
  BY <1>2, <1>5
<1> DEFINE first == at + 1 + Len(b)
<1>7. Starts(text, at + 1, b) /\ Starts(text, first, d) /\ first \in Nat \ {0}
  BY <1>2, <1>6, StartsJoined DEF r
<1>8. Char(text, first) = chr
  <2> HIDE DEF first
  <2>1. d \in Strings /\ Len(d) >= 1 /\ first \in Nat \ {0} /\ Starts(text, first, d)
    BY <1>2, <1>7
  <2>2. Char(text, first) = d[1]
    BY ONLY <2>1, FirstChar, text \in Strings
  <2> QED
    BY <1>2, <2>2
<1>9. skip(text, at + 1) = first
  BY <1>1, <1>6, <1>7, <1>8, SkipBlank
<1>10. first + 1 = at + Len(s)
  BY <1>2, <1>4, <1>6
<1> HIDE DEF first
<1>11. Container(text, at, type, deeper) = Read(Item(type, <<>>, 0, <<>>), first + 1)
  BY <1>8, <1>9, ContainerRead DEF chr
<1> QED
  BY <1>10, <1>11

(* What print_array and print_object make of nothing.                        *)
LEMMA EmptyPrinted ==
  ASSUME NEW depth \in Nat, NEW fmt \in BOOLEAN, NEW deeper
  PROVE  /\ IsPart(print_array(<<>>, depth, fmt, deeper))
         /\ print_array(<<>>, depth, fmt, deeper).text = <<OpenBracket>> \o (<<>> \o <<CloseOf("array")>>)
         /\ IsPart(print_object(<<>>, depth, fmt, deeper))
         /\ \E b : /\ Blank(b)
                   /\ print_object(<<>>, depth, fmt, deeper).text = <<OpenBrace>> \o (b \o <<CloseOf("object")>>)
<1> DEFINE ob == <<OpenBracket>>
           cb == <<CloseBracket>>
           oc == <<OpenBrace>>
           cc == <<CloseBrace>>
           b == If(fmt, <<LineFeed>> \o Tabs(depth - 1))
           room == IF fmt THEN depth + 4 ELSE 3
           x == print_array(<<>>, depth, fmt, deeper)
           y == print_object(<<>>, depth, fmt, deeper)
<1>1. /\ ob \in Strings /\ Len(ob) = 1 /\ cb \in Strings /\ Len(cb) = 1
      /\ oc \in Strings /\ Len(oc) = 1 /\ cc \in Strings /\ Len(cc) = 1
  BY OneChar DEF OpenBracket, CloseBracket, OpenBrace, CloseBrace
<1>2. cb = <<CloseOf("array")>> /\ cc = <<CloseOf("object")>>
  BY DEF CloseOf
<1>3. Blank(b) /\ Len(b) \in Nat /\ Len(b) + 2 < room /\ room \in Nat
  <2>1. Blank(<<LineFeed>>) /\ Len(<<LineFeed>>) = 1 /\ Blank(<<>>) /\ Len(<<>>) = 0
    <3>1. LineFeed \in 1 .. Space
      BY DEF LineFeed, Space
    <3> QED
      BY <3>1, BlankChars
  <2>2. Blank(Tabs(depth - 1)) /\ Len(Tabs(depth - 1)) = (IF depth - 1 < 0 THEN 0 ELSE depth - 1)
    BY TabsAre
  <2> DEFINE w == <<LineFeed>> \o Tabs(depth - 1)
  <2>3. Blank(w) /\ Len(w) = 1 + Len(Tabs(depth - 1))
    BY <2>1, <2>2, BlankJoined
  <2>4. Len(w) = 1 + (IF depth - 1 < 0 THEN 0 ELSE depth - 1)
    BY <2>2, <2>3
  <2> HIDE DEF w
  <2>5. CASE fmt
    <3>1. b = w /\ room = depth + 4
      BY <2>5 DEF If, w
    <3> DEFINE l == Len(w)
    <3>2. l \in Nat /\ l + 2 < depth + 4
      <4>1. l = 1 + (IF depth - 1 < 0 THEN 0 ELSE depth - 1)
        BY <2>4
      <4> HIDE DEF l
      <4> QED
        BY ONLY <4>1, depth \in Nat
    <3> HIDE DEF b, room
    <3> QED
      BY <2>3, <3>1, <3>2
  <2>6. CASE ~ fmt
    <3>1. b = <<>> /\ room = 3
      BY <2>6 DEF If
    <3> HIDE DEF b, room
    <3> QED
      BY <2>1, <3>1
  <2> QED
    BY <2>5, <2>6
<1>4. x = End(Out(ob, 3), cb) /\ y = End(Out(oc, room), b \o cc)
  BY DEF print_array, print_object
<1> HIDE DEF ob, cb, oc, cc, b, room, x, y
<1>5. ASSUME NEW s \in Strings, NEW r \in Nat
      PROVE  Partial(Out(s, r)) /\ Out(s, r).text = s /\ Out(s, r).room = r
  BY DEF Partial, Out
<1>6. IsPart(x) /\ x.text = ob \o cb
  <2> DEFINE o == Out(ob, 3)
  <2>1. Partial(o) /\ o.text = ob /\ o.room = 3
    BY <1>1, <1>5
  <2> HIDE DEF o
  <2>2. Len(o.text) + Len(cb) < o.room
    <3>1. Len(o.text) = 1 /\ Len(cb) = 1
      BY <1>1, <2>1
    <3> QED
      BY <2>1, <3>1
  <2> QED
    BY <1>1, <1>4, <2>1, <2>2, Ended DEF o
<1>7. IsPart(y) /\ y.text = oc \o (b \o cc)
  <2> DEFINE o == Out(oc, room)
             e == b \o cc
  <2>1. Partial(o) /\ o.text = oc /\ o.room = room
    BY <1>1, <1>3, <1>5
  <2>2. e \in Strings /\ Len(e) = Len(b) + 1
    <3>1. b \in Strings
      BY <1>3 DEF Blank
    <3>2. b \o cc \in Strings /\ Len(b \o cc) = Len(b) + Len(cc)
      BY <1>1, <3>1, StringsJoined
    <3> QED
      BY <1>1, <3>2
  <2>3. y = End(o, e)
    BY <1>4
  <2> HIDE DEF o, e
  <2>4. Len(o.text) + Len(e) < o.room
    <3> DEFINE l == Len(b)
               m == Len(o.text)
               n == Len(e)
               q == o.room
    <3>1. l \in Nat /\ l + 2 < room /\ room \in Nat /\ n = l + 1 /\ m = 1 /\ q = room
      BY <1>1, <1>3, <2>1, <2>2
    <3> HIDE DEF l, m, n, q
    <3>2. m + n < q
      BY <3>1
    <3> QED
      BY <3>2 DEF m, n, q
  <2>5. IsPart(y) /\ y.text = o.text \o e
    BY <2>1, <2>2, <2>3, <2>4, Ended
  <2> QED
    BY <2>1, <2>5 DEF e
<1>8. cb = <<>> \o cb
  BY <1>1, JoinedNothing
<1>9. x.text = ob \o (<<>> \o <<CloseOf("array")>>)
  BY <1>2, <1>6, <1>8
<1>10. y.text = oc \o (b \o <<CloseOf("object")>>)
  BY <1>2, <1>7
<1> QED
  BY <1>3, <1>6, <1>7, <1>9, <1>10 DEF x, y, ob, oc

(* What is read at one level is there for the level above.                   *)
LEMMA BelowRead ==
  ASSUME NEW text \in Strings, NEW at \in 1 .. Len(text), NEW level \in 1 .. Len(text) + 1,
         level >= Len(text) - at + 2, NEW e, NEW item, ReadsAs(e, item)
  PROVE  ReadsBelow(text, at, Values(text)[level - 1], e, item)
<1> SUFFICES ASSUME NEW pos \in at + 1 .. Len(text), Starts(text, pos, e.text),
                    Char(text, pos + Len(e.text)) \notin Digits
             PROVE  Values(text)[level - 1][pos] = Read(item, pos + Len(e.text))
  BY DEF ReadsBelow
<1> DEFINE l == level - 1
<1>1. pos \in 1 .. Len(text) /\ l \in 1 .. Len(text) + 1 /\ l >= Len(text) - pos + 2
  BY DEF Strings
<1> HIDE DEF l
<1>2. Values(text)[l][pos] = Read(item, pos + Len(e.text))
  BY <1>1 DEF ReadsAs
<1> QED
  BY <1>2 DEF l

(* What opens a text is its first character.                                 *)
LEMMA Opens ==
  ASSUME NEW e, IsPart(e), NEW chr \in {OpenBracket, OpenBrace},
         \A text \in Strings : \A at \in Nat \ {0} : Starts(text, at, e.text) => Char(text, at) = chr
  PROVE  IsValueText(e)
<1>1. e.text \in Strings /\ Len(e.text) \in Nat
  BY DEF IsPart, Strings
<1>2. Char(e.text, 1) = chr
  BY <1>1, StartsItself
<1>3. chr > Space /\ chr \notin {CloseBracket, CloseBrace}
  BY DEF OpenBracket, OpenBrace, Space, CloseBracket, CloseBrace
<1>4. chr # 0
  BY DEF OpenBracket, OpenBrace
<1>5. Len(e.text) >= 1 /\ e.text[1] = chr
  BY <1>1, <1>2, <1>4 DEF Char
<1> QED
  BY <1>1, <1>3, <1>5 DEF IsValueText

(* The first character of a text with one before it.                         *)
LEMMA FirstOf ==
  ASSUME NEW chr \in 1 .. 255, NEW b \in Strings, NEW text \in Strings, NEW at \in Nat \ {0},
         Starts(text, at, <<chr>> \o b)
  PROVE  Char(text, at) = chr
<1> DEFINE a == <<chr>>
<1>1. a \in Strings /\ Len(a) = 1 /\ a[1] = chr
  BY OneChar
<1> HIDE DEF a
<1>2. Starts(text, at, a)
  BY <1>1, StartsJoined DEF a
<1>3. Len(a) >= 1
  BY <1>1
<1>4. Char(text, at) = a[1]
  BY <1>1, <1>2, <1>3, FirstChar
<1> QED
  BY <1>1, <1>4

(* An array starts with its bracket.                                         *)
LEMMA ArrayOpens ==
  ASSUME NEW child, Len(child) \in Nat, child # <<>>, NEW depth, NEW fmt, NEW deeper, NEW x,
         NEW t, NEW u, IsArrayText(x, child, depth, fmt, deeper, t, u),
         NEW text \in Strings, NEW at \in Nat \ {0}, Starts(text, at, x.text)
  PROVE  Char(text, at) = OpenBracket
<1> DEFINE N == Len(child)
<1>1. IsChain(N, t, u) /\ t[0] = <<OpenBracket>> /\ x.text = t[N] \o <<CloseBracket>>
  BY DEF IsArrayText
<1>2. t[N] \in Strings /\ <<CloseBracket>> \in Strings
  <2>1. N \in 0 .. N
    OBVIOUS
  <2>2. <<CloseBracket>> \in Strings
    BY OneChar DEF CloseBracket
  <2> HIDE DEF N
  <2> QED
    BY <1>1, <2>1, <2>2, Zenon DEF IsChain
<1> HIDE DEF N
<1>3. Starts(text, at, t[N])
  BY <1>1, <1>2, StartsJoined
<1>4. N \in Nat
  BY DEF N
<1>5. Starts(text, at, t[0])
  <2>1. ChainStands(N, t, u, text, at)
    BY <1>1, <1>3, <1>4, ChainStarts
  <2> QED
    BY <2>1 DEF ChainStands
<1>6. <<OpenBracket>> \o <<>> = <<OpenBracket>> /\ <<>> \in Strings /\ OpenBracket \in 1 .. 255
  BY JoinedNothing, NoText, OneChar DEF OpenBracket
<1> QED
  <2>1. Starts(text, at, <<OpenBracket>>)
    BY <1>1, <1>5
  <2> QED
    BY ONLY <1>6, <2>1, text \in Strings, at \in Nat \ {0}, OneStands

(* An object starts with its brace.                                          *)
LEMMA ObjectOpens ==
  ASSUME NEW child, Len(child) \in Nat, child # <<>>, NEW depth \in Nat, NEW fmt \in BOOLEAN,
         NEW deeper, \A k \in 1 .. Len(child) : child[k].string \in Strings,
         \A k \in 1 .. Len(child) : IsValueText(deeper[child[k]][depth + 1]),
         NEW x, NEW t, NEW u, IsObjectText(x, child, depth, fmt, deeper, t, u),
         NEW text \in Strings, NEW at \in Nat \ {0}, Starts(text, at, x.text)
  PROVE  Char(text, at) = OpenBrace
<1>1. Starts(text, at, t[0])
  BY ObjectStands
<1>2. t[0] = <<OpenBrace>> \o Feed(fmt)
  BY DEF IsObjectText
<1>3. Feed(fmt) \in Strings /\ OpenBrace \in 1 .. 255
  <2>1. Blank(Feed(fmt))
    BY MemberParts
  <2> QED
    BY <2>1 DEF Blank, OpenBrace
<1> QED
  BY <1>1, <1>2, <1>3, FirstOf

(* How a printed value is read, of an array or an object.                    *)
LEMMA ContainerWell ==
  ASSUME NEW x, IsPart(x), NEW type \in {"array", "object"}, NEW child,
         \A text \in Strings : \A at \in Nat \ {0} : Starts(text, at, x.text) =>
           Char(text, at) = (IF type = "array" THEN OpenBracket ELSE OpenBrace),
         \A text \in Strings : \A at \in 1 .. Len(text) : \A level \in 1 .. Len(text) + 1 :
           level >= Len(text) - at + 2 /\ Starts(text, at, x.text) =>
             Container(text, at, type, Values(text)[level - 1])
               = Read(Item(type, <<>>, 0, child), at + Len(x.text))
  PROVE  IsValueText(x) /\ ReadsAs(x, Item(type, <<>>, 0, child))
<1> DEFINE chr == IF type = "array" THEN OpenBracket ELSE OpenBrace
<1>1. IsValueText(x)
  <2>1. chr \in {OpenBracket, OpenBrace}
    OBVIOUS
  <2>2. \A text \in Strings : \A at \in Nat \ {0} : Starts(text, at, x.text) => Char(text, at) = chr
    OBVIOUS
  <2> HIDE DEF chr
  <2> QED
    BY <2>1, <2>2, Opens
<1>2. ASSUME NEW text \in Strings, NEW at \in 1 .. Len(text), NEW level \in 1 .. Len(text) + 1,
             level >= Len(text) - at + 2, Starts(text, at, x.text)
      PROVE  parse_value(text, at, Values(text)[level - 1])
               = Read(Item(type, <<>>, 0, child), at + Len(x.text))
  <2>1. at \in Nat \ {0} /\ at \in Nat
    BY DEF Strings
  <2>2. Container(text, at, type, Values(text)[level - 1])
          = Read(Item(type, <<>>, 0, child), at + Len(x.text))
    BY <1>2
  <2> DEFINE deeper == Values(text)[level - 1]
  <2>3. parse_value(text, at, deeper) = Container(text, at, type, deeper)
    <3> HIDE DEF deeper
    <3>1. CASE type = "array"
      <4>1. Char(text, at) = OpenBracket
        BY <1>2, <2>1, <3>1
      <4> QED
        BY <2>1, <3>1, <4>1, ValueKinds
    <3>2. CASE type = "object"
      <4>1. type # "array"
        BY <3>2
      <4>2. Char(text, at) = OpenBrace
        BY <1>2, <2>1, <4>1
      <4> QED
        BY <2>1, <3>2, <4>2, ValueKinds
    <3> QED
      BY <3>1, <3>2
  <2> QED
    BY <2>2, <2>3
<1>3. ReadsAs(x, Item(type, <<>>, 0, child))
  <2> DEFINE item == Item(type, <<>>, 0, child)
  <2>1. \A text \in Strings : \A at \in 1 .. Len(text) : \A level \in 1 .. Len(text) + 1 :
          level >= Len(text) - at + 2 /\ Starts(text, at, x.text) =>
            parse_value(text, at, Values(text)[level - 1]) = Read(item, at + Len(x.text))
    BY <1>2
  <2> HIDE DEF item
  <2>2. ReadsAs(x, item)
    BY <2>1, ReadsAsIs
  <2> QED
    BY <2>2 DEF item
<1> QED
  BY <1>1, <1>3

(* Arrays are read back when their children are.                             *)
LEMMA ArrayWell ==
  ASSUME NEW S, NEW child \in Seq(S), NEW depth \in Nat, NEW fmt \in BOOLEAN, NEW deeper,
         \A k \in 1 .. Len(child) : /\ IsValueText(deeper[child[k]][depth + 1])
                                    /\ ReadsAs(deeper[child[k]][depth + 1], child[k])
  PROVE  /\ IsValueText(print_array(child, depth, fmt, deeper))
         /\ ReadsAs(print_array(child, depth, fmt, deeper), Item("array", <<>>, 0, child))
<1> DEFINE x == print_array(child, depth, fmt, deeper)
<1>0. Len(child) \in Nat /\ "array" \in {"array", "object"}
  OBVIOUS
<1>1. CASE child = <<>>
  <2>1. IsPart(x) /\ x.text = <<OpenBracket>> \o (<<>> \o <<CloseOf("array")>>)
    BY <1>1, EmptyPrinted
  <2>2. Blank(<<>>) /\ OpenBracket \in 1 .. 255
    BY BlankChars DEF OpenBracket
  <2>3. <<>> \o <<CloseOf("array")>> \in Strings
    <3>1. <<CloseOf("array")>> \in Strings
      BY OneChar DEF CloseOf, CloseBracket
    <3> QED
      BY <3>1, JoinedNothing
  <2> HIDE DEF x
  <2>4. ASSUME NEW text \in Strings, NEW at \in Nat \ {0}, Starts(text, at, x.text)
        PROVE  Char(text, at) = OpenBracket
    <3> DEFINE b == <<>> \o <<CloseOf("array")>>
    <3>1. Starts(text, at, <<OpenBracket>> \o b) /\ b \in Strings
      BY <2>1, <2>3, <2>4
    <3> HIDE DEF b
    <3> QED
      BY <2>2, <3>1, FirstOf
  <2>5. ASSUME NEW text \in Strings, NEW at \in 1 .. Len(text), NEW below, Starts(text, at, x.text)
        PROVE  Container(text, at, "array", below) = Read(Item("array", <<>>, 0, <<>>), at + Len(x.text))
    <3>1. at \in Nat \ {0}
      BY DEF Strings
    <3> DEFINE s == x.text
    <3>2. s = <<OpenBracket>> \o (<<>> \o <<CloseOf("array")>>) /\ Starts(text, at, s) /\ Blank(<<>>)
      BY <2>1, <2>2, <2>5
    <3> HIDE DEF s
    <3>3. EmptyText("array", OpenBracket, <<>>, s) /\ Starts(text, at, s)
      BY <3>2 DEF EmptyText
    <3>4. EmptyReadBack("array", s, text, at, below)
      BY ONLY <2>2, <3>1, <3>3, text \in Strings, EmptyRead
    <3> QED
      BY <3>4 DEF s, EmptyReadBack
  <2>6. IsValueText(x) /\ ReadsAs(x, Item("array", <<>>, 0, <<>>))
    BY <1>0, <2>1, <2>4, <2>5, ContainerWell
  <2> QED
    BY <1>1, <2>6 DEF x
<1>2. CASE child # <<>>
  <2>1. \A k \in 1 .. Len(child) : IsValueText(deeper[child[k]][depth + 1])
    OBVIOUS
  <2>2. IsPart(x) /\ \E t, u : IsArrayText(x, child, depth, fmt, deeper, t, u)
    BY <1>0, <1>2, <2>1, ArrayPrinted
  <2>3. x = print_array(child, depth, fmt, deeper)
    OBVIOUS
  <2> HIDE DEF x
  <2>4. ASSUME NEW text \in Strings, NEW at \in Nat \ {0}, Starts(text, at, x.text)
        PROVE  Char(text, at) = OpenBracket
    BY <1>0, <1>2, <2>2, <2>4, ArrayOpens
  <2>5. ASSUME NEW text \in Strings, NEW at \in 1 .. Len(text), NEW level \in 1 .. Len(text) + 1,
               level >= Len(text) - at + 2, Starts(text, at, x.text)
        PROVE  Container(text, at, "array", Values(text)[level - 1])
                 = Read(Item("array", <<>>, 0, child), at + Len(x.text))
    <3> DEFINE below == Values(text)[level - 1]
    <3>1. at \in Nat \ {0}
      BY DEF Strings
    <3>2. \A k \in 1 .. Len(child) :
            ReadsBelow(text, at, below, deeper[child[k]][depth + 1], child[k])
      BY <2>5, BelowRead
    <3> HIDE DEF below
    <3>3. ListReadBack("array", child, x, text, at, below)
      <4>1. /\ Starts(text, at, x.text) /\ text \in Strings /\ child \in Seq(S) /\ depth \in Nat
            /\ fmt \in BOOLEAN
        BY <2>5
      <4>2. ChildrenPrinted(child, depth, deeper) /\ ElementsRead(child, depth, deeper, text, at, below)
        BY <2>1, <3>2 DEF ChildrenPrinted, ElementsRead
      <4> QED
        BY ONLY <1>2, <2>3, <3>1, <4>1, <4>2, ArrayRead
    <3> QED
      BY <3>3 DEF below, ListReadBack
  <2>6. IsValueText(x) /\ ReadsAs(x, Item("array", <<>>, 0, child))
    BY <1>0, <2>2, <2>4, <2>5, ContainerWell
  <2> QED
    BY <2>6 DEF x
<1> QED
  BY <1>1, <1>2

(* Objects are read back when their members' values are.                     *)
LEMMA ObjectWell ==
  ASSUME NEW S, NEW child \in Seq(S), NEW depth \in Nat, NEW fmt \in BOOLEAN, NEW deeper,
         \A k \in 1 .. Len(child) : child[k].string \in Strings,
         \A k \in 1 .. Len(child) :
           Named(child[k].string, Named(<<>>, child[k])) = child[k],
         \A k \in 1 .. Len(child) : /\ IsValueText(deeper[child[k]][depth + 1])
                                    /\ ReadsAs(deeper[child[k]][depth + 1], Named(<<>>, child[k]))
  PROVE  /\ IsValueText(print_object(child, depth, fmt, deeper))
         /\ ReadsAs(print_object(child, depth, fmt, deeper), Item("object", <<>>, 0, child))
<1> DEFINE x == print_object(child, depth, fmt, deeper)
<1>0. Len(child) \in Nat /\ "object" \in {"array", "object"} /\ ~ ("object" = "array")
  OBVIOUS
<1>1. CASE child = <<>>
  <2>1. PICK b : IsPart(x) /\ Blank(b) /\ x.text = <<OpenBrace>> \o (b \o <<CloseOf("object")>>)
    <3> DEFINE y == print_object(<<>>, depth, fmt, deeper)
    <3>1. IsPart(y) /\ \E b : Blank(b) /\ y.text = <<OpenBrace>> \o (b \o <<CloseOf("object")>>)
      BY EmptyPrinted
    <3>2. x = y
      BY <1>1
    <3> HIDE DEF x, y
    <3> QED
      BY <3>1, <3>2
  <2>2. OpenBrace \in 1 .. 255
    BY DEF OpenBrace
  <2>3. b \o <<CloseOf("object")>> \in Strings
    <3>1. <<CloseOf("object")>> \in Strings
      BY OneChar DEF CloseOf, CloseBrace
    <3> QED
      BY <2>1, <3>1, StringsJoined DEF Blank
  <2> HIDE DEF x
  <2>4. ASSUME NEW text \in Strings, NEW at \in Nat \ {0}, Starts(text, at, x.text)
        PROVE  Char(text, at) = OpenBrace
    <3> DEFINE r == b \o <<CloseOf("object")>>
    <3>1. Starts(text, at, <<OpenBrace>> \o r) /\ r \in Strings
      BY <2>1, <2>3, <2>4
    <3> HIDE DEF r
    <3> QED
      BY <2>2, <3>1, FirstOf
  <2>5. ASSUME NEW text \in Strings, NEW at \in 1 .. Len(text), NEW below, Starts(text, at, x.text)
        PROVE  Container(text, at, "object", below) = Read(Item("object", <<>>, 0, <<>>), at + Len(x.text))
    <3>1. at \in Nat \ {0}
      BY DEF Strings
    <3> DEFINE s == x.text
    <3>2. s = <<OpenBrace>> \o (b \o <<CloseOf("object")>>) /\ Starts(text, at, s) /\ Blank(b)
      BY <2>1, <2>5
    <3> HIDE DEF s
    <3>3. EmptyText("object", OpenBrace, b, s) /\ Starts(text, at, s)
      BY <3>2 DEF EmptyText
    <3>4. EmptyReadBack("object", s, text, at, below)
      BY ONLY <2>2, <3>1, <3>3, text \in Strings, EmptyRead
    <3> QED
      BY <3>4 DEF s, EmptyReadBack
  <2>6. IsValueText(x) /\ ReadsAs(x, Item("object", <<>>, 0, <<>>))
    BY <1>0, <2>1, <2>4, <2>5, ContainerWell
  <2> QED
    BY <1>1, <2>6 DEF x
<1>2. CASE child # <<>>
  <2>1. \A k \in 1 .. Len(child) : IsValueText(deeper[child[k]][depth + 1])
    OBVIOUS
  <2>2. IsPart(x) /\ \E t, u : IsObjectText(x, child, depth, fmt, deeper, t, u)
    BY <1>0, <1>2, <2>1, ObjectPrinted
  <2>3. x = print_object(child, depth, fmt, deeper)
    OBVIOUS
  <2> HIDE DEF x
  <2>4. ASSUME NEW text \in Strings, NEW at \in Nat \ {0}, Starts(text, at, x.text)
        PROVE  Char(text, at) = OpenBrace
    BY <1>0, <1>2, <2>1, <2>2, <2>4, ObjectOpens
  <2>5. ASSUME NEW text \in Strings, NEW at \in 1 .. Len(text), NEW level \in 1 .. Len(text) + 1,
               level >= Len(text) - at + 2, Starts(text, at, x.text)
        PROVE  Container(text, at, "object", Values(text)[level - 1])
                 = Read(Item("object", <<>>, 0, child), at + Len(x.text))
    <3> DEFINE below == Values(text)[level - 1]
    <3>1. at \in Nat \ {0}
      BY DEF Strings
    <3>2. \A k \in 1 .. Len(child) :
            ReadsBelow(text, at, below, deeper[child[k]][depth + 1], Named(<<>>, child[k]))
      <4> SUFFICES ASSUME NEW k \in 1 .. Len(child)
                   PROVE  ReadsBelow(text, at, below, deeper[child[k]][depth + 1], Named(<<>>, child[k]))
        OBVIOUS
      <4> DEFINE e == deeper[child[k]][depth + 1]
                 item == Named(<<>>, child[k])
      <4>1. ReadsAs(e, item)
        OBVIOUS
      <4> HIDE DEF e, item
      <4>2. ReadsBelow(text, at, below, e, item)
        BY <2>5, <4>1, BelowRead
      <4> QED
        BY <4>2 DEF e, item
    <3> HIDE DEF below
    <3>3. ListReadBack("object", child, x, text, at, below)
      <4>1. /\ Starts(text, at, x.text) /\ text \in Strings /\ child \in Seq(S) /\ depth \in Nat
            /\ fmt \in BOOLEAN
        BY <2>5
      <4>2. /\ ChildrenPrinted(child, depth, deeper) /\ HaveNames(child)
            /\ MembersRead(child, depth, deeper, text, at, below)
        BY <2>1, <3>2 DEF ChildrenPrinted, HaveNames, MembersRead
      <4> QED
        BY ONLY <1>2, <2>3, <3>1, <4>1, <4>2, ObjectRead
    <3> QED
      BY <3>3 DEF below, ListReadBack
  <2>6. IsValueText(x) /\ ReadsAs(x, Item("object", <<>>, 0, child))
    BY <1>0, <2>2, <2>4, <2>5, ContainerWell
  <2> QED
    BY <2>6 DEF x
<1> QED
  BY <1>1, <1>2

(* Every item with at most n levels prints to a text that is read as it.     *)
Well(n) ==
  \A item \in ItemsTo[n], depth \in Nat, fmt \in BOOLEAN :
    /\ IsValueText(Prints(fmt)[n][item][depth])
    /\ ReadsAs(Prints(fmt)[n][item][depth], Named(<<>>, item))

(* Items of one level are read back when those of the level below are.       *)
LEMMA LevelWell ==
  ASSUME NEW n \in 0 .. Nesting, n # 0 => Well(n - 1)
  PROVE  Well(n)
<1> SUFFICES ASSUME NEW item \in ItemsTo[n], NEW depth \in Nat, NEW fmt \in BOOLEAN
             PROVE  /\ IsValueText(Prints(fmt)[n][item][depth])
                    /\ ReadsAs(Prints(fmt)[n][item][depth], Named(<<>>, item))
  BY DEF Well
<1> DEFINE D == IF n = 0 THEN <<>> ELSE Prints(fmt)[n - 1]
           C == IF n = 0 THEN {<<>>} ELSE Seq(ItemsTo[n - 1])
           S == IF n = 0 THEN {} ELSE ItemsTo[n - 1]
           x == print_value(item, depth, fmt, D)
           child == item.child
           y == Named(<<>>, item)
<1>1. Prints(fmt)[n][item][depth] = x
  BY PrintsAre
<1>2. IsItem(item, C)
  BY ItemIs
<1>3. child \in Seq(S)
  <2>1. child \in C
    BY <1>2 DEF IsItem
  <2>2. CASE n = 0
    <3>1. child = <<>>
      BY <2>1, <2>2
    <3>2. \A R : <<>> \in Seq(R)
      OBVIOUS
    <3> HIDE DEF child
    <3> QED
      BY <3>1, <3>2
  <2>3. CASE n # 0
    BY <2>1, <2>3
  <2> QED
    BY <2>2, <2>3
<1>4. ASSUME NEW k \in 1 .. Len(child)
      PROVE  /\ IsValueText(D[child[k]][depth + 1])
             /\ ReadsAs(D[child[k]][depth + 1], Named(<<>>, child[k]))
             /\ child[k].string \in Strings
             /\ Named(child[k].string, Named(<<>>, child[k])) = child[k]
             /\ child[k].string = <<>> => Named(<<>>, child[k]) = child[k]
  <2> DEFINE i == child[k]
             m == n - 1
             d == depth + 1
  <2>1. i \in S /\ n # 0
    <3>1. i \in S
      <4> HIDE DEF S, child
      <4> QED
        BY <1>3
    <3> QED
      BY <3>1
  <2>2. i \in ItemsTo[m] /\ m \in 0 .. Nesting /\ d \in Nat /\ D = Prints(fmt)[m]
    BY <2>1, NestingAssumption
  <2>3. Well(m)
    BY <2>1
  <2> HIDE DEF i, m, d, D
  <2>4. IsValueText(D[i][d]) /\ ReadsAs(D[i][d], Named(<<>>, i))
    BY <2>2, <2>3 DEF Well
  <2> DEFINE E == IF m = 0 THEN {<<>>} ELSE Seq(ItemsTo[m - 1])
  <2>5. IsItem(i, E)
    BY <2>2, ItemIs
  <2> HIDE DEF E
  <2>6. i.string \in Strings
    BY <2>5 DEF IsItem
  <2>7. /\ Named(i.string, Named(<<>>, i)) = i
        /\ i.string = <<>> => Named(<<>>, i) = i
    BY <2>5, ItemNamed
  <2> QED
    BY <2>4, <2>6, <2>7 DEF i, d
<1>5. y = Item(item.type, item.valuestring, item.valueint, child)
  BY <1>2, ItemNamed
<1> HIDE DEF D, C, S, y
<1>6. CASE item.type = "null"
  <2>1. x = End(Out(<<>>, 5), Null)
    BY <1>6, PrintKinds
  <2>2. y = Item("null", <<>>, 0, <<>>)
    BY <1>2, <1>5, <1>6 DEF IsItem
  <2> HIDE DEF x
  <2> QED
    BY <1>1, <2>1, <2>2, WordRead DEF y
<1>7. CASE item.type = "false"
  <2>1. x = End(Out(<<>>, 6), False)
    BY <1>7, PrintKinds
  <2>2. y = Item("false", <<>>, 0, <<>>)
    BY <1>2, <1>5, <1>7 DEF IsItem
  <2> HIDE DEF x
  <2> QED
    BY <1>1, <2>1, <2>2, WordRead DEF y
<1>8. CASE item.type = "true"
  <2>1. x = End(Out(<<>>, 5), True)
    BY <1>8, PrintKinds
  <2>2. y = Item("true", <<>>, 1, <<>>)
    BY <1>2, <1>5, <1>8 DEF IsItem
  <2> HIDE DEF x
  <2> QED
    BY <1>1, <2>1, <2>2, WordRead DEF y
<1>9. CASE item.type = "number"
  <2>1. x = print_number(item.valueint)
    BY <1>9, PrintKinds
  <2>2. y = Item("number", <<>>, item.valueint, <<>>) /\ item.valueint \in Ints
    BY <1>2, <1>5, <1>9 DEF IsItem
  <2> HIDE DEF x
  <2> QED
    BY <1>1, <2>1, <2>2, NumberWell DEF y
<1>10. CASE item.type = "string"
  <2>1. x = print_string_ptr(item.valuestring)
    BY <1>10, PrintKinds
  <2>2. y = Item("string", item.valuestring, 0, <<>>) /\ item.valuestring \in Strings
    BY <1>2, <1>5, <1>10 DEF IsItem
  <2> HIDE DEF x
  <2> QED
    BY <1>1, <2>1, <2>2, StringWell DEF y
<1>11. CASE item.type = "array"
  <2>1. x = print_array(child, depth, fmt, D)
    BY <1>11, PrintKinds
  <2>2. y = Item("array", <<>>, 0, child)
    BY <1>2, <1>5, <1>11 DEF IsItem
  <2>3. \A k \in DOMAIN child : child[k].string = <<>>
    BY <1>2, <1>11 DEF IsItem
  <2> HIDE DEF x, child
  <2>4. \A k \in 1 .. Len(child) : IsValueText(D[child[k]][depth + 1]) /\ ReadsAs(D[child[k]][depth + 1], child[k])
    <3> SUFFICES ASSUME NEW k \in 1 .. Len(child)
                 PROVE  IsValueText(D[child[k]][depth + 1]) /\ ReadsAs(D[child[k]][depth + 1], child[k])
      OBVIOUS
    <3>1. k \in DOMAIN child
      BY <1>3
    <3>2. Named(<<>>, child[k]) = child[k]
      BY <1>4, <2>3, <3>1
    <3>3. IsValueText(D[child[k]][depth + 1]) /\ ReadsAs(D[child[k]][depth + 1], Named(<<>>, child[k]))
      BY <1>4
    <3> QED
      BY <3>2, <3>3
  <2>5. IsValueText(x) /\ ReadsAs(x, Item("array", <<>>, 0, child))
    BY <1>3, <2>1, <2>4, ArrayWell
  <2> QED
    BY <1>1, <2>2, <2>5 DEF y
<1>12. CASE item.type = "object"
  <2>1. x = print_object(child, depth, fmt, D)
    BY <1>12, PrintKinds
  <2>2. y = Item("object", <<>>, 0, child)
    BY <1>2, <1>5, <1>12 DEF IsItem
  <2> HIDE DEF x, child
  <2>3. /\ \A k \in 1 .. Len(child) : child[k].string \in Strings
        /\ \A k \in 1 .. Len(child) : Named(child[k].string, Named(<<>>, child[k])) = child[k]
        /\ \A k \in 1 .. Len(child) :
             IsValueText(D[child[k]][depth + 1]) /\ ReadsAs(D[child[k]][depth + 1], Named(<<>>, child[k]))
    BY <1>4
  <2>4. IsValueText(x) /\ ReadsAs(x, Item("object", <<>>, 0, child))
    BY <1>3, <2>1, <2>3, ObjectWell
  <2> QED
    BY <1>1, <2>2, <2>4 DEF y
<1>13. item.type \in Types
  BY <1>2 DEF IsItem
<1> HIDE DEF x, child
<1> QED
  BY <1>6, <1>7, <1>8, <1>9, <1>10, <1>11, <1>12, <1>13 DEF Types

(* So they are on every level.                                               *)
LEMMA AllWell == \A n \in 0 .. Nesting : Well(n)
<1> DEFINE T == {n \in 0 .. Nesting : Well(n)}
<1>1. Nesting \in Nat
  BY NestingAssumption
<1>2. 0 \in T
  <2>1. 0 \in 0 .. Nesting /\ ~ (0 # 0)
    BY <1>1
  <2> QED
    BY <2>1, LevelWell
<1>3. ASSUME NEW n \in 0 .. Nesting - 1, n \in T PROVE n + 1 \in T
  <2> DEFINE m == n + 1
  <2>1. m \in 0 .. Nesting /\ m - 1 = n
    BY <1>1
  <2>2. Well(m - 1)
    BY <1>3, <2>1
  <2> HIDE DEF m
  <2>3. Well(m)
    BY <2>1, <2>2, LevelWell
  <2> QED
    BY <2>1, <2>3 DEF m
<1> HIDE DEF T
<1>4. \A n \in 0 .. Nesting : n \in T
  BY <1>1, <1>2, <1>3, UpTo
<1> QED
  BY <1>4 DEF T

(* Every tree printed either way is read back, and fits.                     *)
LEMMA TreeReadsBack ==
  ASSUME NEW item \in ItemsTo[Nesting], item.string = <<>>
  PROVE  ReadsBack(item)
<1>1. Nesting \in 0 .. Nesting /\ 0 \in Nat
  BY NestingAssumption
<1>2. ASSUME NEW fmt \in BOOLEAN
      PROVE  Printed(item, fmt).fits = TRUE /\ cJSON_Parse(Printed(item, fmt).text) = {item}
  <2> DEFINE e == Printed(item, fmt)
             text == e.text
             N == Len(text)
  <2>1. IsValueText(e) /\ ReadsAs(e, Named(<<>>, item))
    <3>1. Well(Nesting)
      BY <1>1, AllWell
    <3> QED
      BY <1>1, <3>1 DEF Well, Printed
  <2>2. Named(<<>>, item) = item
    <3>1. IsItem(item, IF Nesting = 0 THEN {<<>>} ELSE Seq(ItemsTo[Nesting - 1]))
      BY <1>1, ItemIs
    <3> QED
      BY <3>1, ItemNamed
  <2> HIDE DEF e
  <2>3. text \in Strings /\ e.fits = TRUE /\ N \in Nat /\ N >= 1 /\ text[1] > Space
    BY <2>1 DEF IsValueText, IsPart
  <2>4. Char(text, 1) = text[1] /\ Char(text, 1 + N) = 0
    BY <2>3 DEF Char
  <2>5. skip(text, 1) = 1
    <3> HIDE DEF text
    <3> QED
      BY <2>3, <2>4, SkipNone
  <2>6. Starts(text, 1, text)
    BY <2>3, StartsItself
  <2>7. 1 \in 1 .. N /\ N + 1 \in 1 .. N + 1 /\ N + 1 >= N - 1 + 2
    <3> HIDE DEF N
    <3> QED
      BY <2>3
  <2>8. Char(text, 1 + N) \notin Digits
    <3> HIDE DEF text, N
    <3> QED
      BY <2>4 DEF Digits, DigitZero
  <2>9. Values(text)[N + 1][1] = Read(item, 1 + N)
    BY <2>1, <2>2, <2>3, <2>6, <2>7, <2>8 DEF ReadsAs
  <2> HIDE DEF text, N
  <2>10. cJSON_Parse(text) = {r.item : r \in Read(item, 1 + N)}
    BY <2>5, <2>9 DEF cJSON_Parse, N
  <2>11. {r.item : r \in Read(item, 1 + N)} = {item}
    BY DEF Read
  <2> QED
    BY <2>3, <2>10, <2>11 DEF text, e
<1> QED
  BY <1>2 DEF ReadsBack, cJSON_Print, cJSON_PrintUnformatted

(* Settings that were saved are the settings of the next boot: every tree of *)
(* the set to print, however deep and whatever the bytes of its texts and    *)
(* the digits of its numbers, is read back by cJSON_Parse from what          *)
(* cJSON_Print and cJSON_PrintUnformatted make of it, and neither writes     *)
(* behind the room allocated (cJSON.c).                                      *)
THEOREM TreesAreReadBack == CodecsSpec => []TreesRead
<1>1. CodecsInit => TreesRead
  BY DEF CodecsInit, TreesRead, NoInput
<1>2. TreesRead /\ [CodecsNext]_codecsVars => TreesRead'
  <2> SUFFICES ASSUME TreesRead, [CodecsNext]_codecsVars
               PROVE  TreesRead'
    OBVIOUS
  <2>1. CASE UNCHANGED input
    BY <2>1 DEF TreesRead
  <2>2. CASE PrintTree
    <3>1. PICK t \in Trees : input' = [of |-> "tree", value |-> t]
      BY <2>2 DEF PrintTree
    <3>2. t \in ItemsTo[Nesting] /\ t.string = <<>>
      BY <3>1, TreesAssumption
    <3>3. ReadsBack(t)
      BY <3>2, TreeReadsBack
    <3> QED
      BY <3>1, <3>3 DEF TreesRead
  <2>3. CASE ReadAnswer
    BY <2>3 DEF ReadAnswer, TreesRead
  <2>4. CASE ReadVersion
    BY <2>4 DEF ReadVersion, TreesRead
  <2>5. CASE BootApps
    BY <2>5 DEF BootApps, TreesRead
  <2>6. CASE CallRing
    BY <2>6 DEF CallRing, CallsRing, TreesRead
  <2>7. CASE WritePacket
    BY <2>1, <2>7 DEF WritePacket
  <2>8. CASE CutText
    BY <2>8 DEF CutText, TreesRead
  <2> QED
    BY <2>1, <2>2, <2>3, <2>4, <2>5, <2>6, <2>7, <2>8 DEF CodecsNext, codecsVars
<1> QED
  BY <1>1, <1>2, PTL DEF CodecsSpec
----------------------------------------------------------------------------
(* The version of the firmware. What a character does to the reading.        *)
Readings == [value : Nat, byte : Nat, version_bin : Nat, result : SUBSET Int]
Passed(r, chr) == [r EXCEPT !.value = r.value * 10 + (chr - DigitZero)]
Fails(r) == r.result = {-1}

Ends(r, chr, n, q) ==
  /\ q \in Readings /\ q.version_bin = n
  /\ r.byte + 1 >= VERSION_BYTE => q.result = {AsInt8(n)}
  /\ r.byte + 1 < VERSION_BYTE => IF chr = 0 THEN Fails(q)
       ELSE q = [value |-> 0, byte |-> r.byte + 1, version_bin |-> n, result |-> r.result]

LEMMA EndIs ==
  ASSUME NEW r \in Readings, NEW chr \in {Dot, 0}
  PROVE  Ends(r, chr, r.version_bin * 256 + r.value, ReadEnd(r, chr))
<1> DEFINE n == r.version_bin * 256 + r.value
           q == [value |-> 0, byte |-> r.byte + 1, version_bin |-> n, result |-> r.result]
<1>1. /\ r.version_bin \in Nat /\ r.value \in Nat /\ r.byte \in Nat /\ r.result \in SUBSET Int
      /\ r = [value |-> r.value, byte |-> r.byte, version_bin |-> r.version_bin,
              result |-> r.result]
  BY DEF Readings
<1>2. n \in Nat /\ r.byte + 1 \in Nat
  BY <1>1
<1>3. AsInt8(n) \in Int
  BY <1>2 DEF AsInt8
<1>4. /\ r.byte + 1 >= VERSION_BYTE => ReadEnd(r, chr) =
             [value |-> 0, byte |-> r.byte + 1, version_bin |-> n, result |-> {AsInt8(n)}]
      /\ r.byte + 1 < VERSION_BYTE /\ chr = 0 => ReadEnd(r, chr) =
             [value |-> 0, byte |-> r.byte + 1, version_bin |-> n, result |-> {-1}]
      /\ r.byte + 1 < VERSION_BYTE /\ chr # 0 => ReadEnd(r, chr) = q
  <2> DEFINE q0 == [r EXCEPT !.version_bin = n, !.byte = @ + 1, !.value = 0]
  <2>1. q0 = q /\ q0.byte = r.byte + 1
    <3> HIDE DEF n
    <3>1. q0 \in Readings /\ q \in Readings
      BY <1>1, <1>2 DEF Readings
    <3>2. /\ q0.value = 0 /\ q0.byte = r.byte + 1
          /\ q0.version_bin = n /\ q0.result = r.result
      BY DEF Readings
    <3>3. /\ q.value = 0 /\ q.byte = r.byte + 1 /\ q.version_bin = n /\ q.result = r.result
      OBVIOUS
    <3>4. \A x, y \in Readings : x.value = y.value /\ x.byte = y.byte
            /\ x.version_bin = y.version_bin /\ x.result = y.result => x = y
      BY DEF Readings
    <3> HIDE DEF q0, q
    <3> QED
      BY <3>1, <3>2, <3>3, <3>4
  <2>2. ReadEnd(r, chr) = IF q0.byte >= VERSION_BYTE THEN [q0 EXCEPT !.result = {AsInt8(n)}]
                        ELSE IF chr = 0 THEN [q0 EXCEPT !.result = {-1}] ELSE q0
    BY Zenon DEF ReadEnd
  <2>3. /\ [q EXCEPT !.result = {AsInt8(n)}] =
             [value |-> 0, byte |-> r.byte + 1, version_bin |-> n, result |-> {AsInt8(n)}]
        /\ [q EXCEPT !.result = {-1}] =
             [value |-> 0, byte |-> r.byte + 1, version_bin |-> n, result |-> {-1}]
    OBVIOUS
  <2>4. r.byte + 1 < VERSION_BYTE <=> ~ (r.byte + 1 >= VERSION_BYTE)
    BY <1>2 DEF VERSION_BYTE
  <2> HIDE DEF n, q, q0
  <2> QED
    BY <2>1, <2>2, <2>3, <2>4, Zenon
<1> HIDE DEF n
<1>5. CASE r.byte + 1 >= VERSION_BYTE
  BY <1>2, <1>3, <1>4, <1>5 DEF Readings, n, VERSION_BYTE, Ends
<1>6. CASE r.byte + 1 < VERSION_BYTE /\ chr = 0
  BY <1>2, <1>4, <1>6 DEF Readings, n, Fails, VERSION_BYTE, Ends
<1>7. CASE r.byte + 1 < VERSION_BYTE /\ chr # 0
  BY <1>1, <1>2, <1>4, <1>7 DEF Readings, n, VERSION_BYTE, Ends
<1> QED
  BY <1>2, <1>5, <1>6, <1>7 DEF VERSION_BYTE

LEMMA CharacterIs ==
  ASSUME NEW r \in Readings, NEW chr \in 0 .. 255
  PROVE  LET q == ReadCharacter(r, chr)
         IN  /\ q \in Readings
             /\ r.result # {} => q = r
             /\ r.result = {} /\ chr \in Digits =>
                  IF Passed(r, chr).value <= DigitMax THEN q = Passed(r, chr) ELSE Fails(q)
             /\ r.result = {} /\ chr \in {Dot, 0} => q = ReadEnd(r, chr)
             /\ r.result = {} /\ chr \notin Digits \cup {Dot, 0} => Fails(q)
<1> DEFINE v == r.value * 10 + (chr - DigitZero)
           failed == [r EXCEPT !.result = {-1}]
<1>1. failed \in Readings /\ Fails(failed)
  BY DEF Readings, Fails
<1>2. CASE r.result # {}
  BY <1>2 DEF ReadCharacter
<1>3. CASE r.result = {} /\ chr \in Digits
  <2>1. v \in Nat
    BY <1>3 DEF Readings, Digits, DigitZero
  <2>2. Dot \notin Digits /\ 0 \notin Digits
    BY DEF Dot, Digits, DigitZero
  <2>3. ReadCharacter(r, chr) = ReadDigit(r, chr)
    BY <1>3, <2>2, Zenon DEF ReadCharacter
  <2>4. Passed(r, chr) = [r EXCEPT !.value = v] /\ Passed(r, chr).value = v
    BY DEF Passed, Readings
  <2>5. ReadDigit(r, chr) = IF v > DigitMax THEN failed ELSE Passed(r, chr)
    BY <2>4, Zenon DEF ReadDigit
  <2>6. Passed(r, chr) \in Readings
    BY <2>1, <2>4 DEF Readings
  <2>7. chr \notin {Dot, 0}
    BY <1>3, <2>2
  <2> HIDE DEF v, failed
  <2>8. v > DigitMax <=> ~ (v <= DigitMax)
    BY <2>1, DigitAssumption
  <2> QED
    BY <1>1, <1>3, <2>3, <2>4, <2>5, <2>6, <2>7, <2>8, Zenon
<1>4. CASE r.result = {} /\ chr \in {Dot, 0}
  <2>1. chr \notin Digits
    BY <1>4 DEF Dot, Digits, DigitZero
  <2>2. ReadCharacter(r, chr) = ReadEnd(r, chr)
    BY <1>4, <2>1, Zenon DEF ReadCharacter
  <2>3. ReadEnd(r, chr) \in Readings
    BY <1>4, EndIs DEF Ends
  <2> QED
    BY <1>4, <2>1, <2>2, <2>3, Zenon
<1>5. CASE r.result = {} /\ chr \notin Digits /\ chr \notin {Dot, 0}
  <2>1. ReadCharacter(r, chr) = failed
    BY <1>5, Zenon DEF ReadCharacter
  <2> QED
    BY <1>1, <1>5, <2>1, Zenon
<1> QED
  BY <1>2, <1>3, <1>4, <1>5, Zenon

(* The readings after each character of a version and after its end.         *)
CharOf(version, n) == IF n <= Len(version) THEN version[n] ELSE 0
IsRead(read, version) ==
  /\ read \in [0 .. Len(version) + 1 -> Readings] /\ read[0] = Reading
  /\ \A n \in 1 .. Len(version) + 1 :
       read[n] = ReadCharacter(read[n - 1], CharOf(version, n))

LEMMA ReadingIs ==
  ASSUME NEW version \in Seq(1 .. 255)
  PROVE  \E read : IsRead(read, version) /\ convert_version(version) = read[Len(version) + 1]
<1> DEFINE N == Len(version) + 1
           text == Append(version, 0)
           F(w) == [n \in 0 .. N |-> IF n = 0 THEN Reading ELSE ReadCharacter(w[n - 1], text[n])]
           read == CHOOSE w : w = F(w)
           step == [x \in Readings \X (1 .. N) |-> ReadCharacter(x[1], text[x[2]])]
<1>1. /\ Len(text) = N /\ N \in Nat /\ N - 1 = Len(version)
      /\ \A n \in 1 .. N : text[n] \in 0 .. 255 /\ text[n] = CharOf(version, n)
  <2>1. Len(version) \in Nat /\ Len(text) = Len(version) + 1
        /\ \A n \in 1 .. Len(version) : version[n] \in 1 .. 255
    <3>1. version \in Seq(0 .. 255) /\ 0 \in 0 .. 255 /\ Len(version) \in Nat
      OBVIOUS
    <3>2. \A n \in 1 .. Len(version) : version[n] \in 1 .. 255
      BY ElementOfSeq
    <3>3. Len(Append(version, 0)) = Len(version) + 1
      BY <3>1, AppendProperties
    <3> QED
      BY <3>1, <3>2, <3>3
  <2>2. ASSUME NEW n \in 1 .. N PROVE text[n] \in 0 .. 255 /\ text[n] = CharOf(version, n)
    <3>1. CASE n <= Len(version)
      <4>1. n \in 1 .. Len(version) /\ text[n] = version[n]
        BY <2>1, <3>1, AppendProperties
      <4> QED
        BY <2>1, <3>1, <4>1 DEF CharOf
    <3>2. CASE ~ (n <= Len(version))
      <4>1. n = Len(version) + 1 /\ text[n] = 0
        BY <2>1, <3>2
      <4> QED
        BY <3>2, <4>1 DEF CharOf
    <3> QED
      BY <3>1, <3>2
  <2> QED
    BY <2>1, <2>2
<1>2. Reading \in Readings
  BY DEF Reading, Readings
<1>3. convert_version(version) = read[N]
  BY <1>1 DEF convert_version
<1> HIDE DEF N, text
<1>4. step \in Moves(Readings, N)
  <2>1. ASSUME NEW x \in Readings \X (1 .. N)
        PROVE ReadCharacter(x[1], text[x[2]]) \in Readings
    <3>1. x[1] \in Readings /\ text[x[2]] \in 0 .. 255
      BY <1>1
    <3> QED
      BY <3>1, CharacterIs
  <2> QED
    BY <2>1 DEF Moves
<1>5. PICK w : IsWalk(w, Readings, N, Reading, step)
  <2> HIDE DEF step, F, read
  <2> QED
    BY ONLY <1>1, <1>2, <1>4, WalkExists
<1>6. /\ w \in [0 .. N -> Readings] /\ w[0] = Reading
      /\ \A i \in 1 .. N : w[i] = ReadCharacter(w[i - 1], text[i])
  <2>1. /\ w \in [0 .. N -> Readings] /\ w[0] = Reading
        /\ \A i \in 1 .. N : w[i] = step[<<w[i - 1], i>>]
    BY <1>5 DEF IsWalk
  <2>2. ASSUME NEW i \in 1 .. N PROVE w[i] = ReadCharacter(w[i - 1], text[i])
    <3>1. i - 1 \in 0 .. N
      BY <1>1
    <3>2. w[i - 1] \in Readings
      BY <2>1, <3>1
    <3>3. <<w[i - 1], i>> \in Readings \X (1 .. N)
      BY <3>2
    <3> QED
      BY <2>1, <3>3
  <2> QED
    BY <2>1, <2>2
<1>7. w = F(w)
  <2>1. w = [n \in 0 .. N |-> w[n]]
    BY <1>6
  <2>2. \A n \in 0 .. N : w[n] = IF n = 0 THEN Reading ELSE ReadCharacter(w[n - 1], text[n])
    BY <1>1, <1>6
  <2> QED
    BY <2>1, <2>2
<1>8. read = F(read)
  <2> HIDE DEF F
  <2> QED
    BY <1>7
<1> HIDE DEF read
<1>9. /\ DOMAIN read = 0 .. N /\ read[0] = Reading
      /\ \A n \in 1 .. N : read[n] = ReadCharacter(read[n - 1], text[n])
  <2>1. DOMAIN read = 0 .. N
    BY <1>8
  <2>2. \A n \in 0 .. N : read[n] = IF n = 0 THEN Reading ELSE ReadCharacter(read[n - 1], text[n])
    BY <1>8
  <2>3. 0 \in 0 .. N /\ \A n \in 1 .. N : n \in 0 .. N /\ n # 0
    BY <1>1
  <2> HIDE DEF F
  <2> QED
    BY <2>1, <2>2, <2>3
<1> DEFINE T == {n \in 0 .. N : read[n] \in Readings}
<1>10. 0 \in T
  BY <1>1, <1>2, <1>9
<1>11. ASSUME NEW n \in 0 .. N - 1, n \in T PROVE n + 1 \in T
  <2>1. n + 1 \in 1 .. N /\ n + 1 \in 0 .. N /\ (n + 1) - 1 = n
    BY <1>1
  <2>2. read[n + 1] = ReadCharacter(read[n], text[n + 1])
    BY <1>9, <2>1
  <2>3. text[n + 1] \in 0 .. 255 /\ read[n] \in Readings
    BY <1>1, <1>11, <2>1
  <2>4. read[n + 1] \in Readings
    BY <2>2, <2>3, CharacterIs
  <2> QED
    BY <2>1, <2>4
<1>12. \A n \in 0 .. N : n \in T
  <2> HIDE DEF T
  <2> QED
    BY <1>1, <1>10, <1>11, UpTo
<1>13. read \in [0 .. N -> Readings]
  BY <1>8, <1>12
<1>14. IsRead(read, version)
  BY <1>1, <1>9, <1>13 DEF IsRead, N
<1> QED
  BY <1>3, <1>14 DEF N

(* What is decided stays: nothing after it is looked at.                     *)
LEMMA StaysDecided ==
  ASSUME NEW version \in Seq(1 .. 255), NEW read, IsRead(read, version),
         NEW at \in 0 .. Len(version) + 1, read[at].result # {},
         NEW to \in at .. Len(version) + 1
  PROVE  read[to] = read[at]
<1> DEFINE M == Len(version) + 1
           T == {n \in 0 .. M - at : read[at + n] = read[at]}
<1>1. M \in Nat /\ at \in Nat /\ M - at \in Nat /\ to - at \in 0 .. M - at /\ at + (to - at) = to
  OBVIOUS
<1>2. 0 \in T
  BY <1>1
<1>3. ASSUME NEW n \in 0 .. (M - at) - 1, n \in T PROVE n + 1 \in T
  <2>1. /\ at + n \in 0 .. M /\ at + n + 1 \in 1 .. M /\ (at + n + 1) - 1 = at + n
        /\ n + 1 \in 0 .. M - at /\ at + (n + 1) = at + n + 1
    BY <1>1
  <2>2. read[at + n] \in Readings /\ read[at + n].result # {}
    BY <1>3, <2>1 DEF IsRead
  <2>3. read[at + n + 1] = ReadCharacter(read[at + n], CharOf(version, at + n + 1))
    BY <2>1 DEF IsRead
  <2>4. CharOf(version, at + n + 1) \in 0 .. 255
    <3>1. \A k \in 1 .. Len(version) : version[k] \in 1 .. 255
      BY ElementOfSeq
    <3>2. at + n + 1 <= Len(version) => at + n + 1 \in 1 .. Len(version)
      BY <2>1
    <3> QED
      BY <3>1, <3>2 DEF CharOf
  <2>5. read[at + n + 1] = read[at + n]
    BY <2>2, <2>3, <2>4, CharacterIs
  <2> QED
    BY <1>3, <2>1, <2>5
<1>4. \A n \in 0 .. M - at : n \in T
  <2> HIDE DEF T, M
  <2> QED
    BY <1>1, <1>2, <1>3, UpTo
<1>5. read[at + (to - at)] = read[at]
  BY <1>1, <1>4
<1> QED
  BY <1>1, <1>5

(* The value of a part is computed digit by digit.                           *)
PartChars == (1 .. 255) \ {Dot}
IsValuing(value, part) ==
  /\ value \in [0 .. Len(part) -> Int] /\ value[0] = 0
  /\ \A n \in 1 .. Len(part) : value[n] = value[n - 1] * 10 + (part[n] - DigitZero)

LEMMA PartValueIs ==
  ASSUME NEW part \in Seq(PartChars)
  PROVE  \E value : IsValuing(value, part) /\ PartValue(part) = value[Len(part)]
<1> DEFINE N == Len(part)
           F(w) == [n \in 0 .. N |-> IF n = 0 THEN 0 ELSE w[n - 1] * 10 + (part[n] - DigitZero)]
           value == CHOOSE w : w = F(w)
           step == [x \in Int \X (1 .. N) |-> x[1] * 10 + (part[x[2]] - DigitZero)]
<1>1. N \in Nat /\ \A n \in 1 .. N : part[n] - DigitZero \in Int
  <2>1. \A n \in 1 .. N : part[n] \in PartChars
    BY ElementOfSeq
  <2>2. \A chr \in PartChars : chr - DigitZero \in Int
    BY DEF PartChars, DigitZero
  <2>3. N \in Nat
    OBVIOUS
  <2> HIDE DEF N
  <2> QED
    BY <2>1, <2>2, <2>3
<1>2. PartValue(part) = value[N]
  BY DEF PartValue
<1> HIDE DEF N
<1>3. step \in Moves(Int, N)
  BY <1>1 DEF Moves
<1>4. PICK w : IsWalk(w, Int, N, 0, step)
  <2>1. 0 \in Int
    OBVIOUS
  <2> HIDE DEF step, F, value
  <2> QED
    BY ONLY <1>1, <1>3, <2>1, WalkExists
<1>5. /\ w \in [0 .. N -> Int] /\ w[0] = 0
      /\ \A i \in 1 .. N : w[i] = w[i - 1] * 10 + (part[i] - DigitZero)
  <2>1. /\ w \in [0 .. N -> Int] /\ w[0] = 0
        /\ \A i \in 1 .. N : w[i] = step[<<w[i - 1], i>>]
    BY <1>4 DEF IsWalk
  <2>2. ASSUME NEW i \in 1 .. N PROVE w[i] = w[i - 1] * 10 + (part[i] - DigitZero)
    <3>1. i - 1 \in 0 .. N
      BY <1>1
    <3>2. w[i - 1] \in Int
      BY <2>1, <3>1
    <3>3. <<w[i - 1], i>> \in Int \X (1 .. N)
      BY <3>2
    <3> QED
      BY <2>1, <3>3
  <2> QED
    BY <2>1, <2>2
<1>6. w = F(w)
  <2>1. w = [n \in 0 .. N |-> w[n]]
    BY <1>5
  <2>2. \A n \in 0 .. N : w[n] = IF n = 0 THEN 0 ELSE w[n - 1] * 10 + (part[n] - DigitZero)
    BY <1>1, <1>5
  <2> QED
    BY <2>1, <2>2
<1>7. value = F(value)
  <2> HIDE DEF F
  <2> QED
    BY <1>6
<1> HIDE DEF value
<1>8. /\ DOMAIN value = 0 .. N /\ value[0] = 0
      /\ \A n \in 1 .. N : value[n] = value[n - 1] * 10 + (part[n] - DigitZero)
  <2>1. DOMAIN value = 0 .. N
    BY <1>7
  <2>2. \A n \in 0 .. N : value[n] = IF n = 0 THEN 0 ELSE value[n - 1] * 10 + (part[n] - DigitZero)
    BY <1>7
  <2>3. 0 \in 0 .. N /\ \A n \in 1 .. N : n \in 0 .. N /\ n # 0
    BY <1>1
  <2> HIDE DEF F
  <2> QED
    BY <2>1, <2>2, <2>3
<1> DEFINE T == {n \in 0 .. N : value[n] \in Int}
<1>9. 0 \in T
  BY <1>1, <1>8
<1>10. ASSUME NEW n \in 0 .. N - 1, n \in T PROVE n + 1 \in T
  <2>1. n + 1 \in 1 .. N /\ n + 1 \in 0 .. N /\ (n + 1) - 1 = n
    BY <1>1
  <2>2. value[n + 1] = value[n] * 10 + (part[n + 1] - DigitZero) /\ value[n] \in Int
    BY <1>8, <1>10, <2>1
  <2> QED
    BY <1>1, <2>1, <2>2
<1>11. \A n \in 0 .. N : n \in T
  <2> HIDE DEF T
  <2> QED
    BY <1>1, <1>9, <1>10, UpTo
<1>12. value \in [0 .. N -> Int]
  BY <1>7, <1>11
<1>13. IsValuing(value, part)
  BY <1>8, <1>12 DEF IsValuing, N
<1> QED
  BY <1>2, <1>13 DEF N

(* Whether the first n characters of a part are digits of a value that is    *)
(* not too large.                                                            *)
Small(value, part, n) == \A k \in 1 .. n : part[k] \in Digits /\ value[k] <= DigitMax

LEMMA SmallIsByte ==
  ASSUME NEW part \in Seq(PartChars), NEW value, IsValuing(value, part),
         PartValue(part) = value[Len(part)]
  PROVE  Small(value, part, Len(part)) <=> IsByte(part)
<1> DEFINE N == Len(part)
<1>1. N \in Nat /\ Range(part) = {part[k] : k \in 1 .. N}
  BY DEF Range
<1>2. value[0] = 0 /\ \A k \in 0 .. N : value[k] \in Int
  BY DEF IsValuing
<1>3. ASSUME Small(value, part, N) PROVE IsByte(part)
  <2>1. Range(part) \subseteq Digits
    BY <1>1, <1>3 DEF Small
  <2>2. value[N] <= DigitMax
    <3>1. CASE N = 0
      BY <1>2, <3>1, DigitAssumption
    <3>2. CASE N # 0
      <4>1. N \in 1 .. N
        BY <1>1, <3>2
      <4> QED
        BY <1>3, <4>1 DEF Small
    <3> QED
      BY <3>1, <3>2
  <2> QED
    BY <2>1, <2>2 DEF IsByte
<1>4. ASSUME IsByte(part) PROVE Small(value, part, N)
  <2>1. \A k \in 1 .. N : part[k] \in Digits
    BY <1>1, <1>4 DEF IsByte
  <2>2. value[N] <= DigitMax
    BY <1>4 DEF IsByte
  <2> DEFINE T == {k \in 0 .. N : value[N - k] <= DigitMax /\ value[N - k] \in Int}
  <2> DEFINE U == {k \in 0 .. N : value[k] >= 0}
  <2>3. ASSUME NEW k \in 0 .. N - 1 PROVE
          value[k + 1] = value[k] * 10 + (part[k + 1] - DigitZero) /\ part[k + 1] - DigitZero \in 0 .. 9
    <3>1. k + 1 \in 1 .. N /\ (k + 1) - 1 = k
      BY <1>1
    <3>2. part[k + 1] \in Digits
      BY <2>1, <3>1
    <3> QED
      BY <3>1, <3>2 DEF IsValuing, Digits, DigitZero
  <2>4. \A k \in 0 .. N : k \in U
    <3>1. 0 \in U
      BY <1>1, <1>2
    <3>2. ASSUME NEW k \in 0 .. N - 1, k \in U PROVE k + 1 \in U
      <4>1. value[k] \in Int /\ value[k] >= 0 /\ k + 1 \in 0 .. N
        BY <1>1, <1>2, <3>2
      <4>2. value[k + 1] >= 0
        <5>1. \A a \in Int, d \in 0 .. 9 : a >= 0 => a * 10 + d >= 0
          OBVIOUS
        <5>2. value[k + 1] = value[k] * 10 + (part[k + 1] - DigitZero)
              /\ part[k + 1] - DigitZero \in 0 .. 9
          BY ONLY <2>3, k \in 0 .. N - 1, Zenon
        <5> QED
          BY ONLY <4>1, <5>1, <5>2, Zenon
      <4> QED
        BY <4>1, <4>2
    <3> HIDE DEF U, N
    <3> QED
      BY <1>1, <3>1, <3>2, UpTo
  <2>5. \A k \in 0 .. N : k \in T
    <3>1. 0 \in T
      BY <1>1, <1>2, <2>2
    <3>2. ASSUME NEW k \in 0 .. N - 1, k \in T PROVE k + 1 \in T
      <4>1. N - (k + 1) \in 0 .. N - 1 /\ N - (k + 1) + 1 = N - k /\ k + 1 \in 0 .. N
            /\ N - (k + 1) \in 0 .. N
        BY <1>1
      <4> DEFINE a == value[N - (k + 1)]
                 b == value[N - k]
                 d == part[N - k] - DigitZero
      <4>2. a \in Int /\ a >= 0 /\ b \in Int /\ b <= DigitMax
        BY <1>2, <2>4, <3>2, <4>1
      <4>3. b = a * 10 + d /\ d \in 0 .. 9
        <5> DEFINE j == N - (k + 1)
        <5>1. j \in 0 .. N - 1 /\ j + 1 = N - k
          BY <4>1
        <5>2. value[j + 1] = value[j] * 10 + (part[j + 1] - DigitZero)
              /\ part[j + 1] - DigitZero \in 0 .. 9
          <6> HIDE DEF j
          <6> QED
            BY <2>3, <5>1
        <5> QED
          BY <5>1, <5>2
      <4> HIDE DEF a, b, d
      <4>4. a <= DigitMax
        BY <4>2, <4>3, DigitAssumption
      <4> QED
        BY <4>1, <4>2, <4>4 DEF a
    <3> HIDE DEF T, N
    <3> QED
      BY <1>1, <3>1, <3>2, UpTo
  <2>6. ASSUME NEW k \in 1 .. N PROVE value[k] <= DigitMax
    <3>1. N - k \in 0 .. N /\ N - (N - k) = k
      BY <1>1
    <3> QED
      BY <2>5, <3>1
  <2> QED
    BY <2>1, <2>6 DEF Small
<1> QED
  BY <1>3, <1>4

(* A part that is read from value 0 on leaves its value, if it is a byte.    *)
LEMMA PartRead ==
  ASSUME NEW version \in Seq(1 .. 255), NEW read, IsRead(read, version),
         NEW part \in Seq(PartChars), NEW at \in Nat, at + Len(part) <= Len(version),
         \A k \in 1 .. Len(part) : version[at + k] = part[k],
         read[at].result = {}, read[at].value = 0
  PROVE  IF IsByte(part)
         THEN read[at + Len(part)] = [read[at] EXCEPT !.value = PartValue(part)]
         ELSE Fails(read[at + Len(part)])
<1> DEFINE N == Len(part)
           r == read[at]
<1>1. PICK value : IsValuing(value, part) /\ PartValue(part) = value[N]
  BY PartValueIs
<1>2. /\ N \in Nat /\ Len(version) \in Nat /\ value[0] = 0 /\ \A k \in 0 .. N : value[k] \in Int
      /\ \A k \in 1 .. N : value[k] = value[k - 1] * 10 + (part[k] - DigitZero)
  <2>1. /\ value \in [0 .. N -> Int] /\ value[0] = 0
        /\ \A k \in 1 .. N : value[k] = value[k - 1] * 10 + (part[k] - DigitZero)
    BY <1>1, Zenon DEF IsValuing
  <2>2. N \in Nat /\ Len(version) \in Nat
    OBVIOUS
  <2> HIDE DEF N
  <2> QED
    BY ONLY <2>1, <2>2, Zenon
<1> DEFINE Upto(n) == IF Small(value, part, n) THEN read[at + n] = [r EXCEPT !.value = value[n]]
                      ELSE Fails(read[at + n])
           T == {n \in 0 .. N : Upto(n)}
<1>3. r \in Readings /\ r.result = {} /\ r.value = 0
  <2>1. at \in 0 .. Len(version) + 1
    BY <1>2
  <2> QED
    BY <2>1 DEF IsRead
<1>4. 0 \in T
  <2>1. Small(value, part, 0)
    BY DEF Small
  <2>2. r = [r EXCEPT !.value = 0]
    BY <1>3 DEF Readings
  <2>3. at + 0 = at
    OBVIOUS
  <2> HIDE DEF r
  <2>4. Upto(0)
    BY <1>2, <2>1, <2>2, <2>3 DEF r
  <2> QED
    BY <1>2, <2>4
<1>5. ASSUME NEW n \in 0 .. N - 1, n \in T PROVE n + 1 \in T
  <2> DEFINE chr == part[n + 1]
             s == read[at + n]
             q == read[at + n + 1]
  <2>1. /\ n + 1 \in 1 .. N /\ n + 1 \in 0 .. N /\ (n + 1) - 1 = n /\ n \in 0 .. N /\ n \in Nat
        /\ at + n + 1 \in 1 .. Len(version) /\ at + n + 1 \in 1 .. Len(version) + 1
        /\ (at + n + 1) - 1 = at + n /\ at + (n + 1) = at + n + 1 /\ at + n \in 0 .. Len(version) + 1
    BY <1>2
  <2>2. chr \in 1 .. 255 /\ chr # Dot
    <3>1. part[n + 1] \in PartChars
      BY <2>1, ElementOfSeq
    <3> QED
      BY <3>1 DEF PartChars
  <2>3. CharOf(version, at + n + 1) = chr
    <3>1. version[at + (n + 1)] = part[n + 1]
      BY <2>1
    <3>2. at + n + 1 <= Len(version)
      BY <2>1
    <3> QED
      BY <2>1, <3>1, <3>2 DEF CharOf
  <2>4. s \in Readings /\ q = ReadCharacter(s, chr)
    BY <2>1, <2>3 DEF IsRead
  <2>5. Small(value, part, n + 1) <=>
          Small(value, part, n) /\ part[n + 1] \in Digits /\ value[n + 1] <= DigitMax
    <3>1. \A k : k \in 1 .. n + 1 <=> k \in 1 .. n \/ k = n + 1
      BY <2>1
    <3> QED
      BY <3>1 DEF Small
  <2>6. Upto(n)
    BY <1>5
  <2>7. q \in Readings /\ (s.result # {} => q = s)
        /\ (s.result = {} /\ chr \in Digits =>
              IF Passed(s, chr).value <= DigitMax THEN q = Passed(s, chr) ELSE Fails(q))
        /\ (s.result = {} /\ chr \notin Digits => Fails(q))
    <3>1. chr \in 0 .. 255 /\ chr \notin {Dot, 0}
      <4> HIDE DEF chr
      <4> QED
        BY <2>2
    <3> HIDE DEF chr, s, q
    <3> QED
      BY <2>4, <3>1, CharacterIs
  <2>8. CASE ~ Small(value, part, n)
    <3>1. Fails(s) /\ s.result # {}
      BY <2>6, <2>8 DEF Fails
    <3>2. Fails(q)
      BY <2>7, <3>1
    <3>3. Upto(n + 1)
      BY <2>1, <2>5, <2>8, <3>2
    <3> QED
      BY <2>1, <3>3
  <2>9. CASE Small(value, part, n)
    <3>1. s = [r EXCEPT !.value = value[n]]
      BY <2>6, <2>9
    <3>2. s.result = {} /\ s.value = value[n]
      BY <1>3, <3>1 DEF Readings
    <3>3. Passed(s, chr) = [r EXCEPT !.value = value[n + 1]] /\ Passed(s, chr).value = value[n + 1]
      <4>1. value[n + 1] = s.value * 10 + (chr - DigitZero)
        BY <1>2, <2>1, <3>2
      <4> HIDE DEF s, r, chr
      <4>2. Passed(s, chr) = [s EXCEPT !.value = value[n + 1]]
        BY <4>1 DEF Passed
      <4> QED
        BY <1>3, <3>1, <4>2 DEF Readings
    <3> HIDE DEF s, r, q, chr
    <3>4. IF Small(value, part, n + 1) THEN q = [r EXCEPT !.value = value[n + 1]] ELSE Fails(q)
      BY <2>5, <2>7, <2>9, <3>2, <3>3 DEF chr
    <3>5. Upto(n + 1)
      BY <2>1, <3>4 DEF q
    <3> QED
      BY <2>1, <3>5
  <2> QED
    BY <2>8, <2>9
<1>6. N \in T
  <2> HIDE DEF T, N
  <2>1. \A n \in 0 .. N : n \in T
    BY <1>2, <1>4, <1>5, UpTo
  <2> QED
    BY <1>2, <2>1
<1>7. Small(value, part, N) <=> IsByte(part)
  BY <1>1, SmallIsByte
<1> QED
  BY <1>1, <1>6, <1>7

(* The text of a version, part after part.                                   *)
IsDotting(text, parts) ==
  /\ text \in [0 .. Len(parts) -> Seq(1 .. 255)] /\ text[0] = <<>>
  /\ \A n \in 1 .. Len(parts) :
       text[n] = text[n - 1] \o (IF n = 1 THEN <<>> ELSE <<Dot>>) \o parts[n]

LEMMA DottedIs ==
  ASSUME NEW parts \in Seq(Seq(PartChars))
  PROVE  \E text : IsDotting(text, parts) /\ Dotted(parts) = text[Len(parts)]
<1> DEFINE N == Len(parts)
           Next1(s, n) == s \o (IF n = 1 THEN <<>> ELSE <<Dot>>) \o parts[n]
           F(w) == [n \in 0 .. N |-> IF n = 0 THEN <<>> ELSE Next1(w[n - 1], n)]
           text == CHOOSE w : w = F(w)
           step == [x \in Seq(1 .. 255) \X (1 .. N) |-> Next1(x[1], x[2])]
<1>1. N \in Nat
  OBVIOUS
<1>2. ASSUME NEW s \in Seq(1 .. 255), NEW n \in 1 .. N PROVE Next1(s, n) \in Seq(1 .. 255)
  <2>1. parts[n] \in Seq(PartChars)
    BY <1>2, ElementOfSeq
  <2>2. parts[n] \in Seq(1 .. 255)
    <3>1. PartChars \subseteq 1 .. 255
      BY DEF PartChars
    <3> DEFINE p == parts[n]
               R == 1 .. 255
    <3> HIDE DEF p, R
    <3>2. p \in Seq(PartChars) /\ PartChars \subseteq R
      BY ONLY <2>1, <3>1 DEF p, R
    <3>3. p \in Seq(R)
      BY ONLY <3>2, SeqMonotonic
    <3> QED
      BY ONLY <3>3 DEF p, R
  <2>3. (IF n = 1 THEN <<>> ELSE <<Dot>>) \in Seq(1 .. 255)
    <3>1. <<>> \in Seq(1 .. 255)
      OBVIOUS
    <3>2. Dot \in 1 .. 255
      BY DEF Dot
    <3>3. \A chr \in 1 .. 255 : <<chr>> \in Seq(1 .. 255)
      OBVIOUS
    <3> QED
      BY ONLY <3>1, <3>2, <3>3, Zenon
  <2>4. \A a, b, d \in Seq(1 .. 255) : a \o b \o d \in Seq(1 .. 255)
    OBVIOUS
  <2> QED
    BY ONLY <1>2, <2>2, <2>3, <2>4, Zenon
<1>3. Dotted(parts) = text[N]
  BY DEF Dotted
<1> HIDE DEF N, Next1
<1>4. step \in Moves(Seq(1 .. 255), N)
  BY <1>2 DEF Moves
<1>5. PICK w : IsWalk(w, Seq(1 .. 255), N, <<>>, step)
  <2>1. <<>> \in Seq(1 .. 255)
    OBVIOUS
  <2> HIDE DEF step, F, text
  <2> QED
    BY ONLY <1>1, <1>4, <2>1, WalkExists
<1>6. /\ w \in [0 .. N -> Seq(1 .. 255)] /\ w[0] = <<>>
      /\ \A i \in 1 .. N : w[i] = Next1(w[i - 1], i)
  <2>1. /\ w \in [0 .. N -> Seq(1 .. 255)] /\ w[0] = <<>>
        /\ \A i \in 1 .. N : w[i] = step[<<w[i - 1], i>>]
    BY <1>5 DEF IsWalk
  <2>2. ASSUME NEW i \in 1 .. N PROVE w[i] = Next1(w[i - 1], i)
    <3>1. i - 1 \in 0 .. N
      BY <1>1
    <3>2. w[i - 1] \in Seq(1 .. 255)
      BY <2>1, <3>1
    <3>3. <<w[i - 1], i>> \in Seq(1 .. 255) \X (1 .. N)
      BY <3>2
    <3> QED
      BY <2>1, <3>3
  <2> QED
    BY <2>1, <2>2
<1>7. w = F(w)
  <2>1. w = [n \in 0 .. N |-> w[n]]
    BY <1>6
  <2>2. \A n \in 0 .. N : w[n] = IF n = 0 THEN <<>> ELSE Next1(w[n - 1], n)
    BY <1>1, <1>6
  <2> QED
    BY <2>1, <2>2
<1>8. text = F(text)
  <2> HIDE DEF F
  <2> QED
    BY <1>7
<1> HIDE DEF text
<1>9. /\ DOMAIN text = 0 .. N /\ text[0] = <<>>
      /\ \A n \in 1 .. N : text[n] = Next1(text[n - 1], n)
  <2>1. DOMAIN text = 0 .. N
    BY <1>8
  <2>2. \A n \in 0 .. N : text[n] = IF n = 0 THEN <<>> ELSE Next1(text[n - 1], n)
    BY <1>8
  <2>3. 0 \in 0 .. N /\ \A n \in 1 .. N : n \in 0 .. N /\ n # 0
    BY <1>1
  <2> HIDE DEF F
  <2> QED
    BY <2>1, <2>2, <2>3
<1> DEFINE T == {n \in 0 .. N : text[n] \in Seq(1 .. 255)}
<1>10. 0 \in T
  <2>1. <<>> \in Seq(1 .. 255) /\ 0 \in 0 .. N
    BY <1>1
  <2> QED
    BY <1>9, <2>1, Zenon
<1>11. ASSUME NEW n \in 0 .. N - 1, n \in T PROVE n + 1 \in T
  <2>1. n + 1 \in 1 .. N /\ n + 1 \in 0 .. N /\ (n + 1) - 1 = n
    BY <1>1
  <2>2. text[n + 1] = Next1(text[n], n + 1) /\ text[n] \in Seq(1 .. 255)
    BY <1>9, <1>11, <2>1
  <2>3. text[n + 1] \in Seq(1 .. 255)
    BY <1>2, <2>1, <2>2
  <2> QED
    BY <2>1, <2>3
<1>12. \A n \in 0 .. N : n \in T
  <2> HIDE DEF T
  <2> QED
    BY <1>1, <1>10, <1>11, UpTo
<1>13. text \in [0 .. N -> Seq(1 .. 255)]
  BY <1>8, <1>12
<1>14. IsDotting(text, parts)
  BY <1>9, <1>13 DEF IsDotting, N, Next1
<1> QED
  BY <1>3, <1>14 DEF N

(* Where a part begins in the text, and what stands there and before it.     *)
Begin(text, n) == Len(text[n - 1]) + (IF n = 1 THEN 0 ELSE 1)

LEMMA PartPlaced ==
  ASSUME NEW parts \in Seq(Seq(PartChars)), NEW text, IsDotting(text, parts),
         NEW n \in 1 .. Len(parts)
  PROVE  /\ Begin(text, n) \in Nat
         /\ Len(text[n]) = Begin(text, n) + Len(parts[n])
         /\ \A k \in 1 .. Len(text[n - 1]) : text[n][k] = text[n - 1][k]
         /\ n > 1 => text[n][Len(text[n - 1]) + 1] = Dot
         /\ \A k \in 1 .. Len(parts[n]) : text[n][Begin(text, n) + k] = parts[n][k]
<1> DEFINE s == text[n - 1]
           p == parts[n]
<1>1. n - 1 \in 0 .. Len(parts) /\ n \in 1 .. Len(parts) /\ n \in Nat
  OBVIOUS
<1>2. s \in Seq(1 .. 255) /\ p \in Seq(PartChars)
  BY <1>1, ElementOfSeq DEF IsDotting
<1>3. text[n] = s \o (IF n = 1 THEN <<>> ELSE <<Dot>>) \o p
  BY DEF IsDotting
<1>4. CASE n = 1
  <2>1. text[n] = s \o p /\ Begin(text, n) = Len(s)
    <3>1. s \o <<>> = s
      BY <1>2
    <3>2. Begin(text, n) = Len(s) + 0
      BY <1>4 DEF Begin
    <3>3. Len(s) + 0 = Len(s)
      BY <1>2
    <3> QED
      BY <1>3, <1>4, <3>1, <3>2, <3>3
  <2> HIDE DEF s, p
  <2>2. /\ Len(s) \in Nat /\ Len(p) \in Nat /\ Len(s \o p) = Len(s) + Len(p)
        /\ \A k \in 1 .. Len(s) : (s \o p)[k] = s[k]
        /\ \A k \in 1 .. Len(p) : (s \o p)[Len(s) + k] = p[k]
    BY <1>2
  <2>3. /\ Begin(text, n) \in Nat /\ Len(text[n]) = Begin(text, n) + Len(p)
        /\ \A k \in 1 .. Len(s) : text[n][k] = s[k]
        /\ \A k \in 1 .. Len(p) : text[n][Begin(text, n) + k] = p[k]
    BY ONLY <2>1, <2>2, Zenon
  <2>4. ~ (n > 1)
    BY <1>4
  <2> QED
    BY ONLY <2>3, <2>4, Zenon DEF s, p
<1>5. CASE n # 1
  <2>1. text[n] = s \o <<Dot>> \o p /\ Begin(text, n) = Len(s) + 1
    BY <1>3, <1>5 DEF Begin
  <2> HIDE DEF s, p
  <2>2. /\ Len(s) \in Nat /\ Len(p) \in Nat /\ Len(s \o <<Dot>> \o p) = Len(s) + 1 + Len(p)
        /\ \A k \in 1 .. Len(s) : (s \o <<Dot>> \o p)[k] = s[k]
        /\ (s \o <<Dot>> \o p)[Len(s) + 1] = Dot
        /\ \A k \in 1 .. Len(p) : (s \o <<Dot>> \o p)[Len(s) + 1 + k] = p[k]
    <3> DEFINE t == s \o <<Dot>>
    <3>1. /\ t \in Seq(1 .. 255) /\ Len(s) \in Nat /\ Len(p) \in Nat /\ Len(t) = Len(s) + 1
          /\ \A k \in 1 .. Len(s) : t[k] = s[k]
          /\ t[Len(s) + 1] = Dot
      <4>1. Dot \in 1 .. 255 /\ t = Append(s, Dot)
        BY <1>2 DEF Dot
      <4>2. /\ Append(s, Dot) \in Seq(1 .. 255) /\ Len(Append(s, Dot)) = Len(s) + 1
            /\ \A k \in 1 .. Len(s) : Append(s, Dot)[k] = s[k]
            /\ Append(s, Dot)[Len(s) + 1] = Dot
        BY <1>2, <4>1, AppendProperties
      <4>3. Len(s) \in Nat /\ Len(p) \in Nat
        BY <1>2
      <4> HIDE DEF t
      <4> QED
        BY ONLY <4>1, <4>2, <4>3
    <3> HIDE DEF t
    <3>2. /\ Len(t \o p) = Len(t) + Len(p)
          /\ \A k \in 1 .. Len(t) : (t \o p)[k] = t[k]
          /\ \A k \in 1 .. Len(p) : (t \o p)[Len(t) + k] = p[k]
      <4>1. t \in Seq(1 .. 255) /\ p \in Seq(PartChars)
        BY <1>2, <3>1
      <4> QED
        BY ONLY <4>1
    <3> QED
      BY <3>1, <3>2 DEF t
  <2> DEFINE b == Len(s) + 1
  <2>3. b \in Nat
    BY <2>2
  <2> HIDE DEF b
  <2>4. /\ Begin(text, n) \in Nat /\ Len(text[n]) = Begin(text, n) + Len(p)
        /\ \A k \in 1 .. Len(s) : text[n][k] = s[k]
        /\ text[n][Len(s) + 1] = Dot
        /\ \A k \in 1 .. Len(p) : text[n][Begin(text, n) + k] = p[k]
    BY ONLY <2>1, <2>2, <2>3, Zenon DEF b
  <2> QED
    BY ONLY <2>4, Zenon DEF s, p
<1> QED
  BY <1>4, <1>5

(* What is written stays: the text after n parts begins every later one.     *)
LEMMA TextBegins ==
  ASSUME NEW parts \in Seq(Seq(PartChars)), NEW text, IsDotting(text, parts),
         NEW n \in 0 .. Len(parts)
  PROVE  LET version == text[Len(parts)]
         IN  Len(text[n]) <= Len(version) /\ \A k \in 1 .. Len(text[n]) : version[k] = text[n][k]
<1> DEFINE M == Len(parts)
           Keeps(m) == /\ Len(text[n]) <= Len(text[m])
                       /\ \A k \in 1 .. Len(text[n]) : text[m][k] = text[n][k]
           T == {j \in 0 .. M - n : Keeps(n + j)}
<1>1. /\ M \in Nat /\ n \in Nat /\ M - n \in Nat /\ n + (M - n) = M /\ n + 0 = n
      /\ \A m \in 0 .. M : text[m] \in Seq(1 .. 255) /\ Len(text[m]) \in Nat
  BY DEF IsDotting
<1>2. 0 \in T
  <2>1. n + 0 = n /\ n \in 0 .. M /\ Len(text[n]) <= Len(text[n])
    BY <1>1
  <2>2. Keeps(n + 0)
    BY <2>1
  <2> HIDE DEF Keeps, M
  <2> QED
    BY <1>1, <2>2
<1>3. ASSUME NEW j \in 0 .. (M - n) - 1, j \in T PROVE j + 1 \in T
  <2> DEFINE m == n + j + 1
  <2>1. /\ m \in 1 .. M /\ m - 1 = n + j /\ n + j \in 0 .. M /\ n + (j + 1) = m
        /\ j + 1 \in 0 .. M - n /\ m \in 0 .. M
    BY <1>1
  <2>2. Keeps(n + j)
    BY <1>3
  <2> HIDE DEF m
  <2>3. /\ Begin(text, m) \in Nat /\ Len(text[m]) = Begin(text, m) + Len(parts[m])
        /\ \A k \in 1 .. Len(text[m - 1]) : text[m][k] = text[m - 1][k]
    BY <2>1, PartPlaced
  <2>4. Begin(text, m) >= Len(text[m - 1])
    <3>1. Len(text[m - 1]) \in Nat
      BY <1>1, <2>1
    <3>2. \A a \in Nat : a + 0 >= a /\ a + 1 >= a
      OBVIOUS
    <3> QED
      BY ONLY <3>1, <3>2, Zenon DEF Begin
  <2>5. Len(parts[m]) \in Nat
    <3>1. parts[m] \in Seq(PartChars)
      BY <2>1, ElementOfSeq
    <3> QED
      BY <3>1
  <2>6. Len(text[m]) >= Len(text[n + j])
    BY <1>1, <2>1, <2>3, <2>4, <2>5
  <2>7. Keeps(m)
    <3>1. Len(text[n]) <= Len(text[m])
      <4>1. Len(text[n]) \in Nat /\ Len(text[n + j]) \in Nat /\ Len(text[m]) \in Nat
        <5>1. n \in 0 .. M
          BY <1>1
        <5> HIDE DEF M
        <5> QED
          BY ONLY <1>1, <2>1, <5>1, Zenon
      <4>2. Len(text[n]) <= Len(text[n + j])
        BY <2>2
      <4>3. \A a, b, d \in Nat : a <= b /\ d >= b => a <= d
        OBVIOUS
      <4> QED
        BY ONLY <2>6, <4>1, <4>2, <4>3, Zenon
    <3>2. ASSUME NEW k \in 1 .. Len(text[n]) PROVE text[m][k] = text[n][k]
      <4>1. k \in 1 .. Len(text[n + j])
        BY <1>1, <2>1, <2>2
      <4>2. text[m][k] = text[n + j][k]
        BY <2>1, <2>3, <4>1
      <4> QED
        BY <2>2, <4>2
    <3> QED
      BY <3>1, <3>2
  <2> HIDE DEF Keeps
  <2> QED
    BY <2>1, <2>7
<1>4. \A j \in 0 .. M - n : j \in T
  <2> HIDE DEF T, M
  <2> QED
    BY <1>1, <1>2, <1>3, UpTo
<1>5. Keeps(n + (M - n))
  <2>1. M - n \in 0 .. M - n
    BY <1>1
  <2> HIDE DEF Keeps
  <2> QED
    BY <1>4, <2>1
<1> QED
  BY <1>1, <1>5

(* What is read of a version before and after each of its parts.             *)
Numbered(parts, k) ==
  IF k = 0 THEN 0
  ELSE IF k = 1 THEN PartValue(parts[1])
  ELSE IF k = 2 THEN PartValue(parts[1]) * 256 + PartValue(parts[2])
  ELSE (PartValue(parts[1]) * 256 + PartValue(parts[2])) * 256 + PartValue(parts[3])

GoodUpTo(parts, n) == \A m \in 1 .. n : m <= VERSION_BYTE => IsByte(parts[m])

Decided(parts, r) ==
  r.result = {AsInt8(Numbered(parts, 3))} /\ r.version_bin = Numbered(parts, 3)

BeforePart(parts, n, r) ==
  /\ ~ GoodUpTo(parts, n) => Fails(r)
  /\ GoodUpTo(parts, n) /\ n < 3 =>
       r = [value |-> 0, byte |-> n, version_bin |-> Numbered(parts, n), result |-> {}]
  /\ GoodUpTo(parts, n) /\ n >= 3 => Decided(parts, r)

AfterPart(parts, n, r) ==
  /\ ~ GoodUpTo(parts, n) => Fails(r)
  /\ GoodUpTo(parts, n) /\ n <= 3 =>
       r = [value |-> PartValue(parts[n]), byte |-> n - 1,
            version_bin |-> Numbered(parts, n - 1), result |-> {}]
  /\ GoodUpTo(parts, n) /\ n > 3 => Decided(parts, r)

(* One more part of the version.                                             *)
LEMMA OneMorePart ==
  ASSUME NEW version \in Seq(1 .. 255), NEW read, IsRead(read, version),
         NEW parts \in Seq(Seq(PartChars)), NEW n \in 1 .. Len(parts), NEW at \in Nat,
         at + Len(parts[n]) <= Len(version),
         \A k \in 1 .. Len(parts[n]) : version[at + k] = parts[n][k],
         BeforePart(parts, n - 1, read[at])
  PROVE  AfterPart(parts, n, read[at + Len(parts[n])])
<1> DEFINE part == parts[n]
           to == at + Len(part)
           s == read[at]
           q == read[to]
<1>1. part \in Seq(PartChars) /\ Len(part) \in Nat
  <2>1. parts[n] \in Seq(PartChars)
    BY ElementOfSeq
  <2> QED
    BY <2>1
<1>2. /\ n \in Nat /\ n - 1 \in Nat /\ at \in 0 .. Len(version) + 1
      /\ to \in at .. Len(version) + 1
  BY <1>1
<1>3. s.result # {} => q = s
  BY <1>2, StaysDecided
<1>4. GoodUpTo(parts, n) <=> GoodUpTo(parts, n - 1) /\ (n <= 3 => IsByte(part))
  <2>1. \A m : m \in 1 .. n <=> m \in 1 .. n - 1 \/ m = n
    BY <1>2
  <2> QED
    BY <2>1 DEF GoodUpTo, VERSION_BYTE
<1>5. CASE ~ GoodUpTo(parts, n - 1)
  <2>1. Fails(s)
    BY <1>5 DEF BeforePart
  <2>2. Fails(q)
    BY <1>3, <2>1 DEF Fails
  <2> QED
    BY <1>4, <1>5, <2>2 DEF AfterPart
<1>6. CASE GoodUpTo(parts, n - 1) /\ n - 1 >= 3
  <2>1. Decided(parts, s)
    BY <1>6 DEF BeforePart
  <2>2. Decided(parts, q)
    BY <1>3, <2>1 DEF Decided
  <2>3. n > 3 /\ ~ (n <= 3)
    BY <1>2, <1>6
  <2> QED
    BY <1>4, <1>6, <2>2, <2>3 DEF AfterPart
<1>7. CASE GoodUpTo(parts, n - 1) /\ n - 1 < 3
  <2>1. s = [value |-> 0, byte |-> n - 1, version_bin |-> Numbered(parts, n - 1), result |-> {}]
    BY <1>7 DEF BeforePart
  <2>2. s.result = {} /\ s.value = 0
    BY <2>1
  <2>3. n <= 3 /\ ~ (n > 3)
    BY <1>2, <1>7
  <2>4. IF IsByte(part) THEN q = [s EXCEPT !.value = PartValue(part)] ELSE Fails(q)
    <3> HIDE DEF s
    <3>1. read[at].result = {} /\ read[at].value = 0
      BY <2>2 DEF s
    <3>2. \A k \in 1 .. Len(part) : version[at + k] = part[k]
      OBVIOUS
    <3>3. at + Len(part) <= Len(version)
      OBVIOUS
    <3> HIDE DEF part
    <3>4. IF IsByte(part) THEN read[at + Len(part)] = [read[at] EXCEPT !.value = PartValue(part)]
          ELSE Fails(read[at + Len(part)])
      BY <1>1, <3>1, <3>2, <3>3, PartRead
    <3> QED
      BY <3>4 DEF s
  <2>5. CASE IsByte(part)
    <3>1. q = [value |-> PartValue(part), byte |-> n - 1,
               version_bin |-> Numbered(parts, n - 1), result |-> {}]
      <4> HIDE DEF q, s, part
      <4> QED
        BY <2>1, <2>4, <2>5
    <3> QED
      BY <1>4, <1>7, <2>3, <2>5, <3>1 DEF AfterPart
  <2>6. CASE ~ IsByte(part)
    BY <1>4, <2>3, <2>4, <2>6 DEF AfterPart
  <2> QED
    BY <2>5, <2>6
<1> QED
  BY <1>2, <1>5, <1>6, <1>7

(* The character behind a part: a dot, or the end.                           *)
LEMMA BehindPart ==
  ASSUME NEW parts \in Seq(Seq(PartChars)), NEW n \in 1 .. Len(parts),
         NEW r \in Readings, NEW chr \in {Dot, 0}, AfterPart(parts, n, r)
  PROVE  LET q == ReadCharacter(r, chr)
         IN  /\ chr = Dot \/ n >= 3 => BeforePart(parts, n, q)
             /\ chr # Dot /\ n < 3 => Fails(q)
<1> DEFINE q == ReadCharacter(r, chr)
<1>1. /\ r.result # {} => q = r
      /\ r.result = {} => q = ReadEnd(r, chr)
  <2>1. chr \in 0 .. 255
    BY DEF Dot
  <2> QED
    BY <2>1, CharacterIs
<1>2. n \in Nat /\ n - 1 \in Nat /\ Dot # 0
  BY DEF Dot
<1>3. CASE ~ GoodUpTo(parts, n)
  <2>1. Fails(r)
    BY <1>3 DEF AfterPart
  <2>2. Fails(q)
    BY <1>1, <2>1 DEF Fails
  <2> QED
    BY <1>3, <2>2 DEF BeforePart
<1>4. CASE GoodUpTo(parts, n) /\ n > 3
  <2>1. Decided(parts, r)
    BY <1>4 DEF AfterPart
  <2>2. Decided(parts, q)
    BY <1>1, <2>1 DEF Decided
  <2>3. n >= 3 /\ ~ (n < 3)
    BY <1>2, <1>4
  <2> QED
    BY <1>4, <2>2, <2>3 DEF BeforePart
<1>5. CASE GoodUpTo(parts, n) /\ n <= 3
  <2> DEFINE v == r.version_bin * 256 + r.value
  <2>1. r = [value |-> PartValue(parts[n]), byte |-> n - 1,
             version_bin |-> Numbered(parts, n - 1), result |-> {}]
    BY <1>5 DEF AfterPart
  <2>2. /\ r.value = PartValue(parts[n]) /\ r.byte = n - 1 /\ r.result = {}
        /\ r.version_bin = Numbered(parts, n - 1)
    BY <2>1
  <2>3. r.value \in Nat /\ r.version_bin \in Nat
    BY DEF Readings
  <2>4. v = Numbered(parts, n)
    <3>1. n \in {1, 2, 3}
      BY <1>2, <1>5
    <3>2. CASE n = 1
      <4>1. r.value = PartValue(parts[1]) /\ r.version_bin = 0
        BY <2>2, <3>2 DEF Numbered
      <4>2. Numbered(parts, 1) = PartValue(parts[1])
        BY DEF Numbered
      <4> QED
        BY <2>3, <3>2, <4>1, <4>2
    <3>3. CASE n = 2
      BY <2>2, <3>3 DEF Numbered
    <3>4. CASE n = 3
      BY <2>2, <3>4 DEF Numbered
    <3> QED
      BY <3>1, <3>2, <3>3, <3>4
  <2>5. q = ReadEnd(r, chr)
    BY <1>1, <2>2
  <2>6. /\ q.version_bin = Numbered(parts, n)
        /\ n >= 3 => q.result = {AsInt8(Numbered(parts, n))}
        /\ n < 3 => IF chr = 0 THEN Fails(q)
             ELSE q = [value |-> 0, byte |-> n, version_bin |-> Numbered(parts, n), result |-> {}]
    <3>1. r.byte + 1 = n
      BY <1>2, <2>2
    <3>2. Ends(r, chr, v, q)
      <4> HIDE DEF q
      <4> QED
        BY <2>5, EndIs, Zenon
    <3> HIDE DEF q, v
    <3> QED
      BY <2>2, <2>4, <3>1, <3>2 DEF VERSION_BYTE, Ends
  <2> HIDE DEF q
  <2>7. CASE n >= 3
    <3>1. n = 3 /\ ~ (n < 3)
      BY <1>2, <1>5, <2>7
    <3>2. Decided(parts, q)
      BY <2>6, <3>1 DEF Decided
    <3> QED
      BY <1>5, <3>1, <3>2 DEF BeforePart, q
  <2>8. CASE n < 3
    <3>1. ~ (n >= 3)
      BY <1>2, <2>8
    <3> QED
      BY <1>2, <1>5, <2>6, <2>8, <3>1 DEF BeforePart, q
  <2> QED
    BY <1>2, <2>7, <2>8
<1> QED
  BY <1>2, <1>3, <1>4, <1>5

(* A result is negative or not as its lowest byte is.                        *)
LEMMA SignOf ==
  ASSUME NEW n \in Nat
  PROVE  AsInt8(n) >= 0 <=> n % 256 < 128
BY DEF AsInt8

(* Whatever follows the three numbers of a version, and however many digits  *)
(* they have, exactly the versions of three numbers of one byte are          *)
(* accepted, as the number they mean (convert_version of fota-util.c).       *)
THEOREM VersionsAreConverted ==
  ASSUME NEW parts \in Seq(Seq(PartChars))
  PROVE  ConvertsVersion(parts)
<1> DEFINE M == Len(parts)
<1>1. PICK text : IsDotting(text, parts) /\ Dotted(parts) = text[M]
  BY DottedIs
<1> DEFINE version == text[M]
           L(n) == Len(text[n])
<1>2. /\ M \in Nat /\ version \in Seq(1 .. 255) /\ \A n \in 0 .. M : L(n) \in Nat
      /\ text[0] = <<>> /\ L(0) = 0 /\ Len(version) \in Nat
  <2>1. M \in Nat /\ M \in 0 .. M /\ text[0] = <<>> /\ Len(<<>>) = 0
        /\ text \in [0 .. M -> Seq(1 .. 255)]
    BY <1>1 DEF IsDotting
  <2> HIDE DEF M
  <2>2. \A n \in 0 .. M : text[n] \in Seq(1 .. 255)
    BY ONLY <2>1
  <2>3. \A t \in Seq(1 .. 255) : Len(t) \in Nat
    OBVIOUS
  <2> QED
    BY ONLY <2>1, <2>2, <2>3, Zenon
<1>3. PICK read : IsRead(read, version) /\ convert_version(version) = read[Len(version) + 1]
  <2> HIDE DEF version
  <2> QED
    BY <1>2, ReadingIs
<1>4. BeforePart(parts, 0, read[0])
  <2>1. read[0] = Reading
    BY <1>3 DEF IsRead
  <2>2. GoodUpTo(parts, 0)
    BY DEF GoodUpTo
  <2> QED
    BY <2>1, <2>2 DEF BeforePart, Reading, Numbered
<1> DEFINE T == {n \in 0 .. M : n >= 1 => AfterPart(parts, n, read[L(n)])}
<1>5. ASSUME NEW n \in 1 .. M, BeforePart(parts, n - 1, read[Begin(text, n)])
      PROVE  AfterPart(parts, n, read[L(n)])
  <2>1. /\ Begin(text, n) \in Nat /\ L(n) = Begin(text, n) + Len(parts[n])
        /\ \A k \in 1 .. Len(parts[n]) : text[n][Begin(text, n) + k] = parts[n][k]
    BY <1>1, PartPlaced
  <2>2. L(n) <= Len(version) /\ \A k \in 1 .. L(n) : version[k] = text[n][k]
    <3>1. n \in 0 .. Len(parts)
      OBVIOUS
    <3> QED
      BY <1>1, <3>1, TextBegins
  <2>3. Len(parts[n]) \in Nat
    <3>1. parts[n] \in Seq(PartChars)
      BY ElementOfSeq
    <3> QED
      BY <3>1
  <2> DEFINE at == Begin(text, n)
  <2> HIDE DEF version, at, L
  <2>4. ASSUME NEW k \in 1 .. Len(parts[n]) PROVE version[at + k] = parts[n][k]
    <3>1. at + k \in 1 .. L(n)
      BY <2>1, <2>3 DEF at
    <3>2. version[at + k] = text[n][at + k]
      BY <2>2, <3>1
    <3> QED
      BY <2>1, <3>2 DEF at
  <2>5. at + Len(parts[n]) <= Len(version) /\ at \in Nat /\ n \in 1 .. Len(parts)
        /\ BeforePart(parts, n - 1, read[at])
    BY <1>5, <2>1, <2>2 DEF at
  <2>6. AfterPart(parts, n, read[at + Len(parts[n])])
    BY ONLY <1>2, <1>3, <2>4, <2>5, parts \in Seq(Seq(PartChars)), OneMorePart
  <2> QED
    BY <2>1, <2>6 DEF at
<1>6. 0 \in T
  BY <1>2
<1>7. ASSUME NEW n \in 0 .. M - 1, n \in T PROVE n + 1 \in T
  <2>1. /\ n + 1 \in 1 .. M /\ n + 1 \in 0 .. M /\ (n + 1) - 1 = n /\ n \in 0 .. M
        /\ n \in Nat
    BY <1>2
  <2>2. CASE n = 0
    <3>1. Begin(text, n + 1) = 0
      BY <1>2, <2>2 DEF Begin
    <3>2. BeforePart(parts, (n + 1) - 1, read[Begin(text, n + 1)])
      BY <1>4, <2>1, <2>2, <3>1
    <3>3. AfterPart(parts, n + 1, read[L(n + 1)])
      BY <1>5, <2>1, <3>2
    <3> QED
      BY <2>1, <3>3
  <2>3. CASE n # 0
    <3>1. n \in 1 .. M /\ n >= 1 /\ n \in 1 .. Len(parts)
      BY <2>1, <2>3
    <3>2. AfterPart(parts, n, read[L(n)])
      BY <1>7, <3>1
    <3>3. Begin(text, n + 1) = L(n) + 1
      <4>1. (n + 1) - 1 = n /\ n + 1 # 1
        BY <2>1, <2>3
      <4> QED
        BY <4>1, Zenon DEF Begin
    <3>4. L(n) + 1 \in 1 .. Len(version) /\ CharOf(version, L(n) + 1) = Dot
      <4> DEFINE m == n + 1
      <4>1. m \in 1 .. Len(parts) /\ m > 1 /\ m - 1 = n /\ m \in 0 .. Len(parts)
        BY <2>1, <3>1
      <4> HIDE DEF m
      <4>2. /\ Len(text[m]) = Begin(text, m) + Len(parts[m])
            /\ text[m][Len(text[m - 1]) + 1] = Dot
        BY <1>1, <4>1, PartPlaced
      <4>3. Len(text[m]) <= Len(version) /\ \A k \in 1 .. Len(text[m]) : version[k] = text[m][k]
        BY <1>1, <4>1, TextBegins
      <4>4. Len(parts[m]) \in Nat
        <5>1. parts[m] \in Seq(PartChars)
          BY <4>1, ElementOfSeq
        <5> QED
          BY <5>1
      <4>5. Len(text[m]) = L(n) + 1 + Len(parts[m]) /\ text[m][L(n) + 1] = Dot /\ L(n) \in Nat
        BY <1>2, <2>1, <3>3, <4>1, <4>2 DEF m
      <4> HIDE DEF version, L
      <4>6. L(n) + 1 \in 1 .. Len(text[m]) /\ L(n) + 1 <= Len(version)
        <5>1. \A a, b, d \in Nat : \A e : e = a + 1 + b /\ e <= d => a + 1 \in 1 .. e /\ a + 1 <= d
          OBVIOUS
        <5> QED
          BY ONLY <1>2, <4>3, <4>4, <4>5, <5>1, Zenon
      <4>7. version[L(n) + 1] = Dot
        BY <4>3, <4>5, <4>6
      <4> QED
        BY <1>2, <4>5, <4>6, <4>7 DEF CharOf
    <3>5. read[L(n)] \in Readings /\ read[L(n) + 1] = ReadCharacter(read[L(n)], Dot)
      <4>1. L(n) \in 0 .. Len(version) + 1 /\ L(n) + 1 \in 1 .. Len(version) + 1
            /\ (L(n) + 1) - 1 = L(n)
        BY <1>2, <2>1, <3>4
      <4> HIDE DEF version, L
      <4> QED
        BY <1>3, <3>4, <4>1 DEF IsRead
    <3>6. BeforePart(parts, n, read[L(n) + 1])
      <4> HIDE DEF L
      <4> QED
        BY <3>1, <3>2, <3>5, BehindPart
    <3>7. AfterPart(parts, n + 1, read[L(n + 1)])
      BY <1>5, <2>1, <3>3, <3>6
    <3> QED
      BY <2>1, <3>7
  <2> QED
    BY <2>2, <2>3
<1>8. \A n \in 0 .. M : n \in T
  <2> HIDE DEF T, M
  <2> QED
    BY <1>2, <1>6, <1>7, UpTo
<1> DEFINE q == read[Len(version) + 1]
<1>9. read[Len(version)] \in Readings /\ q = ReadCharacter(read[Len(version)], 0)
  <2> HIDE DEF version
  <2>1. /\ Len(version) \in 0 .. Len(version) + 1 /\ Len(version) + 1 \in 1 .. Len(version) + 1
        /\ (Len(version) + 1) - 1 = Len(version) /\ ~ (Len(version) + 1 <= Len(version))
    BY <1>2
  <2>2. CharOf(version, Len(version) + 1) = 0
    BY <2>1 DEF CharOf
  <2> QED
    BY <1>3, <2>1, <2>2 DEF IsRead
<1>10. IF M >= 3 /\ GoodUpTo(parts, M) THEN Decided(parts, q) ELSE Fails(q)
  <2>1. CASE M = 0
    <3>1. Len(version) = 0 /\ read[Len(version)] = Reading
      BY <1>2, <1>3, <2>1 DEF IsRead
    <3>2. Fails(ReadEnd(Reading, 0))
      <4>1. Reading \in Readings /\ Reading.byte + 1 < VERSION_BYTE
        BY DEF Reading, Readings, VERSION_BYTE
      <4> QED
        BY <4>1, EndIs DEF Ends
    <3>3. ReadCharacter(Reading, 0) = ReadEnd(Reading, 0)
      <4>1. Reading \in Readings /\ Reading.result = {} /\ 0 \in 0 .. 255
        BY DEF Reading, Readings
      <4> QED
        BY <4>1, CharacterIs
    <3>4. ~ (M >= 3)
      BY <2>1
    <3> QED
      BY <1>9, <3>1, <3>2, <3>3, <3>4
  <2>2. CASE M # 0
    <3>1. M \in 0 .. M /\ M \in 1 .. Len(parts) /\ M >= 1
      BY <1>2, <2>2
    <3>2. AfterPart(parts, M, read[Len(version)])
      BY <1>8, <3>1
    <3>3. /\ M >= 3 => BeforePart(parts, M, q)
          /\ M < 3 => Fails(q)
      <4>1. 0 # Dot
        BY DEF Dot
      <4> HIDE DEF version, M, q
      <4> QED
        BY <1>9, <3>1, <3>2, <4>1, BehindPart DEF M
    <3>4. M >= 3 <=> ~ (M < 3)
      BY <1>2
    <3> HIDE DEF q, M
    <3> QED
      BY <3>3, <3>4 DEF BeforePart
  <2> QED
    BY <2>1, <2>2
<1>11. GoodUpTo(parts, M) /\ M >= 3 <=>
         Len(parts) >= VERSION_BYTE /\ \A n \in 1 .. VERSION_BYTE : IsByte(parts[n])
  BY <1>2 DEF GoodUpTo, VERSION_BYTE
<1>12. convert_version(Dotted(parts)) = q
  BY <1>1, <1>3
<1> DEFINE number == (PartValue(parts[1]) * 256 + PartValue(parts[2])) * 256 + PartValue(parts[3])
<1> HIDE DEF q, version, M
<1>13. CASE M >= 3 /\ GoodUpTo(parts, M)
  <2>1. q.result = {AsInt8(number)} /\ q.version_bin = number
    BY <1>10, <1>13 DEF Decided, Numbered
  <2>2. number \in Nat
    <3>1. q \in Readings
      <4>1. 0 \in 0 .. 255
        OBVIOUS
      <4> QED
        BY <1>9, <4>1, CharacterIs
    <3> HIDE DEF number
    <3> QED
      BY <2>1, <3>1 DEF Readings
  <2> HIDE DEF number
  <2>3. AsInt8(number) \in Int
    BY <2>2 DEF AsInt8
  <2>4. IF number % 256 < 128
        THEN q.version_bin = number /\ \A r \in q.result : r >= 0
        ELSE \A r \in q.result : r < 0
    <3>1. AsInt8(number) >= 0 <=> number % 256 < 128
      BY <2>2, SignOf
    <3>2. ~ (AsInt8(number) >= 0) => AsInt8(number) < 0
      BY <2>3
    <3> QED
      BY <2>1, <3>1, <3>2
  <2> QED
    BY <1>11, <1>12, <1>13, <2>4, Zenon DEF ConvertsVersion, number
<1>14. CASE ~ (M >= 3 /\ GoodUpTo(parts, M))
  <2>1. \A r \in q.result : r < 0
    BY <1>10, <1>14 DEF Fails
  <2> QED
    BY <1>11, <1>12, <1>14, <2>1, Zenon DEF ConvertsVersion
<1> QED
  BY <1>13, <1>14

(* The updater compares the numbers it takes versions for: every version of  *)
(* the set to read is accepted exactly when it begins with three numbers of  *)
(* one byte, and then as the number they mean.                               *)
THEOREM VersionsAreRead == CodecsSpec => []VersionsRead
<1>1. CodecsInit => VersionsRead
  BY DEF CodecsInit, VersionsRead, NoInput
<1>2. VersionsRead /\ [CodecsNext]_codecsVars => VersionsRead'
  <2> SUFFICES ASSUME VersionsRead, [CodecsNext]_codecsVars
               PROVE  VersionsRead'
    OBVIOUS
  <2>1. CASE UNCHANGED input
    BY <2>1 DEF VersionsRead
  <2>2. CASE ReadVersion
    <3>1. PICK v \in Versions : input' = [of |-> "version", value |-> v]
      BY <2>2 DEF ReadVersion
    <3>2. v \in Seq(Seq(PartChars))
      BY <3>1, VersionsAssumption DEF PartChars
    <3>3. ConvertsVersion(v)
      BY <3>2, VersionsAreConverted
    <3> QED
      BY <3>1, <3>3 DEF VersionsRead
  <2>3. CASE PrintTree
    BY <2>3 DEF PrintTree, VersionsRead
  <2>4. CASE ReadAnswer
    BY <2>4 DEF ReadAnswer, VersionsRead
  <2>5. CASE BootApps
    BY <2>5 DEF BootApps, VersionsRead
  <2>6. CASE CallRing
    BY <2>6 DEF CallRing, CallsRing, VersionsRead
  <2>7. CASE WritePacket
    BY <2>1, <2>7 DEF WritePacket
  <2>8. CASE CutText
    BY <2>8 DEF CutText, VersionsRead
  <2> QED
    BY <2>1, <2>2, <2>3, <2>4, <2>5, <2>6, <2>7, <2>8 DEF CodecsNext, codecsVars
<1> QED
  BY <1>1, <1>2, PTL DEF CodecsSpec

(* Whatever names the setting "apps" lists, with however many spaces between *)
(* them, and whatever the settings they name: if no name is one character    *)
(* long every name is read, and in every case the applications booted talk   *)
(* to the server and port, as the user and with the password, of their own   *)
(* settings (user_init and parse_config_for_app of user_main.c).             *)
THEOREM AppsAreBooted == CodecsSpec => []AppsBooted
<1>1. CodecsInit => AppsBooted
  BY DEF CodecsInit, AppsBooted, NoInput
<1>2. AppsBooted /\ [CodecsNext]_codecsVars => AppsBooted'
  <2> SUFFICES ASSUME AppsBooted, [CodecsNext]_codecsVars
               PROVE  AppsBooted'
    OBVIOUS
  <2>1. CASE UNCHANGED input
    BY <2>1 DEF AppsBooted
  <2>2. CASE BootApps
    <3>1. PICK words \in AppLists, items \in AppItems :
            input' = [of |-> "apps", value |-> words, configs |-> Configs(words, items)]
      BY <2>2 DEF BootApps
    <3>2. words \in Seq(Words)
      BY <3>1, AppListsAssumption DEF Words
    <3>3. ReadsNames(words)
      BY <3>2, NamesAreRead
    <3>4. Configs(words, items) \in Seq({items[name] : name \in DOMAIN items})
      BY <3>2, ConfigsAre
    <3>5. BootIsSound(Configs(words, items))
      BY <3>4, BootsAreSound
    <3> QED
      BY <3>1, <3>3, <3>5 DEF AppsBooted
  <2>3. CASE PrintTree
    BY <2>3 DEF PrintTree, AppsBooted
  <2>4. CASE ReadAnswer
    BY <2>4 DEF ReadAnswer, AppsBooted
  <2>5. CASE ReadVersion
    BY <2>5 DEF ReadVersion, AppsBooted
  <2>6. CASE CallRing
    BY <2>6 DEF CallRing, CallsRing, AppsBooted
  <2>7. CASE WritePacket
    BY <2>1, <2>7 DEF WritePacket
  <2>8. CASE CutText
    BY <2>8 DEF CutText, AppsBooted
  <2> QED
    BY <2>1, <2>2, <2>3, <2>4, <2>5, <2>6, <2>7, <2>8 DEF CodecsNext, codecsVars
<1> QED
  BY <1>1, <1>2, PTL DEF CodecsSpec
----------------------------------------------------------------------------
(* jsmn.c. What the parser keeps of the tokens it has made when it has come  *)
(* to a place: each lies before the place, has its closing bracket or only   *)
(* its opening one yet, and no two cross.                                    *)
Kinds == {"object", "array", "string", "primitive"}
Containers == {"object", "array"}
Tokens == [type : Kinds, start : Nat, end : Nat \cup {Open}, size : Nat]
Parsers == [pos : Nat, super : Nat, tokens : Seq(Tokens), error : BOOLEAN]

Opened(js, token) ==
  /\ token.start >= 1 /\ token.start <= Len(js)
  /\ \/ token.type = "object" /\ js[token.start] = OpenBrace
     \/ token.type = "array" /\ js[token.start] = OpenBracket

Placed(js, pos, token) ==
  /\ token.start < pos
  /\ token.end = Open => Opened(js, token)
  /\ token.end # Open => token.end <= pos /\ Stands(js, token)

Follows(token, next) ==
  IF token.end = Open THEN token.start < next.start
  ELSE \/ token.end <= next.start
       \/ /\ token.type \in Containers /\ token.start < next.start
          /\ next.end # Open /\ next.end < token.end

TokensFit(js, pos, tokens) ==
  /\ tokens \in Seq(Tokens) /\ Len(tokens) <= NumTokens
  /\ \A i \in DOMAIN tokens : Placed(js, pos, tokens[i])
  /\ \A i \in DOMAIN tokens : tokens[i].size <= Len(tokens) - i
  /\ \A i, j \in DOMAIN tokens : i < j => Follows(tokens[i], tokens[j])

ParserFits(js, p) ==
  /\ p \in Parsers /\ p.pos \in 1 .. Len(js) + 1
  /\ p.super \in 0 .. Len(p.tokens) /\ TokensFit(js, p.pos, p.tokens)

(* What was before a place is before a later one.                            *)
LEMMA TokensFitLater ==
  ASSUME NEW js, NEW pos \in Nat, NEW later \in Nat, pos <= later, NEW tokens, TokensFit(js, pos, tokens)
  PROVE  TokensFit(js, later, tokens)
<1>1. tokens \in Seq(Tokens)
  BY DEF TokensFit
<1>2. ASSUME NEW n \in DOMAIN tokens PROVE Placed(js, later, tokens[n])
  <2>1. n \in 1 .. Len(tokens) /\ tokens[n] \in Tokens
    BY <1>1, ElementOfSeq
  <2>2. tokens[n].start \in Nat /\ tokens[n].end \in Nat \cup {Open}
    BY <2>1 DEF Tokens
  <2>3. Placed(js, pos, tokens[n])
    BY DEF TokensFit
  <2> QED
    BY <2>2, <2>3 DEF Placed, Open
<1> QED
  BY <1>2 DEF TokensFit

(* The innermost container that is open.                                     *)
LEMMA InnermostIs ==
  ASSUME NEW tokens \in Seq(Tokens)
  PROVE  /\ Innermost(tokens) = 0 => \A n \in DOMAIN tokens : tokens[n].end # Open
         /\ Innermost(tokens) # 0 => /\ Innermost(tokens) \in DOMAIN tokens
                                     /\ tokens[Innermost(tokens)].end = Open
         /\ \A n \in DOMAIN tokens : tokens[n].end = Open => n <= Innermost(tokens)
         /\ Innermost(tokens) \in 0 .. Len(tokens)
<1> DEFINE opened == OpenOnes(tokens)
           P(m) == \A j \in opened : j <= m
<1>1. Len(tokens) \in Nat /\ DOMAIN tokens = 1 .. Len(tokens)
  OBVIOUS
<1>2. opened \subseteq DOMAIN tokens /\ \A n \in DOMAIN tokens : n \in opened <=> tokens[n].end = Open
  BY DEF OpenOnes
<1>3. CASE opened = {}
  <2>1. Innermost(tokens) = 0
    BY <1>3 DEF Innermost
  <2> QED
    BY <1>1, <1>2, <1>3, <2>1
<1>4. CASE opened # {}
  <2> DEFINE below == {Len(tokens) - n : n \in opened}
  <2>1. below \in SUBSET Nat /\ below # {}
    BY <1>1, <1>2, <1>4
  <2>2. PICK b \in below : \A n \in below : b <= n
    <3> HIDE DEF below
    <3> QED
      BY <2>1, LeastOf
  <2>3. PICK m \in opened : b = Len(tokens) - m
    OBVIOUS
  <2>4. ASSUME NEW n \in opened PROVE n <= m
    <3>1. Len(tokens) - n \in below /\ n \in Nat /\ m \in Nat
      BY <1>1, <1>2, <2>3
    <3>2. b <= Len(tokens) - n
      BY <2>2, <3>1
    <3> QED
      BY <1>1, <2>3, <3>1, <3>2
  <2>5. P(m)
    BY <2>4
  <2>6. Innermost(tokens) = CHOOSE n \in opened : P(n)
    BY <1>4 DEF Innermost
  <2> HIDE DEF P
  <2>7. Innermost(tokens) \in opened /\ P(Innermost(tokens))
    BY <2>3, <2>5, <2>6
  <2>8. \A n \in opened : n <= Innermost(tokens)
    BY <2>7 DEF P
  <2> HIDE DEF opened
  <2> QED
    BY <1>1, <1>2, <2>7, <2>8
<1> QED
  BY <1>3, <1>4

(* What is added for a token that lies behind what was read.                 *)
Adds(js, p, token, later, r) ==
  \/ r = Failed(p)
  \/ /\ r \in Parsers /\ r.pos = p.pos /\ r.super = p.super
     /\ Len(r.tokens) = Len(p.tokens) + 1 /\ TokensFit(js, later, r.tokens)

LEMMA AddTokenIs ==
  ASSUME NEW js, NEW p, ParserFits(js, p), NEW token \in Tokens, token.size = 0,
         NEW later \in Nat, p.pos <= later, p.pos <= token.start, Placed(js, later, token)
  PROVE  Adds(js, p, token, later, AddToken(p, token))
<1> DEFINE old == p.tokens
           L == Len(old)
           new == [n \in 1 .. L + 1 |->
                     IF n = p.super THEN Counted(old[n])
                     ELSE IF n <= L THEN old[n] ELSE token]
           r == [p EXCEPT !.tokens = new]
<1>1. CASE L >= NumTokens
  BY <1>1 DEF AddToken, Adds
<1>2. CASE ~ (L >= NumTokens)
  <2>1. p \in Parsers /\ p.super \in 0 .. L /\ TokensFit(js, p.pos, old)
    BY DEF ParserFits
  <2>2. old \in Seq(Tokens) /\ L \in Nat /\ DOMAIN old = 1 .. L
    BY <2>1 DEF Parsers
  <2>3. AddToken(p, token) = r
    BY <1>2 DEF AddToken
  <2>4. ASSUME NEW n \in 1 .. L
        PROVE  /\ old[n] \in Tokens /\ new[n] \in Tokens
               /\ new[n].type = old[n].type /\ new[n].start = old[n].start /\ new[n].end = old[n].end
               /\ new[n].size \in {old[n].size, old[n].size + 1}
    <3>1. old[n] \in Tokens
      BY <2>2, ElementOfSeq
    <3>2. new[n] = IF n = p.super THEN Counted(old[n]) ELSE old[n]
      BY <2>2
    <3>3. CASE n = p.super
      <4>1. new[n] = Counted(old[n])
        BY <3>2, <3>3
      <4> HIDE DEF new, old
      <4> QED
        BY <3>1, <4>1 DEF Tokens, Counted
    <3>4. CASE n # p.super
      <4>1. new[n] = old[n]
        BY <3>2, <3>4
      <4> HIDE DEF new, old
      <4> QED
        BY <3>1, <4>1
    <3> QED
      BY <3>3, <3>4
  <2>5. new[L + 1] = token
    BY <2>1, <2>2
  <2>6. new \in Seq(Tokens) /\ Len(new) = L + 1 /\ DOMAIN new = 1 .. L + 1
    <3>1. \A n \in 1 .. L + 1 : new[n] \in Tokens
      <4> HIDE DEF new, old
      <4> QED
        BY <2>2, <2>4, <2>5 DEF L
    <3>2. new = [n \in 1 .. L + 1 |-> new[n]] /\ DOMAIN new = 1 .. L + 1
      OBVIOUS
    <3> HIDE DEF new, L, old
    <3>3. new \in [1 .. L + 1 -> Tokens] /\ L + 1 \in Nat
      BY <2>2, <3>1, <3>2
    <3>4. new \in Seq(Tokens)
      BY <3>3
    <3> QED
      BY <3>2, <3>3, <3>4
  <2>7. r \in Parsers /\ r.pos = p.pos /\ r.super = p.super /\ r.tokens = new
    <3> HIDE DEF new
    <3> QED
      BY <2>1, <2>6 DEF Parsers
  <2> HIDE DEF new, r, old, L
  <2>8. ASSUME NEW n \in 1 .. L PROVE Placed(js, later, new[n])
    <3>1. Placed(js, p.pos, old[n]) /\ p.pos \in Nat
      BY <2>1, <2>2 DEF TokensFit, Parsers
    <3>2. old[n].start \in Nat /\ old[n].end \in Nat \cup {Open}
      BY <2>4 DEF Tokens
    <3>3. Placed(js, later, old[n])
      BY <3>1, <3>2 DEF Placed, Open
    <3> QED
      BY <2>4, <3>3 DEF Placed, Opened, Stands
  <2>9. ASSUME NEW n \in 1 .. L + 1 PROVE new[n].size <= L + 1 - n
    <3>1. CASE n = L + 1
      BY <2>2, <2>5, <3>1
    <3>2. CASE n # L + 1
      <4>1. n \in 1 .. L
        BY <2>2, <3>2
      <4>2. old[n].size <= L - n /\ old[n].size \in Nat
        BY <2>1, <2>2, <2>4, <4>1 DEF TokensFit, Tokens, L
      <4>3. new[n].size \in {old[n].size, old[n].size + 1}
        BY <2>4, <4>1
      <4> QED
        BY <2>2, <4>1, <4>2, <4>3
    <3> QED
      BY <3>1, <3>2
  <2>10. ASSUME NEW n \in 1 .. L, NEW j \in 1 .. L, n < j PROVE Follows(new[n], new[j])
    <3>1. Follows(old[n], old[j])
      BY <2>1, <2>2, <2>10 DEF TokensFit
    <3> QED
      BY <2>4, <3>1 DEF Follows
  <2>11. ASSUME NEW n \in 1 .. L PROVE Follows(new[n], token)
    <3>1. Placed(js, p.pos, old[n]) /\ p.pos \in Nat
      BY <2>1, <2>2 DEF TokensFit, Parsers
    <3>2. old[n].start \in Nat /\ old[n].end \in Nat \cup {Open} /\ token.start \in Nat
      BY <2>4 DEF Tokens
    <3>3. Follows(old[n], token)
      BY <3>1, <3>2 DEF Placed, Follows, Open
    <3> QED
      BY <2>4, <3>3 DEF Follows
  <2>12. ASSUME NEW n \in 1 .. L + 1 PROVE Placed(js, later, new[n])
    BY <2>2, <2>5, <2>8
  <2>13. ASSUME NEW n \in 1 .. L + 1, NEW j \in 1 .. L + 1, n < j PROVE Follows(new[n], new[j])
    <3>1. n \in 1 .. L
      BY <2>2, <2>13
    <3>2. CASE j \in 1 .. L
      BY <2>10, <2>13, <3>1, <3>2
    <3>3. CASE j = L + 1
      BY <2>5, <2>11, <3>1, <3>3
    <3> QED
      BY <2>2, <3>2, <3>3
  <2>14. L + 1 <= NumTokens
    BY <1>2, <2>2, NumTokensAssumption
  <2>15. TokensFit(js, later, new)
    <3>0. Len(new) = L + 1 /\ DOMAIN new = 1 .. L + 1
      BY <2>6
    <3>1. ASSUME NEW n \in DOMAIN new PROVE new[n].size <= Len(new) - n
      <4>1. n \in 1 .. L + 1
        BY <2>2, <3>0
      <4>2. new[n].size <= L + 1 - n
        BY <2>9, <4>1
      <4>3. Len(new) - n = L + 1 - n
        BY <2>2, <3>0
      <4> QED
        BY <4>2, <4>3
    <3>2. \A n \in DOMAIN new : Placed(js, later, new[n])
      BY <2>6, <2>12
    <3>3. \A n, j \in DOMAIN new : n < j => Follows(new[n], new[j])
      BY <2>6, <2>13
    <3> QED
      BY <2>6, <2>14, <3>1, <3>2, <3>3 DEF TokensFit
  <2> QED
    BY <2>3, <2>6, <2>7, <2>15 DEF Adds, L, old
<1> QED
  BY <1>1, <1>2

(* The state behind a step, before the place goes on by one.                 *)
Stepped(js, r) ==
  /\ r \in Parsers /\ r.pos \in 1 .. Len(js) /\ r.super \in 0 .. Len(r.tokens)
  /\ TokensFit(js, r.pos + 1, r.tokens)

Inside(js, p) == js \in Strings /\ ParserFits(js, p) /\ p.pos <= Len(js)

LEMMA InsideIs ==
  ASSUME NEW js, NEW p, Inside(js, p)
  PROVE  /\ Len(js) \in Nat /\ \A n \in 1 .. Len(js) : js[n] \in 1 .. 255
         /\ p \in Parsers /\ p.pos \in 1 .. Len(js) /\ p.super \in 0 .. Len(p.tokens)
         /\ TokensFit(js, p.pos, p.tokens) /\ TokensFit(js, p.pos + 1, p.tokens)
         /\ p.tokens \in Seq(Tokens) /\ Len(p.tokens) \in Nat
<1>1. js \in Seq(1 .. 255) /\ Len(js) \in Nat
  BY DEF Inside, Strings
<1>2. \A n \in 1 .. Len(js) : js[n] \in 1 .. 255
  BY <1>1, ElementOfSeq
<1>3. /\ p \in Parsers /\ p.pos \in 1 .. Len(js) /\ p.super \in 0 .. Len(p.tokens)
      /\ TokensFit(js, p.pos, p.tokens)
  BY <1>1 DEF Inside, ParserFits
<1>4. p.pos \in Nat /\ p.pos + 1 \in Nat /\ p.pos <= p.pos + 1
  BY <1>1, <1>3
<1>5. TokensFit(js, p.pos + 1, p.tokens)
  BY <1>3, <1>4, TokensFitLater
<1>6. p.tokens \in Seq(Tokens) /\ Len(p.tokens) \in Nat
  BY <1>3 DEF Parsers
<1> QED
  BY <1>1, <1>2, <1>3, <1>5, <1>6

LEMMA FailedPasses ==
  ASSUME NEW js, NEW p, Inside(js, p)
  PROVE  Stepped(js, Failed(p))
<1>1. /\ p \in Parsers /\ p.pos \in 1 .. Len(js) /\ p.super \in 0 .. Len(p.tokens)
      /\ TokensFit(js, p.pos + 1, p.tokens)
  BY InsideIs
<1>2. /\ Failed(p) \in Parsers /\ Failed(p).pos = p.pos /\ Failed(p).super = p.super
      /\ Failed(p).tokens = p.tokens
  BY <1>1 DEF Failed, Parsers
<1> QED
  BY <1>1, <1>2 DEF Stepped

(* An opening bracket.                                                       *)
LEMMA OpenPasses ==
  ASSUME NEW js, NEW p, Inside(js, p), NEW type \in Containers,
         js[p.pos] = IF type = "object" THEN OpenBrace ELSE OpenBracket
  PROVE  Stepped(js, OpenContainer(p, type))
<1> DEFINE token == Token(type, p.pos, Open)
           later == p.pos + 1
           added == AddToken(p, token)
<1>1. /\ p \in Parsers /\ p.pos \in 1 .. Len(js) /\ Len(js) \in Nat
      /\ TokensFit(js, later, p.tokens) /\ ParserFits(js, p)
  BY InsideIs DEF Inside
<1>2. /\ token \in Tokens /\ token.size = 0 /\ token.start = p.pos /\ token.type = type
      /\ token.end = Open
  BY <1>1 DEF Token, Tokens, Containers, Kinds
<1>3. later \in Nat /\ p.pos <= later /\ p.pos <= token.start
  BY <1>1, <1>2
<1>4. Placed(js, later, token)
  BY <1>1, <1>2 DEF Placed, Opened, Containers
<1>5. Adds(js, p, token, later, added)
  <2> HIDE DEF token, later
  <2> QED
    BY <1>1, <1>2, <1>3, <1>4, AddTokenIs
<1>6. OpenContainer(p, type) = IF added.error THEN added
                               ELSE [added EXCEPT !.super = Len(added.tokens)]
  BY DEF OpenContainer
<1> HIDE DEF added
<1>7. CASE added = Failed(p)
  <2>1. added.error
    BY <1>1, <1>7 DEF Failed, Parsers
  <2> QED
    BY <1>6, <1>7, <2>1, FailedPasses
<1>8. CASE added # Failed(p)
  <2>1. /\ added \in Parsers /\ added.pos = p.pos /\ added.super = p.super
        /\ Len(added.tokens) = Len(p.tokens) + 1 /\ TokensFit(js, later, added.tokens)
    BY <1>5, <1>8 DEF Adds
  <2>2. Len(p.tokens) \in Nat /\ p.super \in 0 .. Len(p.tokens)
    BY InsideIs
  <2>3. Stepped(js, added)
    BY <1>1, <2>1, <2>2 DEF Stepped
  <2> DEFINE r == [added EXCEPT !.super = Len(added.tokens)]
  <2>4. r \in Parsers /\ r.pos = p.pos /\ r.super = Len(r.tokens) /\ r.tokens = added.tokens
    BY <2>1, <2>2 DEF Parsers
  <2>5. Stepped(js, r)
    <3> HIDE DEF r
    <3> QED
      BY <1>1, <2>1, <2>2, <2>4 DEF Stepped
  <2> QED
    BY <1>6, <2>3, <2>5
<1> QED
  BY <1>7, <1>8

(* A closing bracket.                                                        *)
LEMMA ClosePasses ==
  ASSUME NEW js, NEW p, Inside(js, p), NEW type \in Containers,
         js[p.pos] = IF type = "object" THEN CloseBrace ELSE CloseBracket
  PROVE  Stepped(js, CloseContainer(p, type))
<1> DEFINE old == p.tokens
           m == Innermost(old)
           closed == [p EXCEPT !.tokens[m].end = p.pos + 1]
           new == closed.tokens
           r == [closed EXCEPT !.super = Innermost(new)]
           L == Len(old)
<1>1. /\ p \in Parsers /\ p.pos \in 1 .. Len(js) /\ Len(js) \in Nat
      /\ TokensFit(js, p.pos, old) /\ old \in Seq(Tokens) /\ L \in Nat /\ DOMAIN old = 1 .. L
  BY InsideIs
<1>2. CASE m = 0 \/ old[m].type # type
  <2>1. CloseContainer(p, type) = Failed(p)
    BY <1>2 DEF CloseContainer
  <2> QED
    BY <2>1, FailedPasses
<1>3. CASE m # 0 /\ old[m].type = type
  <2>1. CloseContainer(p, type) = r
    BY <1>3 DEF CloseContainer
  <2> HIDE DEF m
  <2>2. /\ m \in 1 .. L /\ old[m].end = Open
        /\ \A n \in 1 .. L : old[n].end = Open => n <= m
    BY <1>1, <1>3, InnermostIs DEF m
  <2>3. /\ closed = [p EXCEPT !.tokens = [old EXCEPT ![m].end = p.pos + 1]]
        /\ new = [old EXCEPT ![m].end = p.pos + 1]
    BY <1>1 DEF Parsers
  <2>4. old[m] \in Tokens
    BY <1>1, <2>2, ElementOfSeq
  <2>5. /\ new[m] = [old[m] EXCEPT !.end = p.pos + 1] /\ DOMAIN new = 1 .. L
        /\ \A n \in 1 .. L : n # m => new[n] = old[n]
    BY <1>1, <2>2, <2>3
  <2> HIDE DEF new, r, closed, old, L
  <2>6. /\ new[m] \in Tokens /\ new[m].end = p.pos + 1 /\ new[m].start = old[m].start
        /\ new[m].type = type /\ new[m].size = old[m].size
    <3>1. p.pos + 1 \in Nat
      BY <1>1
    <3>2. new[m] = [old[m] EXCEPT !.end = p.pos + 1]
      BY <2>5
    <3> QED
      BY <1>3, <2>4, <3>1, <3>2 DEF Tokens
  <2>7. new \in Seq(Tokens) /\ Len(new) = L
    <3>1. old \in [1 .. L -> Tokens]
      BY <1>1 DEF L
    <3>2. new \in [1 .. L -> Tokens]
      <4>1. [old EXCEPT ![m].end = p.pos + 1] = [old EXCEPT ![m] = new[m]]
        BY <2>5, <2>3, <3>1
      <4> QED
        BY <2>3, <2>6, <3>1, <4>1
    <3> QED
      BY <1>1, <3>2
  <2>8. /\ old[m].start >= 1 /\ old[m].start <= Len(js) /\ old[m].start < p.pos
        /\ js[old[m].start] = IF type = "object" THEN OpenBrace ELSE OpenBracket
    BY <1>1, <1>3, <2>2 DEF TokensFit, Placed, Opened, Containers
  <2>9. Stands(js, new[m])
    <3>1. old[m].start \in Nat /\ p.pos \in Nat /\ new[m].end - 1 = p.pos
      BY <1>1, <2>4, <2>6 DEF Tokens
    <3>2. old[m].start < p.pos /\ old[m].start >= 1 /\ p.pos <= Len(js)
      BY <1>1, <2>8
    <3>3. CASE type = "object"
      <4>1. js[old[m].start] = OpenBrace /\ js[p.pos] = CloseBrace
        BY <2>8, <3>3
      <4> QED
        BY <2>6, <3>1, <3>2, <3>3, <4>1 DEF Stands
    <3>4. CASE type = "array"
      <4>1. js[old[m].start] = OpenBracket /\ js[p.pos] = CloseBracket
        BY <2>8, <3>4
      <4> QED
        BY <2>6, <3>1, <3>2, <3>4, <4>1 DEF Stands
    <3> QED
      BY <3>3, <3>4 DEF Containers
  <2>10. Placed(js, p.pos + 1, new[m])
    <3>1. old[m].start \in Nat /\ p.pos \in Nat
      BY <1>1, <2>4 DEF Tokens
    <3> QED
      BY <2>6, <2>8, <2>9, <3>1 DEF Placed, Open
  <2>11. ASSUME NEW n \in 1 .. L PROVE Placed(js, p.pos + 1, new[n])
    <3>1. CASE n = m
      BY <2>10, <3>1
    <3>2. CASE n # m
      <4>1. new[n] = old[n] /\ TokensFit(js, p.pos + 1, old)
        BY <2>5, <3>2, InsideIs DEF old
      <4> QED
        BY <1>1, <4>1 DEF TokensFit
    <3> QED
      BY <3>1, <3>2
  <2>12. ASSUME NEW n \in 1 .. L PROVE new[n].size <= L - n
    <3>1. new[n].size = old[n].size
      BY <2>5, <2>6
    <3> QED
      BY <1>1, <3>1 DEF TokensFit, L
  <2>13. ASSUME NEW n \in 1 .. L, NEW j \in 1 .. L, n < j PROVE Follows(new[n], new[j])
    <3>1. Follows(old[n], old[j]) /\ Placed(js, p.pos, old[j])
      BY <1>1, <2>13 DEF TokensFit
    <3>2. old[n] \in Tokens /\ old[j] \in Tokens
      BY <1>1, ElementOfSeq DEF L
    <3>3. CASE n = m
      <4>1. ~ (j <= m) /\ new[j] = old[j]
        BY <1>1, <2>2, <2>5, <2>13, <3>3
      <4>2. old[j].end # Open
        BY <2>2, <4>1
      <4>3. old[n].start < old[j].start /\ old[j].end <= p.pos
        BY <2>2, <3>1, <3>3, <4>2 DEF Follows, Placed
      <4>4. old[j].end \in Nat /\ p.pos \in Nat
        BY <1>1, <3>2, <4>2 DEF Tokens
      <4>5. old[j].end < p.pos + 1
        BY <4>3, <4>4
      <4> QED
        BY <2>6, <3>3, <4>1, <4>2, <4>3, <4>5, <4>4 DEF Follows, Open
    <3>4. CASE n # m /\ j = m
      <4>1. new[n] = old[n] /\ old[j].end = Open
        BY <2>2, <2>5, <3>4
      <4> QED
        BY <2>6, <3>1, <3>4, <4>1 DEF Follows
    <3>5. CASE n # m /\ j # m
      BY <2>5, <3>1, <3>5
    <3> QED
      BY <3>3, <3>4, <3>5
  <2>14. TokensFit(js, p.pos + 1, new)
    <3>1. Len(new) <= NumTokens
      BY <1>1, <2>7 DEF TokensFit, L
    <3>2. \A n \in DOMAIN new : new[n].size <= Len(new) - n
      BY <2>5, <2>7, <2>12, Zenon
    <3>3. \A n \in DOMAIN new : Placed(js, p.pos + 1, new[n])
      BY <2>5, <2>11, Zenon
    <3>4. \A n, j \in DOMAIN new : n < j => Follows(new[n], new[j])
      BY <2>5, <2>13, Zenon
    <3> QED
      BY <2>7, <3>1, <3>2, <3>3, <3>4 DEF TokensFit
  <2>15. Innermost(new) \in 0 .. Len(new)
    BY <2>7, InnermostIs
  <2>16. closed \in Parsers /\ closed.pos = p.pos /\ closed.tokens = new
    BY <1>1, <2>3, <2>7 DEF Parsers
  <2>17. r \in Parsers /\ r.pos = p.pos /\ r.tokens = new /\ r.super = Innermost(new)
    <3>1. Innermost(new) \in Nat
      BY <1>1, <2>7, <2>15
    <3> QED
      BY <2>16, <3>1 DEF Parsers, r
  <2> QED
    BY <1>1, <2>1, <2>14, <2>15, <2>17 DEF Stepped
<1> QED
  BY <1>2, <1>3

(* Where a string ends: at a quote of the text, or it does not.              *)
QuoteEnds(js) ==
  {f \in [Nat -> Nat] : \A n \in Nat \ {0} :
     f[n] # 0 => f[n] >= n /\ f[n] <= Len(js) /\ js[f[n]] = Quote}

LEMMA EndQuoteFromIs ==
  ASSUME NEW js, NEW at \in Nat, NEW others
  PROVE  \/ EndQuoteFrom(js, at, others) = 0
         \/ Char(js, at) = Quote /\ EndQuoteFrom(js, at, others) = at
         \/ \E k \in Nat \ {0} : EndQuoteFrom(js, at, others) = others[at + k]
<1> DEFINE e == Char(js, at + 1)
           hex == {n \in 0 .. 3 : \A j \in 0 .. n : Char(js, at + 2 + j) # 0}
           k == 2 + Cardinality(hex)
<1>1. k \in Nat \ {0} /\ at + k = at + 2 + Cardinality(hex)
  <2>1. IsFiniteSet(0 .. 3)
    <3>1. 0 \in Int /\ 3 \in Int
      OBVIOUS
    <3> QED
      BY <3>1, FS_Interval
  <2>2. IsFiniteSet(hex)
    BY <2>1, FS_Subset
  <2>3. Cardinality(hex) \in Nat
    BY <2>2, FS_CardinalityType
  <2> QED
    BY <2>3
<1>2. EndQuoteFrom(js, at, others) \in
        {0, others[at + 1], others[at + 2], others[at + k]} \cup
        (IF Char(js, at) = Quote THEN {at} ELSE {})
  BY <1>1 DEF EndQuoteFrom
<1> HIDE DEF k
<1> QED
  BY <1>1, <1>2

LEMMA QuoteEndsGoOn ==
  ASSUME NEW js \in Strings, NEW others \in QuoteEnds(js)
  PROVE  [n \in Nat |-> EndQuoteFrom(js, n, others)] \in QuoteEnds(js)
<1>1. others \in [Nat -> Nat] /\ Len(js) \in Nat
  BY DEF QuoteEnds, Strings
<1>2. ASSUME NEW n \in Nat PROVE EndQuoteFrom(js, n, others) \in Nat
  <2>1. ASSUME NEW k \in Nat \ {0} PROVE others[n + k] \in Nat
    BY <1>1
  <2> QED
    BY <2>1, EndQuoteFromIs
<1>3. ASSUME NEW n \in Nat \ {0}, EndQuoteFrom(js, n, others) # 0
      PROVE  /\ EndQuoteFrom(js, n, others) >= n /\ EndQuoteFrom(js, n, others) <= Len(js)
             /\ js[EndQuoteFrom(js, n, others)] = Quote
  <2>1. CASE Char(js, n) = Quote /\ EndQuoteFrom(js, n, others) = n
    <3>1. Char(js, n) # 0
      BY <2>1 DEF Quote
    <3>2. n <= Len(js) /\ Char(js, n) = js[n]
      BY <3>1, CharIs
    <3> QED
      BY <1>1, <2>1, <3>2
  <2>2. ASSUME NEW k \in Nat \ {0}, EndQuoteFrom(js, n, others) = others[n + k]
        PROVE  /\ others[n + k] >= n /\ others[n + k] <= Len(js) /\ js[others[n + k]] = Quote
    <3>1. n + k \in Nat \ {0} /\ n + k >= n
      OBVIOUS
    <3>2. others[n + k] # 0 /\ others[n + k] \in Nat
      BY <1>1, <1>3, <2>2, <3>1
    <3>3. others[n + k] >= n + k /\ others[n + k] <= Len(js) /\ js[others[n + k]] = Quote
      BY <3>1, <3>2 DEF QuoteEnds
    <3> QED
      BY <3>1, <3>2, <3>3
  <2>3. \/ Char(js, n) = Quote /\ EndQuoteFrom(js, n, others) = n
        \/ \E k \in Nat \ {0} : EndQuoteFrom(js, n, others) = others[n + k]
    BY <1>3, EndQuoteFromIs
  <2> QED
    BY <2>1, <2>2, <2>3
<1> DEFINE f == [n \in Nat |-> EndQuoteFrom(js, n, others)]
<1>4. f \in [Nat -> Nat]
  BY <1>2
<1>5. \A n \in Nat : f[n] = EndQuoteFrom(js, n, others)
  OBVIOUS
<1> HIDE DEF f
<1>6. f \in QuoteEnds(js)
  BY <1>3, <1>4, <1>5 DEF QuoteEnds
<1> QED
  BY <1>6 DEF f

LEMMA EndQuoteIs ==
  ASSUME NEW js \in Strings, NEW at \in Nat \ {0}, EndQuote(js, at) # 0
  PROVE  EndQuote(js, at) \in at .. Len(js) /\ js[EndQuote(js, at)] = Quote
<1> DEFINE N == Len(js) + 1
           none == [n \in Nat |-> 0]
           F(g) == [n \in 0 .. N |->
                      [j \in Nat |-> IF n = 0 THEN 0 ELSE EndQuoteFrom(js, j, g[n - 1])]]
           ends == CHOOSE g : g = F(g)
           step == [x \in QuoteEnds(js) \X (1 .. N) |-> [j \in Nat |-> EndQuoteFrom(js, j, x[1])]]
<1>1. N \in Nat /\ Len(js) \in Nat
  BY DEF Strings
<1>2. none \in QuoteEnds(js)
  BY DEF QuoteEnds
<1>3. step \in Moves(QuoteEnds(js), N)
  BY QuoteEndsGoOn DEF Moves
<1>4. \E g : g = F(g)
  <2>1. PICK g : IsWalk(g, QuoteEnds(js), N, none, step)
    <3> HIDE DEF none, step, N
    <3> QED
      BY ONLY <1>1, <1>2, <1>3, WalkExists
  <2>2. /\ g \in [0 .. N -> QuoteEnds(js)] /\ g[0] = none
        /\ \A n \in 1 .. N : g[n] = step[<<g[n - 1], n>>]
    BY <2>1 DEF IsWalk
  <2>3. ASSUME NEW n \in 1 .. N PROVE g[n] = [j \in Nat |-> EndQuoteFrom(js, j, g[n - 1])]
    <3>1. n - 1 \in 0 .. N
      BY <1>1
    <3>2. <<g[n - 1], n>> \in QuoteEnds(js) \X (1 .. N)
      BY <2>2, <3>1
    <3> QED
      BY <2>2, <3>2
  <2>4. ASSUME NEW n \in 0 .. N
        PROVE  g[n] = [j \in Nat |-> IF n = 0 THEN 0 ELSE EndQuoteFrom(js, j, g[n - 1])]
    <3>1. CASE n = 0
      BY <2>2, <3>1
    <3>2. CASE n # 0
      <4>1. n \in 1 .. N
        BY <1>1, <3>2
      <4> QED
        BY <2>3, <3>2, <4>1
    <3> QED
      BY <3>1, <3>2
  <2>5. g = [n \in 0 .. N |-> g[n]]
    BY <2>2
  <2>6. g = F(g)
    BY <2>4, <2>5
  <2> QED
    BY <2>6
<1>5. ends = F(ends)
  <2> HIDE DEF F
  <2> QED
    BY <1>4
<1>6. EndQuote(js, at) = ends[N][at]
  BY DEF EndQuote
<1> HIDE DEF ends
<1>7. /\ ends[0] = none
      /\ \A n \in 1 .. N : ends[n] = [j \in Nat |-> EndQuoteFrom(js, j, ends[n - 1])]
  <2>1. ends[0] = none
    <3>1. 0 \in 0 .. N
      BY <1>1
    <3> QED
      BY <1>5, <3>1
  <2>2. ASSUME NEW n \in 1 .. N PROVE ends[n] = [j \in Nat |-> EndQuoteFrom(js, j, ends[n - 1])]
    <3>1. n \in 0 .. N /\ n # 0
      BY <1>1
    <3> QED
      BY <1>5, <3>1
  <2> QED
    BY <2>1, <2>2
<1> DEFINE T == {n \in 0 .. N : ends[n] \in QuoteEnds(js)}
<1>8. 0 \in T
  BY <1>1, <1>2, <1>7
<1>9. ASSUME NEW n \in 0 .. N - 1, n \in T PROVE n + 1 \in T
  <2>1. n + 1 \in 1 .. N /\ n + 1 \in 0 .. N /\ (n + 1) - 1 = n
    BY <1>1
  <2>2. ends[n + 1] = [j \in Nat |-> EndQuoteFrom(js, j, ends[n])]
    BY <1>7, <2>1
  <2>3. ends[n] \in QuoteEnds(js)
    BY <1>9
  <2> QED
    BY <2>1, <2>2, <2>3, QuoteEndsGoOn
<1>10. \A n \in 0 .. N : n \in T
  <2> HIDE DEF T, N
  <2> QED
    BY <1>1, <1>8, <1>9, UpTo
<1>11. ends[N] \in QuoteEnds(js)
  BY <1>1, <1>10
<1>12. ends[N][at] \in Nat
  BY <1>11 DEF QuoteEnds
<1>13. ends[N][at] >= at /\ ends[N][at] <= Len(js) /\ js[ends[N][at]] = Quote
  <2> HIDE DEF N
  <2> QED
    BY <1>6, <1>11 DEF QuoteEnds
<1> QED
  BY <1>1, <1>6, <1>12, <1>13

LEMMA StringPasses ==
  ASSUME NEW js, NEW p, Inside(js, p), js[p.pos] = Quote
  PROVE  Stepped(js, jsmn_parse_string(js, p))
<1> DEFINE end == EndQuote(js, p.pos + 1)
           token == Token("string", p.pos + 1, end)
           added == AddToken(p, token)
           r == [added EXCEPT !.pos = end]
<1>1. /\ p \in Parsers /\ p.pos \in 1 .. Len(js) /\ Len(js) \in Nat /\ js \in Strings
      /\ p.super \in 0 .. Len(p.tokens) /\ Len(p.tokens) \in Nat
      /\ TokensFit(js, p.pos, p.tokens) /\ ParserFits(js, p)
  BY InsideIs DEF Inside
<1>2. CASE end = 0
  BY <1>2, FailedPasses DEF jsmn_parse_string
<1>3. CASE end # 0
  <2>1. jsmn_parse_string(js, p) = r
    BY <1>3 DEF jsmn_parse_string
  <2>2. p.pos + 1 \in Nat \ {0}
    BY <1>1
  <2>3. end \in p.pos + 1 .. Len(js) /\ js[end] = Quote
    BY <1>1, <1>3, <2>2, EndQuoteIs
  <2> HIDE DEF end
  <2>4. /\ end \in Nat /\ p.pos \in Nat /\ end + 1 \in Nat /\ p.pos <= end + 1
        /\ p.pos <= p.pos + 1 /\ p.pos + 1 < end + 1 /\ end <= end + 1
        /\ p.pos + 1 <= end /\ end <= Len(js) /\ (p.pos + 1) - 1 = p.pos /\ (end - 1) + 1 = end
    BY <1>1, <2>3
  <2>5. /\ token \in Tokens /\ token.size = 0 /\ token.start = p.pos + 1 /\ token.end = end
        /\ token.type = "string"
    BY <2>2, <2>4 DEF Token, Tokens, Kinds
  <2> HIDE DEF token
  <2>6. Stands(js, token)
    BY <1>1, <2>3, <2>4, <2>5 DEF Stands
  <2>7. Placed(js, end + 1, token)
    BY <2>4, <2>5, <2>6 DEF Placed, Open
  <2>8. Adds(js, p, token, end + 1, added)
    BY <1>1, <2>4, <2>5, <2>7, AddTokenIs
  <2> HIDE DEF added
  <2>9. /\ added \in Parsers /\ added.super \in 0 .. Len(added.tokens)
        /\ TokensFit(js, end + 1, added.tokens)
    <3>1. CASE added = Failed(p)
      <4>1. added \in Parsers /\ added.super = p.super /\ added.tokens = p.tokens
        BY <1>1, <3>1 DEF Failed, Parsers
      <4>2. TokensFit(js, end + 1, p.tokens)
        BY <1>1, <2>4, TokensFitLater
      <4> QED
        BY <1>1, <4>1, <4>2
    <3>2. CASE added # Failed(p)
      BY <1>1, <2>8, <3>2 DEF Adds
    <3> QED
      BY <3>1, <3>2
  <2>10. r \in Parsers /\ r.pos = end /\ r.super = added.super /\ r.tokens = added.tokens
    BY <2>4, <2>9 DEF Parsers
  <2> HIDE DEF r
  <2>11. end \in 1 .. Len(js)
    BY <1>1, <2>4
  <2> QED
    BY <2>1, <2>9, <2>10, <2>11 DEF Stepped
<1> QED
  BY <1>2, <1>3

(* A primitive is what is left: at least one character long.                 *)
LEMMA PrimitivePasses ==
  ASSUME NEW js, NEW p, Inside(js, p), js[p.pos] \notin Separators
  PROVE  Stepped(js, jsmn_parse_primitive(js, p))
<1> DEFINE set == (1 .. 255) \ Separators
           end == PassOver(js, p.pos, set)
           token == Token("primitive", p.pos, end)
           added == AddToken(p, token)
           r == [added EXCEPT !.pos = end - 1]
<1>1. /\ p \in Parsers /\ p.pos \in 1 .. Len(js) /\ Len(js) \in Nat /\ js \in Strings
      /\ p.super \in 0 .. Len(p.tokens) /\ Len(p.tokens) \in Nat
      /\ TokensFit(js, p.pos, p.tokens) /\ ParserFits(js, p)
      /\ \A n \in 1 .. Len(js) : js[n] \in 1 .. 255
  BY InsideIs DEF Inside
<1>2. CASE \E n \in p.pos .. end - 1 : js[n] \notin 32 .. 126
  BY <1>2, FailedPasses DEF jsmn_parse_primitive
<1>3. CASE ~ \E n \in p.pos .. end - 1 : js[n] \notin 32 .. 126
  <2>1. jsmn_parse_primitive(js, p) = r
    BY <1>3 DEF jsmn_parse_primitive
  <2>2. /\ end \in p.pos + 1 .. Len(js) + 1
        /\ \A n \in p.pos .. end - 1 : js[n] \notin Separators
    <3> DEFINE Stops == {n \in p.pos .. Len(js) + 1 : Char(js, n) \notin set \/ n > Len(js)}
    <3>1. Stops \in SUBSET Nat /\ Len(js) + 1 \in Stops
      BY <1>1
    <3>2. PICK q \in Stops : \A n \in Stops : q <= n
      <4>1. Stops # {}
        BY <3>1
      <4> HIDE DEF Stops
      <4> QED
        BY <3>1, <4>1, LeastOf
    <3>3. q \in p.pos .. Len(js) + 1 /\ (Char(js, q) \notin set \/ q > Len(js))
      BY <3>2
    <3> HIDE DEF Stops, set, end
    <3>4. ASSUME NEW n \in p.pos .. q - 1 PROVE Char(js, n) \in set /\ n <= Len(js) /\ n \in Nat \ {0}
      <4>0. Len(js) \in Nat /\ p.pos \in 1 .. Len(js) /\ q \in p.pos .. Len(js) + 1
        BY <1>1, <3>3
      <4>1. n \in p.pos .. Len(js) + 1 /\ ~ (q <= n) /\ n <= Len(js) /\ n \in Nat \ {0}
        BY ONLY <4>0, n \in p.pos .. q - 1
      <4>2. n \notin Stops
        BY <3>2, <4>1
      <4> QED
        BY <4>1, <4>2 DEF Stops
    <3>5. end = q
      <4>1. \A n \in p.pos .. q - 1 : Char(js, n) \in set
        BY <3>4
      <4>0. Len(js) \in Nat /\ p.pos \in 1 .. Len(js) /\ js \in Strings
        BY <1>1
      <4>2. p.pos \in Nat \ {0}
        BY ONLY <4>0
      <4> QED
        BY ONLY <4>0, <3>3, <4>1, <4>2, PassOverIs DEF end
    <3>6. p.pos # q
      <4>1. Char(js, p.pos) = js[p.pos] /\ p.pos <= Len(js)
        BY <1>1 DEF Char
      <4>2. Char(js, p.pos) \in set
        BY <1>1, <4>1 DEF set
      <4> QED
        BY <3>3, <4>1, <4>2
    <3>7. ASSUME NEW n \in p.pos .. q - 1 PROVE js[n] \notin Separators
      <4>1. Char(js, n) = js[n] /\ Char(js, n) \in set
        BY <3>4, CharIs, <1>1
      <4> QED
        BY <4>1 DEF set
    <3> QED
      BY <1>1, <3>3, <3>5, <3>6, <3>7
  <2> HIDE DEF end
  <2>4. /\ end \in Nat /\ p.pos \in Nat /\ p.pos <= end /\ p.pos < end
        /\ p.pos <= end - 1 /\ end - 1 <= Len(js) /\ end - 1 \in Nat /\ (end - 1) + 1 = end
        /\ p.pos >= 1
    BY <1>1, <2>2
  <2>5. /\ token \in Tokens /\ token.size = 0 /\ token.start = p.pos /\ token.end = end
        /\ token.type = "primitive"
    BY <2>4 DEF Token, Tokens, Kinds
  <2> HIDE DEF token
  <2>6. Stands(js, token)
    BY <2>2, <2>4, <2>5 DEF Stands
  <2>7. Placed(js, end, token)
    BY <2>4, <2>5, <2>6 DEF Placed, Open
  <2>8. Adds(js, p, token, end, added)
    BY <1>1, <2>4, <2>5, <2>7, AddTokenIs
  <2> HIDE DEF added
  <2>9. /\ added \in Parsers /\ added.super \in 0 .. Len(added.tokens)
        /\ TokensFit(js, end, added.tokens)
    <3>1. CASE added = Failed(p)
      <4>1. added \in Parsers /\ added.super = p.super /\ added.tokens = p.tokens
        BY <1>1, <3>1 DEF Failed, Parsers
      <4>2. TokensFit(js, end, p.tokens)
        BY <1>1, <2>4, TokensFitLater
      <4> QED
        BY <1>1, <4>1, <4>2
    <3>2. CASE added # Failed(p)
      BY <1>1, <2>8, <3>2 DEF Adds
    <3> QED
      BY <3>1, <3>2
  <2>10. r \in Parsers /\ r.pos = end - 1 /\ r.super = added.super /\ r.tokens = added.tokens
    BY <2>4, <2>9 DEF Parsers
  <2> HIDE DEF r
  <2>11. end - 1 \in 1 .. Len(js)
    BY <1>1, <2>4
  <2> QED
    BY <2>1, <2>4, <2>9, <2>10, <2>11 DEF Stepped
<1> QED
  BY <1>2, <1>3

(* Any character of the text.                                                *)
LEMMA StepPasses ==
  ASSUME NEW js, NEW p, Inside(js, p)
  PROVE  Stepped(js, Step(js, p))
<1> DEFINE chr == js[p.pos]
<1>1. /\ p \in Parsers /\ p.pos \in 1 .. Len(js) /\ p.super \in 0 .. Len(p.tokens)
      /\ Len(p.tokens) \in Nat /\ p.tokens \in Seq(Tokens) /\ TokensFit(js, p.pos + 1, p.tokens)
  BY InsideIs
<1>2. ASSUME NEW s \in 0 .. Len(p.tokens) PROVE Stepped(js, [p EXCEPT !.super = s])
  <2> DEFINE r == [p EXCEPT !.super = s]
  <2>1. r \in Parsers /\ r.pos = p.pos /\ r.super = s /\ r.tokens = p.tokens
    BY <1>1 DEF Parsers
  <2> HIDE DEF r
  <2>2. Stepped(js, r)
    BY <1>1, <2>1 DEF Stepped
  <2> QED
    BY <2>2 DEF r
<1>3. Stepped(js, p)
  BY <1>1 DEF Stepped
<1>4. Len(p.tokens) \in 0 .. Len(p.tokens) /\ Innermost(p.tokens) \in 0 .. Len(p.tokens)
  BY <1>1, InnermostIs
<1>5. "object" \in Containers /\ "array" \in Containers /\ "array" # "object"
  BY DEF Containers
<1> HIDE DEF chr
<1> USE DEF OpenBrace, OpenBracket, CloseBrace, CloseBracket, Quote, Colon, Comma, Blanks,
            Tab, LineFeed, Space
<1>6. CASE chr = OpenBrace
  BY <1>5, <1>6, OpenPasses DEF Step, chr
<1>7. CASE chr = OpenBracket
  BY <1>5, <1>7, OpenPasses DEF Step, chr
<1>8. CASE chr = CloseBrace
  BY <1>5, <1>8, ClosePasses DEF Step, chr
<1>9. CASE chr = CloseBracket
  BY <1>5, <1>9, ClosePasses DEF Step, chr
<1>10. CASE chr = Quote
  BY <1>10, StringPasses DEF Step, chr
<1>11. CASE chr \in Blanks
  <2>1. Step(js, p) = p
    BY <1>11 DEF Step, chr
  <2> QED
    BY <1>3, <2>1
<1>12. CASE chr = Colon
  <2>1. Step(js, p) = [p EXCEPT !.super = Len(p.tokens)]
    BY <1>12 DEF Step, chr
  <2> QED
    BY <1>2, <1>4, <2>1
<1>13. CASE chr = Comma
  <2>1. Step(js, p) = AfterComma(p)
    BY <1>13 DEF Step, chr
  <2>2. AfterComma(p) \in {p, [p EXCEPT !.super = Innermost(p.tokens)]}
    BY DEF AfterComma
  <2> QED
    BY <1>2, <1>3, <1>4, <2>1, <2>2
<1>14. CASE chr \notin Blanks \cup {OpenBrace, OpenBracket, CloseBrace, CloseBracket, Quote, Colon, Comma}
  <2>1. Step(js, p) = jsmn_parse_primitive(js, p)
    BY <1>14 DEF Step, chr
  <2>2. js[p.pos] \notin Separators
    BY <1>14 DEF Separators, chr
  <2> QED
    BY <2>1, <2>2, PrimitivePasses
<1> QED
  BY <1>6, <1>7, <1>8, <1>9, <1>10, <1>11, <1>12, <1>13, <1>14

LEMMA NextStepFits ==
  ASSUME NEW js \in Strings, NEW p, ParserFits(js, p)
  PROVE  ParserFits(js, NextStep(js, p))
<1>1. CASE p.error \/ p.pos > Len(js)
  BY <1>1 DEF NextStep
<1>2. CASE ~ (p.error \/ p.pos > Len(js))
  <2>1. Len(js) \in Nat /\ p.pos \in 1 .. Len(js) + 1
    BY DEF Strings, ParserFits
  <2>2. Inside(js, p)
    BY <1>2, <2>1 DEF Inside
  <2> DEFINE q == Step(js, p)
             r == [q EXCEPT !.pos = @ + 1]
  <2>3. Stepped(js, q)
    BY <2>2, StepPasses
  <2>4. NextStep(js, p) = r
    BY <1>2 DEF NextStep
  <2> HIDE DEF q
  <2>5. /\ q \in Parsers /\ q.pos \in 1 .. Len(js) /\ q.super \in 0 .. Len(q.tokens)
        /\ TokensFit(js, q.pos + 1, q.tokens)
    BY <2>3 DEF Stepped
  <2>6. /\ r \in Parsers /\ r.pos = q.pos + 1 /\ r.super = q.super /\ r.tokens = q.tokens
        /\ r.pos \in 1 .. Len(js) + 1
    BY <2>1, <2>5 DEF Parsers
  <2> HIDE DEF r
  <2> QED
    BY <2>4, <2>5, <2>6 DEF ParserFits
<1> QED
  BY <1>1, <1>2

LEMMA StepsFit ==
  ASSUME NEW js \in Strings
  PROVE  ParserFits(js, Steps(js)[Len(js)])
<1> DEFINE N == Len(js)
           S == {p \in Parsers : ParserFits(js, p)}
           F(g) == [k \in 0 .. N |-> IF k = 0 THEN jsmn_init ELSE NextStep(js, g[k - 1])]
           steps == CHOOSE g : g = F(g)
           step == [x \in S \X (1 .. N) |-> NextStep(js, x[1])]
<1>1. N \in Nat
  BY DEF Strings
<1>2. jsmn_init \in S
  <2>1. /\ jsmn_init.pos = 1 /\ jsmn_init.super = 0 /\ jsmn_init.tokens = <<>>
        /\ jsmn_init \in Parsers
    BY DEF jsmn_init, Parsers
  <2>2. TokensFit(js, 1, <<>>)
    <3>1. <<>> \in Seq(Tokens) /\ Len(<<>>) = 0 /\ DOMAIN <<>> = {}
      OBVIOUS
    <3> QED
      BY <3>1, NumTokensAssumption DEF TokensFit
  <2>3. 1 \in 1 .. Len(js) + 1 /\ 0 \in 0 .. Len(<<>>)
    BY <1>1
  <2> QED
    BY <2>1, <2>2, <2>3 DEF ParserFits
<1>3. ASSUME NEW p \in S PROVE NextStep(js, p) \in S
  BY NextStepFits DEF ParserFits
<1> HIDE DEF S
<1>4. step \in Moves(S, N)
  BY <1>3 DEF Moves
<1>5. \E g : g = F(g)
  <2>1. PICK g : IsWalk(g, S, N, jsmn_init, step)
    <3> HIDE DEF step, N
    <3> QED
      BY ONLY <1>1, <1>2, <1>4, WalkExists
  <2>2. /\ g \in [0 .. N -> S] /\ g[0] = jsmn_init
        /\ \A n \in 1 .. N : g[n] = step[<<g[n - 1], n>>]
    BY <2>1 DEF IsWalk
  <2>3. ASSUME NEW n \in 1 .. N PROVE g[n] = NextStep(js, g[n - 1])
    <3>1. n - 1 \in 0 .. N
      BY <1>1
    <3>2. <<g[n - 1], n>> \in S \X (1 .. N)
      BY <2>2, <3>1
    <3> QED
      BY <2>2, <3>2
  <2>4. ASSUME NEW n \in 0 .. N PROVE g[n] = IF n = 0 THEN jsmn_init ELSE NextStep(js, g[n - 1])
    <3>1. CASE n = 0
      BY <2>2, <3>1
    <3>2. CASE n # 0
      <4>1. n \in 1 .. N
        BY <1>1, <3>2
      <4> QED
        BY <2>3, <3>2, <4>1
    <3> QED
      BY <3>1, <3>2
  <2>5. g = [n \in 0 .. N |-> g[n]]
    BY <2>2
  <2>6. g = F(g)
    BY <2>4, <2>5
  <2> QED
    BY <2>6
<1>6. steps = F(steps)
  <2> HIDE DEF F
  <2> QED
    BY <1>5
<1>7. Steps(js) = steps
  BY DEF Steps
<1> HIDE DEF steps
<1> DEFINE T == {n \in 0 .. N : steps[n] \in S}
<1>8. 0 \in T
  <2>1. 0 \in 0 .. N
    BY <1>1
  <2>2. steps[0] = jsmn_init
    BY <1>6, <2>1
  <2> QED
    BY <1>2, <2>1, <2>2
<1>9. ASSUME NEW n \in 0 .. N - 1, n \in T PROVE n + 1 \in T
  <2>1. n + 1 \in 0 .. N /\ n + 1 # 0 /\ (n + 1) - 1 = n
    BY <1>1
  <2>2. steps[n + 1] = NextStep(js, steps[n])
    BY <1>6, <2>1
  <2> QED
    BY <1>3, <1>9, <2>1, <2>2
<1>10. \A n \in 0 .. N : n \in T
  <2> HIDE DEF T, N
  <2> QED
    BY <1>1, <1>8, <1>9, UpTo
<1>11. steps[N] \in S
  BY <1>1, <1>10
<1> QED
  BY <1>7, <1>11 DEF S

(* Whatever the text, of any length, and however many tokens there is room   *)
(* for: the tokens jsmn_parse makes stand for parts of it, are nested as its *)
(* brackets are, and count below them only what follows.                     *)
THEOREM TokensAreNested ==
  ASSUME NEW js \in Strings
  PROVE  TokensNest(js)
<1> DEFINE p == Steps(js)[Len(js)]
           tokens == p.tokens
<1>1. ParserFits(js, p)
  BY StepsFit
<1> HIDE DEF p
<1>2. TokensFit(js, p.pos, tokens)
  BY <1>1 DEF ParserFits
<1>3. jsmn_parse(js) = IF p.error \/ OpenOnes(tokens) # {} THEN {} ELSE {tokens}
  BY DEF jsmn_parse, p
<1>4. CASE OpenOnes(tokens) # {}
  BY <1>3, <1>4 DEF TokensNest
<1>5. CASE OpenOnes(tokens) = {}
  <2>1. \A n \in DOMAIN tokens : tokens[n].end # Open
    BY <1>5 DEF OpenOnes
  <2>2. Len(tokens) <= NumTokens
    BY <1>2 DEF TokensFit
  <2>3. \A n \in DOMAIN tokens : Stands(js, tokens[n])
    BY <1>2, <2>1 DEF TokensFit, Placed
  <2>4. \A n \in DOMAIN tokens : tokens[n].size <= Len(tokens) - n
    BY <1>2 DEF TokensFit
  <2>5. ASSUME NEW n \in DOMAIN tokens, NEW j \in DOMAIN tokens, n < j
        PROVE  Nested(tokens[n], tokens[j])
    <3>1. Follows(tokens[n], tokens[j])
      BY <1>2, <2>5 DEF TokensFit
    <3> QED
      BY <2>1, <3>1 DEF Follows, Nested, Containers
  <2> HIDE DEF tokens
  <2>6. \A t \in {tokens} : /\ Len(t) <= NumTokens
                            /\ \A n \in DOMAIN t : Stands(js, t[n]) /\ t[n].size <= Len(t) - n
                            /\ \A n, j \in DOMAIN t : n < j => Nested(t[n], t[j])
    BY <2>2, <2>3, <2>4, <2>5
  <2>7. jsmn_parse(js) \subseteq {tokens}
    BY <1>3
  <2> QED
    BY <2>6, <2>7 DEF TokensNest
<1> QED
  BY <1>4, <1>5

(* The same of every behaviour: whatever texts are cut.                      *)
THEOREM TextsAreCut == CodecsSpec => []TextsCut
<1>1. CodecsInit => TextsCut
  BY DEF CodecsInit, TextsCut, NoInput
<1>2. TextsCut /\ [CodecsNext]_codecsVars => TextsCut'
  <2> SUFFICES ASSUME TextsCut, [CodecsNext]_codecsVars
               PROVE  TextsCut'
    OBVIOUS
  <2>1. CASE UNCHANGED input
    BY <2>1 DEF TextsCut
  <2>2. CASE CutText
    <3>1. PICK t \in Garbled : input' = [of |-> "text", value |-> t]
      BY <2>2 DEF CutText
    <3>2. TokensNest(t)
      BY <3>1, GarbledAssumption, TokensAreNested
    <3> QED
      BY <3>1, <3>2 DEF TextsCut
  <2>3. CASE PrintTree
    BY <2>3 DEF PrintTree, TextsCut
  <2>4. CASE ReadAnswer
    BY <2>4 DEF ReadAnswer, TextsCut
  <2>5. CASE BootApps
    BY <2>5 DEF BootApps, TextsCut
  <2>6. CASE CallRing
    BY <2>6 DEF CallRing, CallsRing, TextsCut
  <2>7. CASE WritePacket
    BY <2>1, <2>7 DEF WritePacket
  <2>8. CASE ReadVersion
    BY <2>8 DEF ReadVersion, TextsCut
  <2> QED
    BY <2>1, <2>2, <2>3, <2>4, <2>5, <2>6, <2>7, <2>8 DEF CodecsNext, codecsVars
<1> QED
  BY <1>1, <1>2, PTL DEF CodecsSpec
=============================================================================
