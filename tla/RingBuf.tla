------------------------------ MODULE RingBuf ------------------------------
(* The ring buffer of src/apps/mqtt/ringbuf.c.  Pointers are offsets from    *)
(* p_o, so p_r and p_w are indices into buf.                                 *)
EXTENDS Integers

CONSTANTS Size, Byte,
          Zero            \* the byte os_zalloc fills a new buffer with

ASSUME SizeAssumption == Size \in Nat /\ Size >= 2   \* RINGBUF_Init refuses less
ASSUME ZeroAssumption == Zero \in Byte

VARIABLES buf, p_r, p_w, fill_cnt,
          c,              \* *c of the caller of RINGBUF_Get
          rc              \* the value the last call returned

vars == <<buf, p_r, p_w, fill_cnt, c, rc>>

Index == 0 .. Size - 1

TypeOK == /\ buf \in [Index -> Byte]
          /\ p_r \in Index
          /\ p_w \in Index
          /\ fill_cnt \in 0 .. Size
          /\ c \in Byte
          /\ rc \in {0, -1}

(* The rollback at the physical boundary: a pointer that moved past the last *)
(* slot returns to p_o.                                                      *)
Wrap(p) == IF p >= Size THEN p - Size ELSE p

RINGBUF_Init == /\ buf = [i \in Index |-> Zero]
                /\ p_r = 0 /\ p_w = 0
                /\ fill_cnt = 0
                /\ c \in Byte
                /\ rc = 0

RINGBUF_Put(b) ==
  \/ /\ fill_cnt >= Size
     /\ rc' = -1
     /\ UNCHANGED <<buf, p_r, p_w, fill_cnt, c>>
  \/ /\ fill_cnt < Size
     /\ fill_cnt' = fill_cnt + 1
     /\ buf' = [buf EXCEPT ![p_w] = b]
     /\ p_w' = Wrap(p_w + 1)
     /\ rc' = 0
     /\ UNCHANGED <<p_r, c>>

(* Wrong variant: the byte is read at the pointer after it moved.            *)
GetAfterMove ==
  \/ fill_cnt <= 0 /\ rc' = -1 /\ UNCHANGED <<buf, p_r, p_w, fill_cnt, c>>
  \/ /\ fill_cnt > 0
     /\ fill_cnt' = fill_cnt - 1
     /\ p_r' = Wrap(p_r + 1)
     /\ c' = buf[p_r']
     /\ rc' = 0
     /\ UNCHANGED <<buf, p_w>>

RINGBUF_Get ==
  \/ /\ fill_cnt <= 0
     /\ rc' = -1
     /\ UNCHANGED <<buf, p_r, p_w, fill_cnt, c>>
  \/ /\ fill_cnt > 0
     /\ fill_cnt' = fill_cnt - 1
     /\ c' = buf[p_r]
     /\ p_r' = Wrap(p_r + 1)
     /\ rc' = 0
     /\ UNCHANGED <<buf, p_w>>

Next == RINGBUF_Get \/ \E b \in Byte : RINGBUF_Put(b)

Spec == RINGBUF_Init /\ [][Next]_vars

----------------------------------------------------------------------------
(* fill_cnt and the two pointers are three records of one fact and each call *)
(* updates two of them: the write pointer is always fill_cnt slots ahead of  *)
(* the read pointer, around the boundary.  A full and an empty ring have     *)
(* equal pointers and only fill_cnt tells them apart.                        *)
PointersAgree == p_w = Wrap(p_r + fill_cnt)

(* The unread bytes, in the order RINGBUF_Get will deliver them.             *)
Content == [i \in 1 .. fill_cnt |-> buf[Wrap(p_r + i - 1)]]

Fifo == INSTANCE BoundedFifo WITH fifo <- Content

(* Every call sequence behaves as a bounded first-in-first-out queue: a byte *)
(* put is got once, in order and unchanged, a full ring refuses and keeps    *)
(* what it holds (RINGBUF_Put and RINGBUF_Get against BoundedFifo).          *)
RingIsFifo == Fifo!FifoSpec
=============================================================================
