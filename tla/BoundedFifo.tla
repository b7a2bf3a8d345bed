---------------------------- MODULE BoundedFifo ----------------------------
(* What src/apps/mqtt/ringbuf.h promises its callers: a first-in-first-out   *)
(* queue of at most Size bytes whose two operations report success with 0    *)
(* and refusal with -1.  RingBuf implements it; ProtoQueue is built on it.   *)
EXTENDS Integers, Sequences

CONSTANTS Size,   \* capacity in bytes, `size` of RINGBUF_Init
          Byte    \* the values a slot can hold

VARIABLES fifo,   \* the bytes put and not yet got, oldest first
          c,      \* the byte the last successful Get handed out
          rc      \* what the last operation returned

fifoVars == <<fifo, c, rc>>

FifoTypeOK == /\ fifo \in Seq(Byte)
              /\ Len(fifo) <= Size
              /\ c \in Byte
              /\ rc \in {0, -1}

FifoInit == fifo = <<>> /\ c \in Byte /\ rc = 0

Put(b) == \/ /\ Len(fifo) >= Size
             /\ rc' = -1
             /\ UNCHANGED <<fifo, c>>
          \/ /\ Len(fifo) < Size
             /\ fifo' = Append(fifo, b)
             /\ rc' = 0
             /\ UNCHANGED c

Get == \/ /\ fifo = <<>>
          /\ rc' = -1
          /\ UNCHANGED <<fifo, c>>
       \/ /\ fifo # <<>>
          /\ c' = Head(fifo)
          /\ fifo' = Tail(fifo)
          /\ rc' = 0

FifoNext == Get \/ \E b \in Byte : Put(b)

FifoSpec == FifoInit /\ [][FifoNext]_fifoVars
=============================================================================
