------------------------------ MODULE MsgQueue ------------------------------
(* What queue.h promises the MQTT client: a queue of whole messages.  A      *)
(* message is refused, or appended whole; the oldest ones may be dropped to  *)
(* make room; what is taken is the oldest message, unchanged.                *)
EXTENDS Sequences

CONSTANT Messages

VARIABLES queued,   \* the messages accepted and neither taken nor dropped
          got       \* the message the last successful Take handed out, <<>> at first

queueVars == <<queued, got>>

QInit == queued = <<>> /\ got = <<>>

Accept(m) == queued' = Append(queued, m) /\ UNCHANGED got

DropOldest == queued # <<>> /\ queued' = Tail(queued) /\ UNCHANGED got

Take == /\ queued # <<>>
        /\ got' = <<Head(queued)>>
        /\ queued' = Tail(queued)

QNext == Take \/ DropOldest \/ \E m \in Messages : Accept(m)

QSpec == QInit /\ [][QNext]_queueVars
=============================================================================
