---------------------------- MODULE Inputs_proofs ----------------------------
(* Inputs for any number of keys, any characters, buffer and event queue,    *)
(* with an inductive invariant for each of its halves, which share no state. *)
(* IInv: however its interrupt and its timers race, the driver of key.c      *)
(* waits for the right edge of every key. UartInv: where the last lines of   *)
(* examples/uart are in the buffer that the interrupt fills and the task     *)
(* prints.                                                                   *)
EXTENDS Inputs, TLAPS

(* What is under way for a key says which edge it waits for, and none only   *)
(* between the rising edge and the end of key_50ms_cb.                       *)
Waits(k) ==
  /\ edge[k] = "none" <=> k \in key_50ms \/ callback.key = k
  /\ k \in key_50ms => callback.key # k
  /\ edge[k] = "none" => key_level[k] = "low" /\ k \notin status
  /\ edge[k] # "none" =>
       edge[k] = IF key_level[k] = "high" THEN "falling" ELSE "rising"

(* A key that is watched is what it is taken for; from the falling edge to   *)
(* its handler, and from the read to the end of key_50ms_cb, "missed" tells  *)
(* whether it still is.                                                      *)
Watched(k) ==
  /\ Settled(k) /\ k \notin missed => key_level[k] = pin[k]
  /\ k \in status /\ key_level[k] = "high" => (k \in missed <=> pin[k] = "high")
  /\ callback.key = k => (k \in missed <=> pin[k] # callback.read)

(* The long-press timer runs only while a press lasts that was not reported. *)
Reports(k) ==
  /\ k \in key_5s => key_level[k] = "low" /\ k \notin long
  /\ k \in long => key_level[k] = "low"

IInv == /\ KeyTypeOK
        /\ callback.key = NoKey => callback = NoCallback
        /\ \A k \in Keys : Waits(k) /\ Watched(k) /\ Reports(k)

(* key_init arms every falling edge, and takes a pin that is down for a      *)
(* change it missed.                                                         *)
LEMMA InitHolds == Init => IInv
<1> SUFFICES ASSUME Init PROVE IInv
  OBVIOUS
<1>1. KeyTypeOK /\ callback = NoCallback
  BY DEF Init, key_init, KeyTypeOK, NoCallback
<1>2. ASSUME NEW k \in Keys PROVE Waits(k) /\ Watched(k) /\ Reports(k)
  BY <1>1, NoKeyAssumption
  DEF Init, key_init, KeyTypeOK, NoCallback, Waits, Watched, Reports, Settled
<1> QED
  BY <1>1, <1>2 DEF IInv

(* A pin that changes is noticed, or the key counts as missed.               *)
LEMMA PinChangesKeeps == ASSUME IInv, NEW k \in Keys, PinChanges(k) PROVE IInv'
<1>1. KeyTypeOK' /\ (callback.key = NoKey => callback = NoCallback)'
  BY DEF IInv, KeyTypeOK, PinChanges
<1>2. ASSUME NEW j \in Keys PROVE (Waits(j) /\ Watched(j) /\ Reports(j))'
  <2>1. Waits(j) /\ Watched(j) /\ Reports(j) /\ Waits(k) /\ Watched(k)
    BY DEF IInv
  <2>2. Waits(j)'
    BY <2>1 DEF IInv, KeyTypeOK, PinChanges, Waits
  <2>3. Watched(j)'
    BY <2>1 DEF IInv, KeyTypeOK, PinChanges, Waits, Watched, Settled, Unwatched
  <2>4. Reports(j)'
    BY <2>1 DEF PinChanges, Reports
  <2> QED
    BY <2>2, <2>3, <2>4
<1> QED
  BY <1>1, <1>2 DEF IInv

(* The handler arms the other edge at a press, the debounce timer at a       *)
(* release.                                                                  *)
LEMMA HandlerKeeps == ASSUME IInv, NEW k \in Keys, key_intr_handler(k) PROVE IInv'
<1>1. KeyTypeOK' /\ (callback.key = NoKey => callback = NoCallback)'
  BY DEF IInv, KeyTypeOK, key_intr_handler
<1>2. ASSUME NEW j \in Keys PROVE (Waits(j) /\ Watched(j) /\ Reports(j))'
  <2>1. Waits(j) /\ Watched(j) /\ Reports(j) /\ Waits(k) /\ Watched(k)
    BY DEF IInv
  <2>2. Waits(j)'
    BY <2>1 DEF IInv, KeyTypeOK, key_intr_handler, Waits
  <2>3. Watched(j)'
    BY <2>1 DEF IInv, KeyTypeOK, key_intr_handler, Waits, Watched, Settled
  <2>4. Reports(j)'
    BY <2>1 DEF IInv, KeyTypeOK, key_intr_handler, Reports
  <2> QED
    BY <2>2, <2>3, <2>4
<1> QED
  BY <1>1, <1>2 DEF IInv

(* A long press is reported once: the timer is not armed again before the    *)
(* key was up.                                                               *)
LEMMA LongPressKeeps == ASSUME IInv, NEW k \in Keys, key_5s_cb(k) PROVE IInv'
<1>1. KeyTypeOK' /\ (callback.key = NoKey => callback = NoCallback)'
  BY DEF IInv, KeyTypeOK, key_5s_cb
<1>2. ASSUME NEW j \in Keys PROVE (Waits(j) /\ Watched(j) /\ Reports(j))'
  <2>1. Waits(j) /\ Watched(j) /\ Reports(j)
    BY DEF IInv
  <2>2. Waits(j)' /\ Watched(j)'
    BY <2>1 DEF key_5s_cb, Waits, Watched, Settled
  <2>3. Reports(j)'
    BY <2>1 DEF key_5s_cb, Reports
  <2> QED
    BY <2>2, <2>3
<1> QED
  BY <1>1, <1>2 DEF IInv

(* The first half of key_50ms_cb: from the read on a change is missed.       *)
LEMMA ReadsPinKeeps == ASSUME IInv, NEW k \in Keys, ReadsPin(k) PROVE IInv'
<1>1. KeyTypeOK' /\ (callback.key = NoKey => callback = NoCallback)'
  BY NoKeyAssumption DEF IInv, KeyTypeOK, ReadsPin
<1>2. ASSUME NEW j \in Keys PROVE (Waits(j) /\ Watched(j) /\ Reports(j))'
  <2>1. Waits(j) /\ Watched(j) /\ Reports(j) /\ callback.key # j
    BY NoKeyAssumption DEF IInv, ReadsPin, NoCallback
  <2>2. Waits(j)'
    BY <2>1 DEF ReadsPin, Waits
  <2>3. Watched(j)'
    BY <2>1 DEF IInv, KeyTypeOK, ReadsPin, Watched, Settled, Waits
  <2>4. Reports(j)'
    BY <2>1 DEF ReadsPin, Reports
  <2> QED
    BY <2>2, <2>3, <2>4
<1> QED
  BY <1>1, <1>2 DEF IInv

(* The second half arms the edge that ends what was read.                    *)
LEMMA DebounceKeeps == IInv /\ key_50ms_cb => IInv'
<1> SUFFICES ASSUME IInv, key_50ms_cb PROVE IInv'
  OBVIOUS
<1>1. callback.key \in Keys /\ callback' = NoCallback
  BY DEF IInv, KeyTypeOK, key_50ms_cb
<1>2. KeyTypeOK' /\ (callback.key = NoKey => callback = NoCallback)'
  BY <1>1 DEF IInv, KeyTypeOK, key_50ms_cb, NoCallback
<1>3. ASSUME NEW j \in Keys PROVE (Waits(j) /\ Watched(j) /\ Reports(j))'
  <2>1. Waits(j) /\ Watched(j) /\ Reports(j) /\ callback'.key # j
    BY <1>1, NoKeyAssumption DEF IInv, NoCallback
  <2>2. Waits(j)'
    BY <1>1, <2>1 DEF IInv, KeyTypeOK, key_50ms_cb, Waits
  <2>3. Watched(j)'
    BY <1>1, <2>1 DEF IInv, KeyTypeOK, key_50ms_cb, Waits, Watched, Settled
  <2>4. Reports(j)'
    BY <1>1, <2>1 DEF IInv, KeyTypeOK, key_50ms_cb, Reports
  <2> QED
    BY <2>2, <2>3, <2>4
<1> QED
  BY <1>2, <1>3 DEF IInv

(* Every step of the board keeps the invariant.                              *)
LEMMA StepKeeps == IInv /\ [Next]_vars => IInv'
<1> SUFFICES ASSUME IInv, [Next]_vars PROVE IInv'
  OBVIOUS
<1>1. CASE KeyStep
  BY <1>1, PinChangesKeeps, HandlerKeeps, LongPressKeeps, ReadsPinKeeps,
     DebounceKeeps DEF KeyStep
<1>2. CASE UNCHANGED keyVars
  BY <1>2 DEF keyVars, IInv, KeyTypeOK, Waits, Watched, Reports, Settled
<1> QED
  BY <1>1, <1>2 DEF Next, vars

(* For any number of keys and any traffic on the line, a settled key is      *)
(* waited for at the right edge, taken for what it is unless it changed      *)
(* unwatched, and reported as pressed long at most once (key.c).             *)
THEOREM KeysAreFollowed == Spec => []KeysFollowed
<1>1. IInv => KeysFollowed
  BY DEF IInv, KeysFollowed, Waits, Watched, Reports, Settled
<1> QED
  BY InitHolds, StepKeeps, <1>1, PTL DEF Spec
-------------------------------------------------------------------------------
(* The line that comes in is where the handler put it, from the start of the *)
(* buffer on, until it no longer fits.                                       *)
LineStored ==
  line # Unknown =>
    /\ line \in Seq(Chars)
    /\ Len(line) < BufSize =>
         /\ pWritePos = Len(line)
         /\ \A i \in 1 .. Len(line) : pRcvMsgBuff[i - 1] = line[i]

(* The last line is in the buffer, ended, until the next one begins.         *)
LastStored ==
  last # Unknown =>
    /\ phase = "run" /\ last \in Seq(Chars) /\ Len(last) < BufSize
    /\ line = <<>> => /\ \A i \in 1 .. Len(last) : pRcvMsgBuff[i - 1] = last[i]
                      /\ pRcvMsgBuff[Len(last)] = Nul

(* The task that runs for the last event prints the last line.               *)
LastPrinted ==
  posts = 0 /\ line = <<>> /\ last # Unknown =>
    IF reading = -1 THEN shown = last
    ELSE reading <= Len(last) /\ shown = SubSeq(last, 1, reading)

(* The characters shown are those before the one the task prints next.       *)
ShownTypes == shown \in Seq(Chars) /\ (reading # -1 => Len(shown) = reading)

UartInv == /\ UartTypeOK /\ ShownTypes
           /\ LineStored /\ LastStored /\ LastPrinted

(* Wherever the boot ROM leaves the position, no line came yet.              *)
LEMMA UartInitHolds == Init => UartInv
  BY UartAssumption DEF Init, UartInit, UartInv, UartTypeOK, ShownTypes, LineStored, LastStored,
     LastPrinted, Unknown

(* What one character does to the buffer, the position and the line.         *)
LEMMA CharacterKept ==
  ASSUME UartInv, NEW c \in Chars, uart0_rx_intr_handler(c)
  PROVE  UartInv'
<1>1. c # NewLine /\ c # Nul
  BY UartAssumption
<1>2. /\ pRcvMsgBuff' = [pRcvMsgBuff EXCEPT ![pWritePos] = c]
      /\ pWritePos' = (pWritePos + 1) % BufSize
      /\ line' = IF line = Unknown THEN line ELSE Append(line, c)
      /\ Len(line') <= LineBound
      /\ UNCHANGED <<posts, phase, reading, shown, last>>
  BY <1>1 DEF uart0_rx_intr_handler, Stores, Heard
<1>3. UartTypeOK' /\ ShownTypes'
  BY <1>2, UartAssumption DEF UartInv, UartTypeOK, ShownTypes
<1>4. line' # <<>>
  <2>1. Unknown # <<>>
    BY DEF Unknown
  <2>2. ASSUME line \in Seq(Chars) PROVE Append(line, c) # <<>>
    <3>1. Len(Append(line, c)) = Len(line) + 1 /\ Len(line) \in Nat /\ Len(<<>>) = 0
      BY <2>2
    <3> QED
      BY <3>1
  <2>3. line # Unknown => line \in Seq(Chars)
    BY DEF UartInv, LineStored
  <2> QED
    BY <1>2, <2>1, <2>2, <2>3
<1>5. LineStored'
  <2> SUFFICES ASSUME line' # Unknown PROVE LineStored'
    BY DEF LineStored
  <2>1. line # Unknown /\ line' = Append(line, c) /\ line \in Seq(Chars)
    BY <1>2 DEF UartInv, LineStored
  <2>2. line' \in Seq(Chars) /\ Len(line') = Len(line) + 1 /\ Len(line) \in Nat
    BY <2>1
  <2>3. ASSUME Len(line') < BufSize
        PROVE  /\ pWritePos = Len(line) /\ pWritePos' = Len(line')
               /\ \A i \in 1 .. Len(line) : pRcvMsgBuff[i - 1] = line[i]
    <3>1. /\ pWritePos = Len(line)
          /\ \A i \in 1 .. Len(line) : pRcvMsgBuff[i - 1] = line[i]
      BY <2>1, <2>2, <2>3, UartAssumption DEF UartInv, LineStored
    <3>2. (Len(line) + 1) % BufSize = Len(line) + 1
      BY <2>2, <2>3, UartAssumption
    <3> QED
      BY <1>2, <2>2, <3>1, <3>2
  <2>4. ASSUME Len(line') < BufSize, NEW i \in 1 .. Len(line')
        PROVE  pRcvMsgBuff'[i - 1] = line'[i]
    <3>1. pWritePos = Len(line)
      BY <2>3, <2>4
    <3>2. i <= Len(line) => line'[i] = line[i] /\ pRcvMsgBuff[i - 1] = line[i]
      BY <2>1, <2>2, <2>3, <2>4
    <3>3. i = Len(line) + 1 => line'[i] = c
      BY <2>1, <2>2
    <3> QED
      BY <1>2, <2>2, <2>4, <3>1, <3>2, <3>3, UartAssumption DEF UartInv, UartTypeOK, ShownTypes
  <2> QED
    BY <2>2, <2>3, <2>4 DEF LineStored
<1>6. LastStored' /\ LastPrinted'
  BY <1>2, <1>4 DEF UartInv, LastStored, LastPrinted
<1> QED
  BY <1>3, <1>5, <1>6 DEF UartInv

(* The end of a line ends the text behind it, and posts its event if the     *)
(* task exists: then some event is waiting, even when this one did not fit.  *)
LEMMA NewLineKept ==
  ASSUME UartInv, uart0_rx_intr_handler(NewLine)
  PROVE  UartInv'
<1>1. /\ pRcvMsgBuff' = [pRcvMsgBuff EXCEPT ![pWritePos] = Nul]
      /\ pWritePos' = 0 /\ line' = <<>>
      /\ posts' = IF phase = "run" /\ posts < QueueLen THEN posts + 1 ELSE posts
      /\ last' = IF phase = "run" /\ Len(line) < BufSize THEN line ELSE Unknown
      /\ UNCHANGED <<phase, reading, shown>>
  BY DEF uart0_rx_intr_handler, Stores, Heard
<1>2. UartTypeOK' /\ ShownTypes'
  BY <1>1, UartAssumption DEF UartInv, UartTypeOK, ShownTypes
<1>3. LineStored'
  BY <1>1, UartAssumption DEF LineStored
<1>4. LastStored'
  <2> SUFFICES ASSUME last' # Unknown PROVE LastStored'
    BY DEF LastStored
  <2>1. phase = "run" /\ last' = line /\ line # Unknown /\ Len(line) < BufSize
    BY <1>1
  <2>2. line \in Seq(Chars) /\ pWritePos = Len(line)
    BY <2>1, UartAssumption DEF UartInv, LineStored
  <2>3. \A i \in 1 .. Len(line) : pRcvMsgBuff'[i - 1] = line[i]
    BY <1>1, <2>1, <2>2, UartAssumption DEF UartInv, UartTypeOK, ShownTypes, LineStored
  <2>4. pRcvMsgBuff'[Len(line)] = Nul
    BY <1>1, <2>1, <2>2, UartAssumption DEF UartInv, UartTypeOK, ShownTypes
  <2> QED
    BY <1>1, <2>1, <2>2, <2>3, <2>4 DEF LastStored
<1>5. LastPrinted'
  <2>1. last' # Unknown => posts' # 0
    BY <1>1, UartAssumption DEF UartInv, UartTypeOK, ShownTypes
  <2> QED
    BY <2>1 DEF LastPrinted
<1> QED
  BY <1>2, <1>3, <1>4, <1>5 DEF UartInv

(* While no new line comes in, the task finds the last one in the buffer.    *)
LEMMA PrintKept == ASSUME UartInv, os_printf PROVE UartInv'
<1>1. LineStored' /\ LastStored'
  BY DEF UartInv, LineStored, LastStored, os_printf
<1>2. reading \in 0 .. BufSize - 1 /\ pRcvMsgBuff[reading] \in Chars \cup {Nul}
  BY UartAssumption DEF UartInv, UartTypeOK, ShownTypes, os_printf
<1>3. UartTypeOK' /\ ShownTypes'
  <2>1. CASE pRcvMsgBuff[reading] = Nul
    BY <1>2, <2>1, UartAssumption DEF UartInv, UartTypeOK, ShownTypes, os_printf
  <2>2. CASE pRcvMsgBuff[reading] # Nul
    <3>1. pRcvMsgBuff[reading] \in Chars /\ shown \in Seq(Chars)
          /\ Len(shown) = reading /\ shown' = Append(shown, pRcvMsgBuff[reading])
      BY <1>2, <2>2 DEF UartInv, ShownTypes, os_printf
    <3>2. shown' \in Seq(Chars) /\ Len(shown') = reading + 1
      BY <3>1
    <3> QED
      BY <1>2, <2>2, <3>2, UartAssumption
      DEF UartInv, UartTypeOK, ShownTypes, os_printf
  <2> QED
    BY <2>1, <2>2
<1>4. LastPrinted'
  <2> SUFFICES ASSUME posts = 0, line = <<>>, last # Unknown PROVE LastPrinted'
    BY DEF LastPrinted, os_printf
  <2>1. /\ last \in Seq(Chars) /\ Len(last) < BufSize
        /\ \A i \in 1 .. Len(last) : pRcvMsgBuff[i - 1] = last[i]
        /\ pRcvMsgBuff[Len(last)] = Nul
    BY DEF UartInv, LastStored
  <2>2. reading \in 0 .. Len(last) /\ shown = SubSeq(last, 1, reading)
    BY <1>2, <2>1 DEF UartInv, LastPrinted
  <2>3. CASE reading = Len(last)
    <3>1. reading' = -1 /\ shown' = last
      BY <2>1, <2>2, <2>3 DEF os_printf
    <3> QED
      BY <3>1 DEF LastPrinted, os_printf
  <2>4. CASE reading < Len(last)
    <3>1. reading + 1 \in 1 .. Len(last)
      BY <2>1, <2>2, <2>4
    <3>2. pRcvMsgBuff[reading] = last[reading + 1] /\ last[reading + 1] \in Chars
      <4>1. pRcvMsgBuff[(reading + 1) - 1] = last[reading + 1]
        BY <2>1, <3>1
      <4> QED
        BY <2>1, <2>2, <3>1, <4>1
    <3>3. reading' = reading + 1 /\ shown' = Append(shown, last[reading + 1])
      BY <2>1, <2>2, <2>4, <3>2, UartAssumption DEF os_printf
    <3>4. shown' = SubSeq(last, 1, reading')
      BY <2>1, <2>2, <3>1, <3>3
    <3> QED
      BY <2>2, <3>1, <3>3, <3>4 DEF LastPrinted, os_printf
  <2> QED
    BY <2>1, <2>2, <2>3, <2>4
<1> QED
  BY <1>1, <1>3, <1>4 DEF UartInv

(* What user_init does while lines already come in, and the task's start.    *)
LEMMA UartTaskKept ==
  ASSUME UartInv, ResetsPosition \/ system_os_task \/ cmd_recvTask
  PROVE  UartInv'
<1>1. CASE ResetsPosition
  BY <1>1, UartAssumption
  DEF UartInv, UartTypeOK, ShownTypes, LineStored, LastStored, LastPrinted, ResetsPosition,
      Unknown
<1>2. CASE system_os_task
  BY <1>2
  DEF UartInv, UartTypeOK, ShownTypes, LineStored, LastStored, LastPrinted, system_os_task
<1>3. CASE cmd_recvTask
  <2>1. UartTypeOK' /\ ShownTypes' /\ LineStored' /\ LastStored'
    BY <1>3, UartAssumption
    DEF UartInv, UartTypeOK, ShownTypes, LineStored, LastStored, cmd_recvTask
  <2>2. last # Unknown => 0 <= Len(last) /\ SubSeq(last, 1, 0) = <<>>
    BY DEF UartInv, LastStored
  <2>3. LastPrinted'
    BY <1>3, <2>2 DEF LastPrinted, cmd_recvTask
  <2> QED
    BY <2>1, <2>3 DEF UartInv
<1> QED
  BY <1>1, <1>2, <1>3

(* Every character, event and start-up step keeps the buffer right.          *)
LEMMA UartStepKeeps == UartInv /\ [Next]_vars => UartInv'
<1> SUFFICES ASSUME UartInv, [Next]_vars PROVE UartInv'
  OBVIOUS
<1>1. CASE UartStep
  BY <1>1, CharacterKept, NewLineKept, UartTaskKept, PrintKept DEF UartStep
<1>2. CASE UNCHANGED uartVars
  BY <1>2 DEF uartVars, UartInv, UartTypeOK, ShownTypes, LineStored, LastStored, LastPrinted
<1> QED
  BY <1>1, <1>2 DEF Next, vars

(* For lines of any characters and any length, a buffer and an event queue   *)
(* of any size, and however the interrupt preempts the task: when the end of *)
(* a line was the last to come and the task is done, it has printed that     *)
(* line as it came, if the buffer held it (uart0_rx_intr_handler,            *)
(* cmd_recvTask).                                                            *)
THEOREM LastLineIsShown == Spec => []LastLineShown
<1>1. UartInv => LastLineShown
  BY DEF UartInv, LastLineShown, LastPrinted
<1> QED
  BY UartInitHolds, UartStepKeeps, <1>1, PTL DEF Spec
=============================================================================
