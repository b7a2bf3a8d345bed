-------------------------------- MODULE Uart --------------------------------
(* The line receiver of src/examples/uart (user/uart.c, user/uart-test.c):   *)
(* an interrupt handler puts what came in into the one buffer of UartDev and *)
(* posts a task at every end of line, the task prints the buffer.  The       *)
(* handler preempts the task between any two characters it prints.           *)
EXTENDS Integers, Sequences

CONSTANTS Chars,       \* characters of a line
          BufSize,     \* RX_BUFF_SIZE
          QueueLen,    \* CMD_RECVTASKQUEUELEN
          LineBound    \* bound: characters of a line

Nul == "nul"
NewLine == "newline"
Unknown == <<Nul>>     \* a line that is not received in whole

ASSUME UartAssumption ==
         /\ BufSize \in Nat \ {0} /\ QueueLen \in Nat \ {0}
         /\ LineBound \in Nat \ {0} /\ Nul \notin Chars /\ NewLine \notin Chars

VARIABLES pRcvMsgBuff, \* the buffer
          pWritePos,   \* where the next character goes
          posts,       \* events in cmd_recvTaskQueue
          phase,       \* how far user_init is: "init", "wait", then "run"
          reading,     \* the character os_printf prints next, -1 when it does not
          shown,       \* what it printed, of the last event
          line,        \* history: the line that is coming in
          last         \* history: the last line that came in whole

uartVars == <<pRcvMsgBuff, pWritePos, posts, phase, reading, shown, line, last>>

(* The boot ROM leaves the write position anywhere.                          *)
UartInit == /\ pRcvMsgBuff = [i \in 0 .. BufSize - 1 |-> Nul]
            /\ pWritePos \in 0 .. BufSize - 1
            /\ posts = 0 /\ phase = "init" /\ reading = -1
            /\ shown = <<>> /\ line = Unknown /\ last = Unknown

(* Wrong variant: the write position stays behind the line.                  *)
StoresBehind(r, c) ==
  IF c = NewLine
  THEN [r EXCEPT !.buf[r.pos] = Nul, !.pos = (r.pos + 1) % BufSize,
                 !.posts = IF phase = "run" /\ @ < QueueLen THEN @ + 1 ELSE @]
  ELSE [r EXCEPT !.buf[r.pos] = c, !.pos = (@ + 1) % BufSize]

(* One character: the end of a line ends the text, posts the task, which may *)
(* fail, and starts the next line where this one started; a full buffer is   *)
(* started again.                                                            *)
Stores(r, c) ==
  IF c = NewLine
  THEN [r EXCEPT !.buf[r.pos] = Nul, !.pos = 0,
                 !.posts = IF phase = "run" /\ @ < QueueLen THEN @ + 1 ELSE @]
  ELSE [r EXCEPT !.buf[r.pos] = c, !.pos = (@ + 1) % BufSize]

(* What the lines were, beside the code: those that end before the task      *)
(* exists, or do not fit, count as unknown.                                  *)
Heard(h, c) ==
  IF c = NewLine
  THEN [line |-> <<>>, last |-> IF phase = "run" /\ Len(h.line) < BufSize
                                THEN h.line ELSE Unknown]
  ELSE [h EXCEPT !.line = IF @ = Unknown THEN @ ELSE Append(@, c)]

(* One character out of the hardware's fifo.  The handler takes all it finds *)
(* there in one run: several of these steps with none of the task's between. *)
uart0_rx_intr_handler(c) ==
  LET r == Stores([buf |-> pRcvMsgBuff, pos |-> pWritePos, posts |-> posts], c)
      h == Heard([line |-> line, last |-> last], c)
  IN  /\ Len(h.line) <= LineBound
      /\ pRcvMsgBuff' = r.buf /\ pWritePos' = r.pos /\ posts' = r.posts
      /\ line' = h.line /\ last' = h.last
      /\ UNCHANGED <<phase, reading, shown>>

(* user_init sets the write position when the handler already runs, and the  *)
(* task a second later.                                                      *)
ResetsPosition ==
  /\ phase = "init" /\ phase' = "wait" /\ pWritePos' = 0
  /\ line' = IF line = <<>> THEN line ELSE Unknown
  /\ UNCHANGED <<pRcvMsgBuff, posts, reading, shown, last>>

system_os_task == /\ phase = "wait" /\ phase' = "run"
                  /\ UNCHANGED <<pRcvMsgBuff, pWritePos, posts, reading, shown, line, last>>

cmd_recvTask == /\ posts > 0 /\ reading = -1
                /\ posts' = posts - 1 /\ reading' = 0 /\ shown' = <<>>
                /\ UNCHANGED <<pRcvMsgBuff, pWritePos, phase, line, last>>

(* os_printf prints up to the end of the text, or beyond the buffer, which   *)
(* counts as its end.                                                        *)
os_printf ==
  /\ reading >= 0
  /\ IF pRcvMsgBuff[reading] = Nul
     THEN reading' = -1 /\ UNCHANGED shown
     ELSE /\ shown' = Append(shown, pRcvMsgBuff[reading])
          /\ reading' = IF reading = BufSize - 1 THEN -1 ELSE reading + 1
  /\ UNCHANGED <<pRcvMsgBuff, pWritePos, posts, phase, line, last>>
----------------------------------------------------------------------------
UartTypeOK ==
  /\ pRcvMsgBuff \in [0 .. BufSize - 1 -> Chars \cup {Nul}]
  /\ pWritePos \in 0 .. BufSize - 1 /\ posts \in 0 .. QueueLen
  /\ phase \in {"init", "wait", "run"} /\ reading \in -1 .. BufSize - 1
  /\ Len(shown) <= BufSize /\ Len(line) <= LineBound

(* Lines that come faster than they are printed overwrite each other, their  *)
(* events may not fit the queue, and a print may be of two lines; but when   *)
(* the line's end was the last that came and the task is done, it has        *)
(* printed that line as it was, if the buffer held it                        *)
(* (uart0_rx_intr_handler, cmd_recvTask).                                    *)
LastLineShown ==
  /\ UartTypeOK
  /\ posts = 0 /\ reading = -1 /\ line = <<>> /\ last # Unknown => shown = last
=============================================================================
