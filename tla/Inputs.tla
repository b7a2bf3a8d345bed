------------------------------- MODULE Inputs -------------------------------
(* A board with keys and a serial line: timer callbacks and tasks run one at *)
(* a time, the interrupts of both drivers preempt them.                      *)
EXTENDS Key, Uart

vars == <<keyVars, uartVars>>

Init == key_init /\ UartInit

KeyStep == \/ \E k \in Keys : PinChanges(k) \/ key_intr_handler(k)
           \/ /\ reading = -1
              /\ \E k \in Keys : key_5s_cb(k) \/ ReadsPin(k)
           \/ key_50ms_cb

UartStep == \/ \E c \in Chars \cup {NewLine} : uart0_rx_intr_handler(c)
            \/ ResetsPosition \/ system_os_task
            \/ callback = NoCallback /\ cmd_recvTask
            \/ os_printf

Next == \/ KeyStep /\ UNCHANGED uartVars
        \/ UartStep /\ UNCHANGED keyVars

Spec == Init /\ [][Next]_vars
=============================================================================
