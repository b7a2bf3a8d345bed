-------------------------------- MODULE Key ---------------------------------
(* The key driver of src/dev/driver/key.c: a key pulls its pin down while it *)
(* is pressed.  The driver waits for the falling edge, then for the rising   *)
(* one, which it believes after 50 ms, and reports a short press when the    *)
(* key is up again and a long one when it is down after five seconds.        *)
(*                                                                           *)
(* The pin may change at any time, the interrupt handler preempts the timer  *)
(* callbacks, and a timer may run out at any time after it was armed.  The   *)
(* handler serves one key per step; nothing it does depends on the others.   *)
EXTENDS FiniteSets

CONSTANTS Keys, NoKey

ASSUME NoKeyAssumption == NoKey \notin Keys

VARIABLES pin,       \* the level at each key's pin, "high" when it is up
          edge,      \* the edge each pin's interrupt waits for, or "none"
          status,    \* GPIO_STATUS: the pins whose edge came
          key_level, \* what the driver takes the key for
          key_5s,    \* keys whose long-press timer is armed
          key_50ms,  \* keys whose debounce timer is armed
          callback,  \* the key whose key_50ms_cb has read its pin, and the level
          missed,    \* history: keys that changed while nobody would notice
          long       \* history: keys with a long press since the last short one

keyVars == <<pin, edge, status, key_level, key_5s, key_50ms, callback, missed, long>>

NoCallback == [key |-> NoKey, read |-> "high"]

(* key_init takes every key to be up, without a look at its pin.             *)
key_init ==
  /\ pin \in [Keys -> {"high", "low"}]
  /\ edge = [k \in Keys |-> "falling"] /\ status = {}
  /\ key_level = [k \in Keys |-> "high"]
  /\ key_5s = {} /\ key_50ms = {} /\ callback = NoCallback
  /\ missed = {k \in Keys : pin[k] = "low"} /\ long = {}

(* A press is noticed when its interrupt is served, and what the key did     *)
(* since the edge is not looked at; nor is a change between the read of      *)
(* key_50ms_cb and its arming of the next edge.                              *)
Unwatched(k) == (k \in status /\ key_level[k] = "high") \/ callback.key = k

PinChanges(k) ==
  LET level == IF pin[k] = "high" THEN "low" ELSE "high"
      noticed == edge[k] = IF level = "low" THEN "falling" ELSE "rising"
      toggled == IF k \in missed THEN missed \ {k} ELSE missed \cup {k}
  IN  /\ pin' = [pin EXCEPT ![k] = level]
      /\ status' = IF noticed THEN status \cup {k} ELSE status
      /\ missed' = IF Unwatched(k) THEN toggled
                   ELSE IF noticed /\ k \notin status THEN missed \ {k} ELSE missed
      /\ UNCHANGED <<edge, key_level, key_5s, key_50ms, callback, long>>

key_intr_handler(k) ==
  /\ k \in status /\ status' = status \ {k}
  /\ IF key_level[k] = "high"
     THEN /\ key_5s' = key_5s \cup {k}
          /\ key_level' = [key_level EXCEPT ![k] = "low"]
          /\ edge' = [edge EXCEPT ![k] = "rising"]
          /\ UNCHANGED key_50ms
     ELSE /\ key_50ms' = key_50ms \cup {k}
          /\ edge' = [edge EXCEPT ![k] = "none"]
          /\ UNCHANGED <<key_5s, key_level>>
  /\ UNCHANGED <<pin, callback, missed, long>>

key_5s_cb(k) ==
  /\ callback = NoCallback
  /\ k \in key_5s /\ key_5s' = key_5s \ {k}
  /\ long' = IF pin[k] = "low" THEN long \cup {k} ELSE long
  /\ UNCHANGED <<pin, edge, status, key_level, key_50ms, callback, missed>>

(* key_50ms_cb up to its reading of the pin ...                              *)
ReadsPin(k) ==
  /\ callback = NoCallback
  /\ k \in key_50ms /\ key_50ms' = key_50ms \ {k}
  /\ callback' = [key |-> k, read |-> pin[k]]
  /\ missed' = missed \ {k}
  /\ UNCHANGED <<pin, edge, status, key_level, key_5s, long>>

(* Wrong variant: a key that is still down is not waited for.                *)
ActsOnUp ==
  LET k == callback.key
  IN  /\ callback # NoCallback /\ callback' = NoCallback
      /\ IF callback.read = "high"
         THEN /\ key_5s' = key_5s \ {k} /\ long' = long \ {k}
              /\ key_level' = [key_level EXCEPT ![k] = "high"]
              /\ edge' = [edge EXCEPT ![k] = "falling"]
         ELSE UNCHANGED <<key_5s, long, key_level, edge>>
      /\ UNCHANGED <<pin, status, key_50ms, missed>>

(* ... and from it on, with the report of a short press.                     *)
key_50ms_cb ==
  LET k == callback.key
  IN  /\ callback # NoCallback /\ callback' = NoCallback
      /\ IF callback.read = "high"
         THEN /\ key_5s' = key_5s \ {k} /\ long' = long \ {k}
              /\ key_level' = [key_level EXCEPT ![k] = "high"]
              /\ edge' = [edge EXCEPT ![k] = "falling"]
         ELSE /\ edge' = [edge EXCEPT ![k] = "rising"]
              /\ UNCHANGED <<key_5s, long, key_level>>
      /\ UNCHANGED <<pin, status, key_50ms, missed>>
----------------------------------------------------------------------------
KeyTypeOK ==
  /\ pin \in [Keys -> {"high", "low"}] /\ key_level \in [Keys -> {"high", "low"}]
  /\ edge \in [Keys -> {"none", "falling", "rising"}]
  /\ status \subseteq Keys /\ key_5s \subseteq Keys /\ key_50ms \subseteq Keys
  /\ callback \in [key : Keys \cup {NoKey}, read : {"high", "low"}]
  /\ missed \subseteq Keys /\ long \subseteq Keys

Settled(k) == k \notin status /\ k \notin key_50ms /\ callback.key # k

(* However the handler and the two timers race: a settled key is waited for  *)
(* at the edge that ends the state it is taken for, and unless it changed    *)
(* while it was not watched it is taken for what it is; and a press is       *)
(* reported as a long one once, for its timer runs only while it lasts       *)
(* (key_intr_handler, key_50ms_cb, key_5s_cb).                               *)
KeysFollowed ==
  /\ KeyTypeOK
  /\ \A k \in Keys :
       /\ Settled(k) => /\ edge[k] = IF key_level[k] = "high" THEN "falling" ELSE "rising"
                        /\ k \notin missed => key_level[k] = pin[k]
       /\ k \in key_5s => key_level[k] = "low" /\ k \notin long
=============================================================================
