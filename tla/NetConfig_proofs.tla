--------------------------- MODULE NetConfig_proofs ---------------------------
(* NetConfig for any number of telnet clients, any capacity of the transmit  *)
(* buffer and any number of events under way. Three inductive invariants.    *)
(* NetInv, for the timer, the protocols and the network, adds what the last  *)
(* event says about the station, and that config_status never hides running  *)
(* protocols from wifiConnectCb. ServerInv, for the replies of the telnet    *)
(* server, adds that a client that is alone is the only open connection.     *)
(* StatusTells, for the stop timer, says that config_status knows of a       *)
(* client that is alone.                                                     *)
EXTENDS NetConfig, SequenceTheorems, TLAPS

NetTypes == /\ connectTimer \in {"none", "check", "restart", "stop"}
            /\ station \in BOOLEAN /\ protocols \in BOOLEAN /\ online \in BOOLEAN
            /\ events \in Seq(Kinds)

(* A station that has had an address since boot has told so.                 *)
Heard == station /\ ~online => Coming(events)

(* The last event under way tells of the loss.                               *)
LossComing == ~station /\ events # <<>> => events[Len(events)] = "OTHER"

(* Running protocols are not hidden by the status.                           *)
StatusShows == protocols => config_status # "NOTHING"

NetInv == /\ NetTypes
          /\ TimerFollowsPhase
          /\ Heard
          /\ LossComing
          /\ StatusShows
          /\ ProtocolsFollowNetwork

(* An empty queue of events has nothing coming.                              *)
LEMMA NoEvents == <<>> \in Seq(Kinds) /\ ~Coming(<<>>) /\ 1 \notin DOMAIN <<>>
  BY DEF Coming

(* What an event at the end adds.                                            *)
LEMMA EventAdded ==
  ASSUME NEW s \in Seq(Kinds), NEW e \in Kinds
  PROVE  LET t == Append(s, e)
         IN  /\ t \in Seq(Kinds) /\ t # <<>> /\ t[Len(t)] = e
             /\ Coming(s) => Coming(t)
             /\ e = "GOT_IP" => Coming(t)
  BY DEF Coming

(* What is left when the first event is handled.                             *)
LEMMA EventTaken ==
  ASSUME NEW s \in Seq(Kinds), s # <<>>
  PROVE  /\ Tail(s) \in Seq(Kinds)
         /\ Tail(s) = <<>> => Head(s) = s[Len(s)]
         /\ Tail(s) # <<>> => Tail(s)[Len(Tail(s))] = s[Len(s)]
         /\ Coming(s) /\ Head(s) # "GOT_IP" => Coming(Tail(s))
<1>1. Tail(s) \in Seq(Kinds) /\ Len(Tail(s)) = Len(s) - 1 /\ Len(s) \in Nat \ {0}
  OBVIOUS
<1>2. \A i \in 1 .. Len(s) - 1 : Tail(s)[i] = s[i + 1]
  OBVIOUS
<1>3. Tail(s) = <<>> => Head(s) = s[Len(s)]
  <2>1. SUFFICES ASSUME Tail(s) = <<>> PROVE Head(s) = s[Len(s)]
    OBVIOUS
  <2>2. Len(s) \in 2 .. Len(s) => 1 \in DOMAIN Tail(s)
    BY <1>1
  <2>3. 1 \notin DOMAIN Tail(s)
    BY <2>1, NoEvents, Zenon
  <2>4. Len(s) = 1
    BY <1>1, <2>2, <2>3
  <2> QED BY <2>4
<1>4. Tail(s) # <<>> => Tail(s)[Len(Tail(s))] = s[Len(s)]
  <2>1. SUFFICES ASSUME Tail(s) # <<>> PROVE Tail(s)[Len(Tail(s))] = s[Len(s)]
    OBVIOUS
  <2>2. Len(s) - 1 \in 1 .. Len(s) - 1
    BY <1>1, <2>1
  <2> QED BY <1>1, <1>2, <2>2
<1>5. ASSUME Coming(s), Head(s) # "GOT_IP" PROVE Coming(Tail(s))
  <2>1. PICK i \in 1 .. Len(s) : s[i] = "GOT_IP"
    BY <1>5 DEF Coming
  <2>2. i # 1
    BY <1>5, <2>1
  <2>3. i - 1 \in 1 .. Len(s) - 1 /\ Tail(s)[i - 1] = s[i]
    BY <1>1, <1>2, <2>1, <2>2
  <2>4. i - 1 \in DOMAIN Tail(s)
    BY <1>1, <2>3
  <2>5. Tail(s)[i - 1] = "GOT_IP"
    BY <2>1, <2>3
  <2> QED BY <2>4, <2>5 DEF Coming
<1> QED BY <1>1, <1>3, <1>4, <1>5

(* user_init leaves the device looking for its network.                      *)
LEMMA NetInvInit == Init => NetInv
  BY NoEvents DEF Init, Boot, NetInv, NetTypes, TimerFollowsPhase, Heard,
     LossComing, StatusShows, ProtocolsFollowNetwork

(* What the telnet clients do leaves the network's state alone and never     *)
(* sets the status back to the one before Wi-Fi came up.                     *)
LEMMA ClientsKeepStatus ==
  ASSUME ClientConnects \/ ClientActs
  PROVE  /\ UNCHANGED <<connectTimer, station, events, protocols, online>>
         /\ config_status' = config_status \/ config_status' # "NOTHING"
<1>1. CASE ClientConnects
  BY <1>1 DEF ClientConnects, serverConnectCb
<1>2. CASE ClientActs
  BY <1>2 DEF ClientActs, ClientStep, serverSentCb, RecvPart, RecvLine,
     serverDisconCb, serverReconCb, netVars
<1> QED BY <1>1, <1>2

(* The station's changes and the events they cause.                          *)
LEMMA StationStep ==
  ASSUME NetInv, StationUp \/ StationDown \/ StationChanges
  PROVE  NetInv'
<1> USE DEF NetInv, NetTypes, TimerFollowsPhase, Heard, LossComing, StatusShows,
        ProtocolsFollowNetwork, serverVars
<1>1. CASE StationUp
  <2>1. /\ events' = Append(events, "GOT_IP") /\ station' = TRUE
        /\ UNCHANGED <<connectTimer, protocols, online, config_status>>
    BY <1>1 DEF StationUp, Event
  <2>2. events' \in Seq(Kinds) /\ Coming(events')
    BY <2>1, EventAdded DEF Kinds
  <2> QED BY <2>1, <2>2
<1>2. CASE StationDown
  <2>1. /\ events' = Append(events, "OTHER") /\ station' = FALSE
        /\ UNCHANGED <<connectTimer, protocols, online, config_status>>
    BY <1>2 DEF StationDown, Event
  <2>2. /\ events' \in Seq(Kinds) /\ events' # <<>>
        /\ events'[Len(events')] = "OTHER"
        /\ Coming(events) => Coming(events')
    BY <2>1, EventAdded DEF Kinds
  <2> QED BY <2>1, <2>2
<1>3. CASE StationChanges
  <2>1. /\ events' = Append(events, "OTHER")
        /\ UNCHANGED <<station, connectTimer, protocols, online, config_status>>
    BY <1>3 DEF StationChanges, Event
  <2>2. /\ events' \in Seq(Kinds) /\ events' # <<>>
        /\ events'[Len(events')] = "OTHER"
        /\ Coming(events) => Coming(events')
    BY <2>1, EventAdded DEF Kinds
  <2> QED BY <2>1, <2>2
<1> QED BY <1>1, <1>2, <1>3

(* wifiConnectCb takes one event.                                            *)
LEMMA WifiStep ==
  ASSUME NetInv, wifiConnectCb
  PROVE  NetInv'
<1> USE DEF NetInv, NetTypes, TimerFollowsPhase, Heard, LossComing, StatusShows,
        ProtocolsFollowNetwork
<1>1. /\ events # <<>> /\ events' = Tail(events)
      /\ UNCHANGED station
  BY DEF wifiConnectCb, GotIp, LostNetwork
<1>2. /\ events' \in Seq(Kinds)
      /\ events' = <<>> => Head(events) = events[Len(events)]
      /\ events' # <<>> => events'[Len(events')] = events[Len(events)]
      /\ Coming(events) /\ Head(events) # "GOT_IP" => Coming(events')
  BY <1>1, EventTaken
<1>3. LossComing'
  BY <1>1, <1>2
<1>4. CASE GotIp
  <2>1. /\ Head(events) = "GOT_IP" /\ connectTimer' = "stop"
        /\ protocols' = TRUE /\ online' = TRUE
        /\ config_status' = "WIFI_CONNECTED"
    BY <1>4 DEF GotIp, CFG_start_config
  <2> QED BY <1>1, <1>2, <1>3, <2>1
<1>5. CASE LostNetwork
  <2>1. /\ Head(events) = "OTHER" /\ UNCHANGED <<connectTimer, online>>
        /\ protocols' = FALSE
    BY <1>5 DEF LostNetwork
  <2> QED BY <1>1, <1>2, <1>3, <2>1
<1> QED BY <1>4, <1>5 DEF wifiConnectCb

(* The callbacks of the one timer.                                           *)
LEMMA TimerStep ==
  ASSUME NetInv, TimerFires
  PROVE  NetInv'
<1> USE DEF NetInv, NetTypes, TimerFollowsPhase, Heard, LossComing, StatusShows,
        ProtocolsFollowNetwork, serverVars
<1>1. CASE timer_check_connection
  BY <1>1 DEF timer_check_connection
<1>2. CASE restart_board_timer_cb
  BY <1>2, NoEvents DEF restart_board_timer_cb, Reboot
<1>3. CASE stop_telnet_server
  BY <1>3 DEF stop_telnet_server
<1> QED BY <1>1, <1>2, <1>3 DEF TimerFires

(* Telnet callbacks, smartconfig and restart.                                *)
LEMMA OtherStep ==
  ASSUME NetInv, \/ LinkFound \/ LinkOver \/ config_restart
                 \/ ClientConnects \/ ClientActs \/ UNCHANGED vars
  PROVE  NetInv'
<1> USE DEF NetInv, NetTypes, TimerFollowsPhase, Heard, LossComing, StatusShows,
        ProtocolsFollowNetwork
<1>1. CASE LinkFound \/ LinkOver
  BY <1>1 DEF LinkFound, LinkOver, serverVars
<1>2. CASE config_restart
  BY <1>2, NoEvents DEF config_restart, Reboot
<1>3. CASE ClientConnects \/ ClientActs
  BY <1>3, ClientsKeepStatus
<1>4. CASE UNCHANGED vars
  BY <1>4 DEF vars, netVars, serverVars
<1> QED BY <1>1, <1>2, <1>3, <1>4

(* Every callback keeps what is said of timer, status and events.            *)
LEMMA NetInvariant == Spec => []NetInv
<1>1. NetInv /\ [Next]_vars => NetInv'
  BY StationStep, WifiStep, TimerStep, OtherStep DEF Next
<1> QED BY NetInvInit, <1>1, PTL DEF Spec

(* Before the first address since boot the timer is armed to start           *)
(* smartconfig or to restart the board, or an address is on its way; after   *)
(* it the board is never restarted by the timer, although all purposes share *)
(* one os_timer (config.c).                                                  *)
THEOREM NetTimerFollowsPhase == Spec => []TimerFollowsPhase
<1>1. NetInv => TimerFollowsPhase
  BY DEF NetInv
<1> QED BY NetInvariant, <1>1, PTL

(* The protocols do not keep running on a network whose loss wifiConnectCb   *)
(* has handled, although the telnet callbacks write config_status too.       *)
THEOREM NetProtocolsFollow == Spec => []ProtocolsFollowNetwork
<1>1. NetInv => ProtocolsFollowNetwork
  BY DEF NetInv
<1> QED BY NetInvariant, <1>1, PTL
-------------------------------------------------------------------------------
(* The replies of the telnet server.  A client that is alone is the only one *)
(* linked; what was accepted for it is a run of numbers, split between wire  *)
(* and buffer; and readytosend counts its one outstanding packet.            *)
ServerTypes == /\ conn \in Clients \cup {NoClient}
               /\ linked \subseteq Clients
               /\ outstanding \in [Clients -> Nat]
               /\ readytosend \in BOOLEAN /\ shared \in BOOLEAN
               /\ said \in Nat
               /\ txbuffer \in Seq(Nat) /\ wire \in Seq(Nat)

AloneLinked == Alone => linked = {conn}

ReadyCounts == Alone /\ ~MaySendFail =>
                 outstanding[conn] = IF readytosend THEN 0 ELSE 1

ServerInv == ServerTypes /\ AloneLinked /\ ReadyCounts /\ RepliesInOrder

(* A run of numbers is a sequence.                                           *)
LEMMA NumberedSeq ==
  ASSUME NEW m \in Nat, NEW a \in Nat
  PROVE  /\ Numbered(m, a) \in Seq(Nat) /\ Len(Numbered(m, a)) = a
         /\ \A i \in 1 .. a : Numbered(m, a)[i] = m + i
  BY DEF Numbered

(* Sequences with the same items are the same.                               *)
LEMMA SameItems ==
  ASSUME NEW s \in Seq(Nat), NEW t \in Seq(Nat), NEW k,
         Len(s) = k, Len(t) = k, \A i \in 1 .. k : s[i] = t[i]
  PROVE  s = t
  BY SeqEqual

(* The items of a concatenation.                                            *)
LEMMA JoinedItems ==
  ASSUME NEW s \in Seq(Nat), NEW t \in Seq(Nat)
  PROVE  /\ s \o t \in Seq(Nat)
         /\ Len(s \o t) = Len(s) + Len(t)
         /\ \A i \in 1 .. Len(s) + Len(t) :
              (s \o t)[i] = IF i <= Len(s) THEN s[i] ELSE t[i - Len(s)]
  BY ConcatProperties, Zenon

(* Consecutive runs of piece numbers join to one.                            *)
LEMMA NumberedJoins ==
  ASSUME NEW m \in Nat, NEW a \in Nat
  PROVE  Numbered(0, m) \o Numbered(m, a) = Numbered(0, m + a)
<1> DEFINE s == Numbered(0, m)
<1> DEFINE t == Numbered(m, a)
<1> DEFINE u == Numbered(0, m + a)
<1>a. s \in Seq(Nat) /\ Len(s) = m /\ \A i \in 1 .. m : s[i] = 0 + i
  BY NumberedSeq
<1>b. t \in Seq(Nat) /\ Len(t) = a /\ \A i \in 1 .. a : t[i] = m + i
  BY NumberedSeq
<1>c. u \in Seq(Nat) /\ Len(u) = m + a /\ \A i \in 1 .. m + a : u[i] = 0 + i
  BY NumberedSeq
<1> HIDE DEF s, t, u
<1>1. /\ s \in Seq(Nat) /\ Len(s) = m /\ \A i \in 1 .. m : s[i] = i
      /\ t \in Seq(Nat) /\ Len(t) = a /\ \A i \in 1 .. a : t[i] = m + i
      /\ u \in Seq(Nat) /\ Len(u) = m + a /\ \A i \in 1 .. m + a : u[i] = i
  BY <1>a, <1>b, <1>c
<1>2. /\ s \o t \in Seq(Nat) /\ Len(s \o t) = m + a
      /\ \A i \in 1 .. m + a : (s \o t)[i] = IF i <= m THEN s[i] ELSE t[i - m]
  <2>1. s \in Seq(Nat) /\ t \in Seq(Nat)
    BY <1>1
  <2>2. /\ s \o t \in Seq(Nat)
        /\ Len(s \o t) = Len(s) + Len(t)
        /\ \A i \in 1 .. Len(s) + Len(t) :
             (s \o t)[i] = IF i <= Len(s) THEN s[i] ELSE t[i - Len(s)]
    BY <2>1, JoinedItems, Zenon
  <2> QED BY <1>1, <2>2
<1>3. ASSUME NEW i \in 1 .. m + a
      PROVE  (s \o t)[i] = u[i]
  <2>1. u[i] = i /\ (s \o t)[i] = IF i <= m THEN s[i] ELSE t[i - m]
    BY <1>1, <1>2
  <2>2. CASE i <= m
    <3>1. i \in 1 .. m
      BY <2>2
    <3>2. s[i] = i
      BY <1>1, <3>1
    <3> QED BY <2>1, <2>2, <3>2, Zenon
  <2>3. CASE ~(i <= m)
    <3>1. i - m \in 1 .. a /\ m + (i - m) = i
      BY <2>3
    <3>2. t[i - m] = i
      BY <1>1, <3>1
    <3> QED BY <2>1, <2>3, <3>2, Zenon
  <2> QED BY <2>2, <2>3
<1>4. s \o t = u
  <2>1. s \o t \in Seq(Nat) /\ u \in Seq(Nat) /\ Len(s \o t) = m + a /\ Len(u) = m + a
    BY <1>1, <1>2
  <2> QED BY <1>3, <2>1, SameItems, Zenon
<1> QED BY <1>4 DEF s, t, u

(* Concatenation is associative.                                             *)
LEMMA JoinedInAnyOrder ==
  \A s, t, u \in Seq(Nat) : (s \o t) \o u = s \o (t \o u)
  BY ConcatAssociative

(* The empty sequence and the empty counters have their types.               *)
LEMMA NoPieces == <<>> \in Seq(Nat) /\ Len(<<>>) = 0
  OBVIOUS

(* No client has anything outstanding at first.                              *)
LEMMA ZeroCounts == [c \in Clients |-> 0] \in [Clients -> Nat]
  OBVIOUS

(* The first of the new pieces leaves with what waited, the others wait.     *)
LEMMA FirstPieceLeaves ==
  ASSUME NEW w \in Seq(Nat), NEW b \in Seq(Nat), NEW n \in Seq(Nat), n # <<>>
  PROVE  (w \o Append(b, n[1])) \o Tail(n) = (w \o b) \o n
<1>1. Tail(n) \in Seq(Nat) /\ n[1] \in Nat /\ Len(n) \in Nat \ {0}
      /\ Len(Tail(n)) = Len(n) - 1 /\ \A i \in 1 .. Len(n) - 1 : Tail(n)[i] = n[i + 1]
  OBVIOUS
<1> DEFINE h == <<n[1]>>
<1>2. h \in Seq(Nat) /\ Len(h) = 1 /\ h[1] = n[1]
  BY <1>1
<1> HIDE DEF h
<1>3. Append(b, n[1]) = b \o h
  BY <1>1, AppendIsConcat DEF h
<1>4. h \o Tail(n) = n
  <2>1. /\ h \o Tail(n) \in Seq(Nat) /\ Len(h \o Tail(n)) = Len(n)
        /\ \A i \in 1 .. Len(n) : (h \o Tail(n))[i] = IF i <= 1 THEN h[i] ELSE Tail(n)[i - 1]
    <3>1. /\ h \o Tail(n) \in Seq(Nat)
          /\ Len(h \o Tail(n)) = Len(h) + Len(Tail(n))
          /\ \A i \in 1 .. Len(h) + Len(Tail(n)) :
               (h \o Tail(n))[i] = IF i <= Len(h) THEN h[i] ELSE Tail(n)[i - Len(h)]
      <4>1. h \in Seq(Nat) /\ Tail(n) \in Seq(Nat)
        BY <1>1, <1>2
      <4> QED BY <4>1, JoinedItems, Zenon
    <3>2. Len(h) = 1 /\ Len(h) + Len(Tail(n)) = Len(n)
      BY <1>1, <1>2
    <3> HIDE DEF h
    <3> QED BY <3>1, <3>2, Zenon
  <2>2. ASSUME NEW i \in 1 .. Len(n)
        PROVE  (h \o Tail(n))[i] = n[i]
    <3>1. (h \o Tail(n))[i] = IF i <= 1 THEN h[i] ELSE Tail(n)[i - 1]
      BY <2>1
    <3>2. i = 1 => h[i] = n[i]
      BY <1>2
    <3>3. i # 1 => i - 1 \in 1 .. Len(n) - 1 /\ (i - 1) + 1 = i
      BY <1>1
    <3>4. i # 1 => Tail(n)[i - 1] = n[i]
      BY <1>1, <3>3
    <3>5. i \in Nat /\ i >= 1
      BY <1>1
    <3>6. i <= 1 <=> i = 1
      BY <3>5
    <3> QED BY <3>1, <3>2, <3>4, <3>6, Zenon
  <2>3. h \o Tail(n) \in Seq(Nat) /\ Len(h \o Tail(n)) = Len(n)
    BY <2>1
  <2> QED BY <2>2, <2>3, SameItems, Zenon
<1>5. b \o h \in Seq(Nat) /\ w \o b \in Seq(Nat)
  BY <1>2, JoinedItems
<1>6. w \o (b \o h) = (w \o b) \o h
  BY <1>2, JoinedInAnyOrder
<1>7. ((w \o b) \o h) \o Tail(n) = (w \o b) \o (h \o Tail(n))
  <2>1. \A r, t \in Seq(Nat) : (r \o h) \o t = r \o (h \o t)
    BY <1>2, JoinedInAnyOrder
  <2>2. Tail(n) \in Seq(Nat)
    BY <1>1
  <2> QED BY <1>5, <2>1, <2>2
<1> QED BY <1>3, <1>4, <1>6, <1>7

(* Without an open connection nobody is alone.                               *)
LEMMA ServerInvFresh ==
  /\ ServerInit => ServerInv
  /\ ServerReset => ServerInv'
<1>1. ASSUME ServerInit PROVE ServerInv
  <2>1. ~Alone
    BY <1>1 DEF ServerInit, Alone
  <2>2. ServerTypes
    BY <1>1, NoPieces, ZeroCounts DEF ServerInit, ServerTypes
  <2> QED BY <2>1, <2>2 DEF ServerInv, AloneLinked, ReadyCounts, RepliesInOrder
<1>2. ASSUME ServerReset PROVE ServerInv'
  <2>1. ~Alone'
    BY <1>2 DEF ServerReset, Alone
  <2>2. ServerTypes'
    BY <1>2, NoPieces, ZeroCounts DEF ServerReset, ServerTypes
  <2> QED BY <2>1, <2>2 DEF ServerInv, AloneLinked, ReadyCounts, RepliesInOrder
<1> QED BY <1>1, <1>2

(* espconn_sent keeps the types, and cannot refuse the only packet of an     *)
(* open connection.                                                          *)
LEMMA SentEffect ==
  ASSUME ServerTypes, NEW p \in Seq(Nat), NEW out \in [Clients -> Nat],
         espconn_sent(p, out)
  PROVE  /\ outstanding' \in [Clients -> Nat] /\ wire' \in Seq(Nat)
         /\ conn \in linked /\ out[conn] = 0 /\ ~MaySendFail
              => outstanding'[conn] = 1 /\ wire' = wire \o p
<1>1. CASE /\ conn \in linked
           /\ outstanding' = [out EXCEPT ![conn] = @ + 1]
           /\ wire' = wire \o p
  <2>1. conn \in Clients /\ out[conn] \in Nat
    BY <1>1 DEF ServerTypes
  <2>2. outstanding' \in [Clients -> Nat] /\ outstanding'[conn] = out[conn] + 1
    BY <1>1, <2>1
  <2>3. wire' \in Seq(Nat)
    BY <1>1, ConcatProperties DEF ServerTypes
  <2> QED BY <1>1, <2>2, <2>3
<1>2. CASE /\ MaySendFail \/ (conn \in linked => out[conn] = InFlightBound)
           /\ outstanding' = out /\ UNCHANGED wire
  BY <1>2, ServerAssumption DEF ServerTypes
<1> QED BY <1>1, <1>2 DEF espconn_sent

(* The acknowledgement makes ready, or sends what waits.                     *)
LEMMA SentCbStep ==
  ASSUME ServerInv, NEW c \in Clients, serverSentCb(c)
  PROVE  ServerInv'
<1> DEFINE out == [outstanding EXCEPT ![c] = @ - 1]
<1>1. /\ c \in linked /\ outstanding[c] \in Nat /\ outstanding[c] > 0
      /\ sendtxbuffer(out)
      /\ UNCHANGED <<conn, linked, shared, said>>
  BY DEF serverSentCb, ServerInv, ServerTypes
<1>2. out \in [Clients -> Nat] /\ out[c] = outstanding[c] - 1
  BY <1>1 DEF ServerInv, ServerTypes
<1>3. ASSUME Alone, ~MaySendFail
      PROVE  conn = c /\ conn \in linked /\ ~readytosend /\ out[conn] = 0
  BY <1>1, <1>2, <1>3 DEF ServerInv, AloneLinked, ReadyCounts, Alone, ServerTypes
<1> HIDE DEF out
<1>4. CASE txbuffer = <<>>
  <2>1. /\ readytosend' = TRUE /\ outstanding' = out
        /\ UNCHANGED <<conn, linked, shared, said, txbuffer, wire>>
    BY <1>1, <1>4 DEF sendtxbuffer
  <2> QED BY <1>2, <1>3, <2>1 DEF ServerInv, ServerTypes, AloneLinked,
             ReadyCounts, RepliesInOrder, Alone
<1>5. CASE txbuffer # <<>>
  <2>1. /\ readytosend' = FALSE /\ txbuffer' = <<>>
        /\ espconn_sent(txbuffer, out)
    BY <1>1, <1>5 DEF sendtxbuffer
  <2>2. /\ outstanding' \in [Clients -> Nat] /\ wire' \in Seq(Nat)
        /\ conn \in linked /\ out[conn] = 0 /\ ~MaySendFail
             => outstanding'[conn] = 1 /\ wire' = wire \o txbuffer
    BY <1>2, <2>1, SentEffect DEF ServerInv, ServerTypes
  <2>3. txbuffer' \in Seq(Nat)
    BY <2>1, NoPieces
  <2>4. ServerTypes' /\ AloneLinked'
    BY <1>1, <2>1, <2>2, <2>3 DEF ServerInv, ServerTypes, AloneLinked, Alone
  <2>5. ReadyCounts'
    BY <1>1, <1>3, <2>1, <2>2 DEF ReadyCounts, Alone
  <2>6. RepliesInOrder'
    <3>1. SUFFICES ASSUME Alone, ~MaySendFail
                   PROVE  wire' \o txbuffer' = Numbered(0, said)'
      BY <1>1 DEF RepliesInOrder, Alone
    <3>2. wire' = wire \o txbuffer
      BY <1>3, <2>2, <3>1
    <3>3. wire' \o <<>> = wire'
      BY <2>2, ConcatEmptySeq
    <3>4. wire \o txbuffer = Numbered(0, said)
      BY <3>1 DEF ServerInv, RepliesInOrder
    <3>5. Numbered(0, said)' = Numbered(0, said)
      BY <1>1 DEF Numbered
    <3> QED BY <2>1, <3>2, <3>3, <3>4, <3>5
  <2> QED BY <2>4, <2>5, <2>6 DEF ServerInv
<1> QED BY <1>4, <1>5

(* The new pieces leave or wait behind the ones before them.                 *)
LEMMA RecvLineStep ==
  ASSUME ServerInv, NEW c \in Clients, RecvLine(c)
  PROVE  ServerInv'
<1>1. PICK a \in 0 .. ReplyBound : espbuffsent(a)
  BY DEF RecvLine
<1> DEFINE new == Numbered(said, a)
<1>2. a \in Nat /\ said \in Nat /\ said' = said + a
      /\ UNCHANGED <<conn, linked, shared>>
  BY <1>1, ServerAssumption DEF RecvLine, espbuffsent, ServerInv, ServerTypes
<1>3. new \in Seq(Nat) /\ Len(new) = a
  BY <1>2, NumberedSeq
<1>4. Numbered(0, said)' = Numbered(0, said) \o new
  <2>1. Numbered(0, said)' = Numbered(0, said + a)
    BY <1>2 DEF Numbered
  <2> QED BY <1>2, <2>1, NumberedJoins
<1>5. CASE readytosend /\ a > 0
  <2>1. /\ readytosend' = FALSE /\ txbuffer' = Tail(new)
        /\ espconn_sent(Append(txbuffer, new[1]), outstanding)
    BY <1>1, <1>5 DEF espbuffsent
  <2> HIDE DEF new
  <2>2. new # <<>> /\ new[1] \in Nat /\ Tail(new) \in Seq(Nat)
    BY <1>3, <1>5, NoPieces
  <2>3. Append(txbuffer, new[1]) \in Seq(Nat)
    BY <2>2 DEF ServerInv, ServerTypes
  <2>4. /\ outstanding' \in [Clients -> Nat] /\ wire' \in Seq(Nat)
        /\ conn \in linked /\ outstanding[conn] = 0 /\ ~MaySendFail
             => outstanding'[conn] = 1 /\ wire' = wire \o Append(txbuffer, new[1])
    BY <2>1, <2>3, SentEffect DEF ServerInv, ServerTypes
  <2>5. ServerTypes' /\ AloneLinked'
    <3>1. said' \in Nat
      BY <1>2
    <3>2. ServerTypes'
      BY <1>2, <2>1, <2>2, <2>4, <3>1 DEF ServerInv, ServerTypes
    <3>3. AloneLinked'
      BY <1>2 DEF ServerInv, AloneLinked, Alone
    <3> QED BY <3>2, <3>3
  <2>6. ASSUME Alone, ~MaySendFail
        PROVE  outstanding'[conn] = 1 /\ wire' = wire \o Append(txbuffer, new[1])
    BY <1>5, <2>4, <2>6 DEF ServerInv, ReadyCounts, Alone
  <2>7. ReadyCounts'
    BY <1>2, <2>1, <2>6 DEF ReadyCounts, Alone
  <2>8. RepliesInOrder'
    <3>1. SUFFICES ASSUME Alone, ~MaySendFail
                   PROVE  wire' \o txbuffer' = Numbered(0, said)'
      BY <1>2 DEF RepliesInOrder, Alone
    <3>2. wire' \o txbuffer' = (wire \o Append(txbuffer, new[1])) \o Tail(new)
      BY <2>1, <2>6, <3>1
    <3>3. (wire \o Append(txbuffer, new[1])) \o Tail(new) = (wire \o txbuffer) \o new
      BY <1>3, <2>2, FirstPieceLeaves DEF ServerInv, ServerTypes
    <3>4. wire \o txbuffer = Numbered(0, said)
      BY <3>1 DEF ServerInv, RepliesInOrder
    <3> QED BY <1>4, <3>2, <3>3, <3>4
  <2> QED BY <2>5, <2>7, <2>8 DEF ServerInv
<1>6. CASE ~(readytosend /\ a > 0)
  <2>1. /\ txbuffer' = txbuffer \o new
        /\ UNCHANGED <<readytosend, outstanding, wire>>
    BY <1>1, <1>6 DEF espbuffsent
  <2> HIDE DEF new
  <2>2. txbuffer' \in Seq(Nat)
    BY <1>3, <2>1, ConcatProperties DEF ServerInv, ServerTypes
  <2>3. ServerTypes' /\ AloneLinked' /\ ReadyCounts'
    BY <1>2, <2>1, <2>2 DEF ServerInv, ServerTypes, AloneLinked, ReadyCounts, Alone
  <2>4. RepliesInOrder'
    <3>1. SUFFICES ASSUME Alone, ~MaySendFail
                   PROVE  wire' \o txbuffer' = Numbered(0, said)'
      BY <1>2 DEF RepliesInOrder, Alone
    <3>2. wire \o (txbuffer \o new) = (wire \o txbuffer) \o new
      BY <1>3, JoinedInAnyOrder DEF ServerInv, ServerTypes
    <3>3. wire \o txbuffer = Numbered(0, said)
      BY <3>1 DEF ServerInv, RepliesInOrder
    <3> QED BY <1>4, <2>1, <3>2, <3>3
  <2> QED BY <2>3, <2>4 DEF ServerInv
<1> QED BY <1>5, <1>6

(* A fresh connection finds everything reset, and is alone only if it is the *)
(* only one.                                                                 *)
LEMMA ConnectStep ==
  ASSUME ServerInv, NEW c \in Clients, serverConnectCb(c)
  PROVE  ServerInv'
<1>1. /\ linked' = linked \cup {c} /\ conn' = c
      /\ txbuffer' = <<>> /\ readytosend' = TRUE
      /\ outstanding' = [outstanding EXCEPT ![c] = 0]
      /\ shared' = (linked # {}) /\ said' = 0 /\ wire' = <<>>
  BY DEF serverConnectCb
<1>2. outstanding' \in [Clients -> Nat] /\ outstanding'[c] = 0
  BY <1>1 DEF ServerInv, ServerTypes
<1>3. ServerTypes'
  BY <1>1, <1>2, NoPieces DEF ServerInv, ServerTypes
<1>4. AloneLinked' /\ ReadyCounts'
  BY <1>1, <1>2 DEF AloneLinked, ReadyCounts, Alone
<1>5. RepliesInOrder'
  <2>1. Numbered(0, said)' = Numbered(0, 0)
    BY <1>1 DEF Numbered
  <2>2. Numbered(0, 0) = <<>>
    BY NumberedSeq, NoPieces
  <2>3. wire' \o txbuffer' = <<>>
    BY <1>1, NoPieces, ConcatEmptySeq
  <2> QED BY <2>1, <2>2, <2>3 DEF RepliesInOrder
<1> QED BY <1>3, <1>4, <1>5 DEF ServerInv

(* Where a connection ends, nobody is alone afterwards who was not before,   *)
(* and one that was alone is the one that ended.                             *)
LEMMA EndStep ==
  ASSUME ServerInv, NEW c \in Clients, serverDisconCb(c) \/ serverReconCb(c)
  PROVE  ServerInv'
<1>1. /\ c \in linked /\ linked' = linked \ {c}
      /\ outstanding' = [outstanding EXCEPT ![c] = 0]
      /\ conn' \in {conn, NoClient}
      /\ UNCHANGED <<txbuffer, readytosend, shared, said, wire>>
  BY DEF serverDisconCb, serverReconCb
<1>2. ServerTypes'
  BY <1>1 DEF ServerInv, ServerTypes
<1>3. ~Alone'
  <2>1. SUFFICES ASSUME Alone' PROVE FALSE
    OBVIOUS
  <2>2. conn' \in linked /\ conn' # c /\ ~shared
    BY <1>1, <2>1 DEF Alone
  <2>3. conn' = conn
    BY <1>1, <2>2, ClientAssumption DEF ServerInv, ServerTypes
  <2>4. linked = {conn}
    BY <2>2, <2>3 DEF ServerInv, AloneLinked, Alone
  <2> QED BY <1>1, <2>2, <2>3, <2>4
<1> QED BY <1>2, <1>3 DEF ServerInv, AloneLinked, ReadyCounts, RepliesInOrder

(* What the invariant speaks of.                                             *)
replyVars == <<conn, linked, conversation>>

(* A step that leaves connData and the connections alone.                    *)
LEMMA QuietStep ==
  ASSUME ServerInv, UNCHANGED replyVars
  PROVE  ServerInv'
<1>1. UNCHANGED <<conn, linked, txbuffer, readytosend, outstanding, shared, said, wire>>
  BY DEF replyVars, conversation
<1> QED BY <1>1 DEF ServerInv, ServerTypes, AloneLinked, ReadyCounts,
       RepliesInOrder, Alone, Numbered

(* Every step, of the telnet server or beside it.                            *)
LEMMA ReplyStep ==
  ASSUME ServerInv, [Next]_vars
  PROVE  ServerInv'
<1>1. CASE ClientConnects
  BY <1>1, ConnectStep DEF ClientConnects
<1>2. CASE ClientActs
  <2>1. PICK c \in Clients : ClientStep(c)
    BY <1>2 DEF ClientActs
  <2>2. CASE RecvPart(c)
    BY <2>2, QuietStep DEF RecvPart, replyVars
  <2> QED BY <2>1, <2>2, SentCbStep, RecvLineStep, EndStep DEF ClientStep
<1>3. CASE restart_board_timer_cb \/ config_restart
  BY <1>3, ServerInvFresh DEF restart_board_timer_cb, config_restart, Reboot
<1>4. CASE StationUp \/ StationDown \/ StationChanges \/ LinkFound \/ LinkOver
  BY <1>4, QuietStep DEF StationUp, StationDown, StationChanges, LinkFound,
     LinkOver, serverVars, replyVars, conversation
<1>5. CASE wifiConnectCb
  BY <1>5, QuietStep DEF wifiConnectCb, GotIp, LostNetwork, replyVars
<1>6. CASE timer_check_connection \/ stop_telnet_server
  BY <1>6, QuietStep DEF timer_check_connection, stop_telnet_server,
     serverVars, replyVars, conversation
<1>7. CASE UNCHANGED vars
  BY <1>7, QuietStep DEF vars, serverVars, replyVars, conversation
<1> QED BY <1>1, <1>2, <1>3, <1>4, <1>5, <1>6, <1>7 DEF Next, TimerFires

(* Every callback keeps what is said of the telnet server.                   *)
LEMMA ServerInvariant == Spec => []ServerInv
<1>1. Init => ServerInv
  BY ServerInvFresh DEF Init
<1> QED BY <1>1, ReplyStep, PTL DEF Spec

(* For a telnet client that is alone readytosend is false exactly while an   *)
(* acknowledgement is to come (telnet_server.c), so no reply of any length,  *)
(* and nothing a previous client left in connData, makes the server send too *)
(* early or wait for ever.                                                   *)
THEOREM NetReadyUnlessOutstanding == Spec => []ReadyUnlessOutstanding
<1>1. ServerInv => ReadyUnlessOutstanding
  BY DEF ServerInv, ServerTypes, ReadyCounts, ReadyUnlessOutstanding, Alone
<1> QED BY ServerInvariant, <1>1, PTL

(* What espbuffsent accepts for a client that is alone reaches the SDK once  *)
(* and in order, for every capacity of txbuffer and every mix of immediate   *)
(* and delayed sends (telnet_server.c).                                      *)
THEOREM NetRepliesInOrder == Spec => []RepliesInOrder
<1>1. ServerInv => RepliesInOrder
  BY DEF ServerInv
<1> QED BY ServerInvariant, <1>1, PTL
-------------------------------------------------------------------------------
(* The stop timer.  config_status, which it looks at, is written by the      *)
(* connections, by wifiConnectCb and by the end of any connection: it tells  *)
(* of a client that is alone as long as Wi-Fi has not changed since.         *)
StatusTells == Alone /\ ~changed => config_status = "TELNET_CONNNECTED"

(* When a connection ends nobody is alone.                                   *)
LEMMA NobodyAloneAfterEnd ==
  ASSUME ServerInv, NEW c \in Clients, serverDisconCb(c) \/ serverReconCb(c)
  PROVE  ~Alone'
<1>1. c \in linked /\ linked' = linked \ {c} /\ conn' \in {conn, NoClient}
      /\ UNCHANGED shared
  BY DEF serverDisconCb, serverReconCb
<1>2. SUFFICES ASSUME Alone' PROVE FALSE
  OBVIOUS
<1>3. conn' \in linked /\ conn' # c /\ ~shared
  BY <1>1, <1>2 DEF Alone
<1>4. conn' = conn
  BY <1>1, <1>3, ClientAssumption DEF ServerInv, ServerTypes
<1>5. linked = {conn}
  BY <1>3, <1>4 DEF ServerInv, AloneLinked, Alone
<1> QED BY <1>1, <1>3, <1>4, <1>5

(* A change of Wi-Fi is noted, and a client that comes sets the status; no   *)
(* other step takes it back from a client that is alone.                     *)
LEMMA StatusStep ==
  ASSUME ServerInv, StatusTells, [Next]_vars
  PROVE  StatusTells'
<1> USE DEF StatusTells, Alone
<1>1. CASE ClientConnects
  BY <1>1 DEF ClientConnects, serverConnectCb
<1>2. CASE ClientActs
  <2>1. PICK c \in Clients : ClientStep(c)
    BY <1>2 DEF ClientActs
  <2>2. CASE serverSentCb(c) \/ RecvPart(c) \/ RecvLine(c)
    BY <1>2, <2>2 DEF ClientActs, netVars, serverSentCb, RecvPart, RecvLine,
       conversation
  <2>3. CASE serverDisconCb(c) \/ serverReconCb(c)
    BY <2>3, NobodyAloneAfterEnd
  <2> QED BY <2>1, <2>2, <2>3 DEF ClientStep
<1>3. CASE restart_board_timer_cb \/ config_restart
  BY <1>3 DEF restart_board_timer_cb, config_restart, Reboot, ServerReset
<1>4. CASE wifiConnectCb
  BY <1>4 DEF wifiConnectCb, GotIp, LostNetwork
<1>5. CASE \/ StationUp \/ StationDown \/ StationChanges \/ LinkFound \/ LinkOver
           \/ timer_check_connection \/ stop_telnet_server \/ UNCHANGED vars
  BY <1>5 DEF StationUp, StationDown, StationChanges, LinkFound, LinkOver,
     timer_check_connection, stop_telnet_server, vars, serverVars, netVars
<1> QED BY <1>1, <1>2, <1>3, <1>4, <1>5 DEF Next, TimerFires

(* The stop timer (stop_telnet_server in config.c) never frees connData      *)
(* under a client that has it for itself and came after the last change of   *)
(* Wi-Fi, for any number of clients and whatever order they come and go in.  *)
THEOREM NetKeepsClients == Spec => KeepsClients
<1>1. Init => StatusTells
  BY DEF Init, ServerInit, StatusTells, Alone
<1>2. StatusTells /\ [Next]_vars => [freed' /\ ~freed => ~Alone \/ changed]_vars
  <2> SUFFICES ASSUME StatusTells, Next, freed', ~freed, Alone
               PROVE  changed
    OBVIOUS
  <2>1. CASE stop_telnet_server
    BY <2>1 DEF stop_telnet_server, StatusTells
  <2>2. CASE restart_board_timer_cb \/ config_restart
    BY <2>2 DEF restart_board_timer_cb, config_restart, Reboot
  <2>3. CASE ~stop_telnet_server /\ ~restart_board_timer_cb /\ ~config_restart
    BY <2>3 DEF Next, TimerFires, StationUp, StationDown, StationChanges,
       wifiConnectCb, GotIp, LostNetwork, timer_check_connection, LinkFound,
       LinkOver, ClientConnects, ClientActs, netVars
  <2> QED BY <2>1, <2>2, <2>3
<1>3. ServerInv /\ StatusTells /\ [Next]_vars => StatusTells'
  BY StatusStep
<1> QED BY ServerInvariant, <1>1, <1>2, <1>3, PTL DEF Spec, KeepsClients
=============================================================================
