------------------------------ MODULE NetConfig ------------------------------
(* The configuration life cycle of examples/esp_iot: modules/config.c with   *)
(* wifiConnectCb of user/user_main.c and the start and stop of the telnet    *)
(* server (modules/telnet_server.c), which it composes.  One os_timer,       *)
(* connectTimer, serves three purposes in turn: it starts smartconfig when   *)
(* Wi-Fi does not come up, restarts the board when smartconfig does not      *)
(* help, and stops the telnet server some time after Wi-Fi came up.          *)
(*                                                                           *)
(* External, as this code uses it: the station, whose events wait in a queue *)
(* until wifiConnectCb handles them, and the smartconfig library.  The       *)
(* protocols are the network applications wifiConnectCb connects and         *)
(* disconnects, seen from here as told to run or not.  Freed blocks keep     *)
(* their contents; what the SDK does with a freed listener is open.          *)
EXTENDS TelnetServer

CONSTANTS AuthModeChanges,  \* the access point may change its security mode
          EventBound        \* bound: Wi-Fi events under way

ASSUME NetAssumption == AuthModeChanges \in BOOLEAN /\ EventBound \in Nat \ {0}

VARIABLES connectTimer,  \* what the armed timer will call: check, restart, stop
          station,       \* wifi_station_get_connect_status() = STATION_GOT_IP
          events,        \* events on their way to wifiConnectCb
          smartconfig,   \* off, running, or linked to the access point it learnt
          protocols,     \* the protocols were last told to connect
          listening,     \* the SDK accepts telnet clients
          freed,         \* serverDeInit has freed serverConn, connData, ...
          online,        \* history: an address was handled since boot
          changed        \* history: Wi-Fi changed since conn connected

netVars == <<connectTimer, station, events, smartconfig, protocols, listening,
             freed, online, changed>>
vars == <<serverVars, netVars>>

Kinds == {"GOT_IP", "OTHER"}

TypeOK == /\ ServerTypeOK
          /\ connectTimer \in {"none", "check", "restart", "stop"}
          /\ station \in BOOLEAN
          /\ events \in Seq(Kinds) /\ Len(events) <= EventBound
          /\ smartconfig \in {"off", "running", "linked"}
          /\ protocols \in BOOLEAN /\ listening \in BOOLEAN
          /\ freed \in BOOLEAN /\ online \in BOOLEAN /\ changed \in BOOLEAN

(* user_init: WIFI_Connect, then CFG_init_config, which prepares the server  *)
(* and arms the timer.                                                       *)
Boot == /\ config_status = "NOTHING"
        /\ connectTimer = "check"
        /\ station = FALSE /\ events = <<>> /\ smartconfig = "off"
        /\ protocols = FALSE
        /\ listening = FALSE /\ freed = FALSE
        /\ online = FALSE /\ changed = FALSE
Init == ServerInit /\ Boot
----------------------------------------------------------------------------
(* The station gets or loses its address; while smartconfig listens for a    *)
(* phone it has none.  Each is an event, and any other change of the station *)
(* is one more for wifiConnectCb.                                            *)
Event(e) == Len(events) < EventBound /\ events' = Append(events, e)

StationUp == /\ ~station /\ smartconfig # "running"
             /\ station' = TRUE /\ Event("GOT_IP")
             /\ UNCHANGED <<serverVars, connectTimer, smartconfig, protocols,
                            listening, freed, online, changed>>

StationDown == /\ station
               /\ station' = FALSE /\ Event("OTHER")
               /\ UNCHANGED <<serverVars, connectTimer, smartconfig, protocols,
                              listening, freed, online, changed>>

StationChanges == /\ ~station \/ AuthModeChanges
                  /\ Event("OTHER")
                  /\ UNCHANGED <<serverVars, connectTimer, station, smartconfig,
                                 protocols, listening, freed, online, changed>>

(* serverConnect: the server listens, unless its memory was freed.           *)
serverConnect == IF freed THEN listening' \in BOOLEAN ELSE listening' = TRUE

(* Wrong variant: the timer goes on as it was.                               *)
StartConfigKeepingTimer == serverConnect /\ UNCHANGED connectTimer

(* CFG_start_config takes the timer over, whatever it was armed for.         *)
CFG_start_config == serverConnect /\ connectTimer' = "stop"

(* Wrong variant: every loss also cancels the timer.                         *)
LostNetworkCancelling ==
  /\ events # <<>> /\ Head(events) = "OTHER"
  /\ config_status' = "NOTHING" /\ protocols' = FALSE
  /\ connectTimer' = "none"
  /\ changed' = TRUE
  /\ events' = Tail(events)
  /\ UNCHANGED <<conn, conversation, rxfrom, linked, station, smartconfig,
                 listening, freed, online>>

(* wifiConnectCb on an address, and on anything else.                        *)
GotIp == /\ events # <<>> /\ Head(events) = "GOT_IP"
         /\ config_status' = "WIFI_CONNECTED"
         /\ CFG_start_config
         /\ protocols' = TRUE
         /\ online' = TRUE /\ changed' = TRUE
         /\ events' = Tail(events)
         /\ UNCHANGED <<conn, conversation, rxfrom, linked, station, smartconfig,
                        freed>>

(* serverDisconnect: espconn_disconnect does nothing to a listening espconn. *)
serverDisconnect == UNCHANGED listening

LostNetwork == /\ events # <<>> /\ Head(events) = "OTHER"
               /\ IF config_status = "NOTHING"
                  THEN UNCHANGED <<config_status, protocols, listening>>
                  ELSE /\ config_status' = "NOTHING" /\ protocols' = FALSE
                       /\ serverDisconnect
               /\ changed' = TRUE
               /\ events' = Tail(events)
               /\ UNCHANGED <<conn, conversation, rxfrom, linked, connectTimer,
                              station, smartconfig, freed, online>>

wifiConnectCb == GotIp \/ LostNetwork
----------------------------------------------------------------------------
(* timer_check_connection asks the station itself, so an address whose event *)
(* has not been handled yet counts.                                          *)
timer_check_connection ==
  /\ connectTimer = "check"
  /\ IF station THEN connectTimer' = "none" /\ UNCHANGED smartconfig
     ELSE connectTimer' = "restart" /\ smartconfig' = "running"
  /\ UNCHANGED <<serverVars, station, events, protocols, listening, freed, online, changed>>

(* system_restart: everything in RAM starts over.                            *)
Reboot == /\ ServerReset /\ config_status' = "NOTHING"
          /\ connectTimer' = "check"
          /\ station' = FALSE /\ events' = <<>> /\ smartconfig' = "off"
          /\ protocols' = FALSE /\ listening' = FALSE /\ freed' = FALSE
          /\ online' = FALSE /\ changed' = FALSE

restart_board_timer_cb == connectTimer = "restart" /\ Reboot

(* serverDeInit: espconn_delete refuses while the listener has clients.      *)
serverDeInit == /\ freed' = TRUE
                /\ listening' = (listening /\ linked # {})

(* Wrong variant: the server is stopped whoever uses it.                     *)
StopWithoutLooking == /\ connectTimer = "stop"
                      /\ connectTimer' = "none"
                      /\ serverDeInit
                      /\ UNCHANGED <<serverVars, station, events, smartconfig,
                                     protocols, online, changed>>

stop_telnet_server ==
  /\ connectTimer = "stop"
  /\ connectTimer' = "none"
  /\ IF config_status = "TELNET_CONNNECTED" THEN UNCHANGED <<listening, freed>>
     ELSE serverDeInit
  /\ UNCHANGED <<serverVars, station, events, smartconfig, protocols, online, changed>>

(* smartconfig_done: with SC_STATUS_LINK the station connects to the access  *)
(* point the phone named, with SC_STATUS_LINK_OVER the library stops.        *)
LinkFound == /\ smartconfig = "running"
             /\ smartconfig' = "linked"
             /\ UNCHANGED <<serverVars, connectTimer, station, events, protocols,
                            listening, freed, online, changed>>

LinkOver == /\ smartconfig = "linked"
            /\ smartconfig' = "off"
            /\ UNCHANGED <<serverVars, connectTimer, station, events, protocols,
                           listening, freed, online, changed>>

(* config_restart, the telnet command RST.                                   *)
config_restart == linked # {} /\ Reboot

(* A telnet client reaches a listening server over Wi-Fi, and its traffic;   *)
(* a connection that loses Wi-Fi stays open until the SDK gives it up.       *)
ClientConnects == /\ station /\ listening
                  /\ \E c \in Clients : serverConnectCb(c)
                  /\ changed' = FALSE
                  /\ UNCHANGED <<connectTimer, station, events, smartconfig,
                                 protocols, listening, freed, online>>

ClientActs == (\E c \in Clients : ClientStep(c)) /\ UNCHANGED netVars

TimerFires == timer_check_connection \/ restart_board_timer_cb \/ stop_telnet_server

Next == StationUp \/ StationDown \/ StationChanges \/ wifiConnectCb \/ TimerFires
        \/ LinkFound \/ LinkOver \/ config_restart \/ ClientConnects \/ ClientActs

(* The SDK fires an armed timer, delivers the station's events, and reports  *)
(* every packet it took as sent while the connection lives.                  *)
Fairness == /\ WF_vars(TimerFires) /\ WF_vars(wifiConnectCb)
            /\ \A c \in Clients : WF_vars(serverSentCb(c) /\ UNCHANGED netVars)

Spec == Init /\ [][Next]_vars /\ Fairness
----------------------------------------------------------------------------
(* An address is known to the SDK and on its way to wifiConnectCb.           *)
Coming(s) == \E i \in DOMAIN s : s[i] = "GOT_IP"

(* The timer's purpose follows the phase of the device, although every phase *)
(* arms the same os_timer: before the first address it is armed to start     *)
(* smartconfig or to restart the board, so the device is never left offline  *)
(* unwatched; after it the board is not restarted any more.                  *)
TimerFollowsPhase ==
  /\ ~online => connectTimer \in {"check", "restart"} \/ Coming(events)
  /\ online => connectTimer \in {"none", "stop"}

(* The protocols do not keep running on a lost network once its loss is      *)
(* handled, whatever the telnet clients do to config_status meanwhile.       *)
ProtocolsFollowNetwork == (~station /\ events = <<>>) => ~protocols

(* The stop timer does not free connData under the client it belongs to:     *)
(* config_status still tells of a client that is alone and came after the    *)
(* last change of Wi-Fi.                                                     *)
KeepsClients == [][freed' /\ ~freed => ~Alone \/ changed]_vars

(* CFG_init_config in config.h: if Wi-Fi does not connect, smartconfig       *)
(* starts; and a device that tried smartconfig gets an address or starts all *)
(* over.                                                                     *)
SmartConfigStarts ==
  /\ (connectTimer = "check") ~> (online \/ smartconfig = "running")
  /\ (smartconfig # "off" /\ ~online) ~> (online \/ connectTimer = "check")
=============================================================================
