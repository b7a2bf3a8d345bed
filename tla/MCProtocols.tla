----------------------------- MODULE MCProtocols -----------------------------
(* A board with a switch and the lamp it switches, and one with a            *)
(* switch-lamp that listens to a whole room.                                 *)
EXTENDS Protocols

App(name, user, type, url, surl, pin, swpin) ==
  [name |-> name, protocol |-> "mqtt", server |-> "broker", port |-> NoPort,
   user |-> user, pass |-> "", type |-> type, url |-> url, surl |-> surl,
   pin |-> pin, swpin |-> swpin]

MCSwitched == <<App("sw", "u", "switch", <<"a">>, <<>>, 1, NoPin),
                App("lamp", "u", "lamp", <<"a">>, <<>>, 2, NoPin)>>
MCRoom == <<App("sl", "u", "switchlamp", <<"r", "#">>, <<"r", "l">>, 1, 3)>>
MCBoards == {MCSwitched, MCRoom}
=============================================================================
