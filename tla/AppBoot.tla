------------------------------- MODULE AppBoot -------------------------------
(* How the applications of examples/esp_iot come into being at boot:         *)
(* parse_config_for_app and create_protocol_app of user/user_main.c,         *)
(* protocol_create, protocol_find and protocol_add_app of                    *)
(* apps/protocol_manager.c, the matching of apps/protocol_mqtt.c and         *)
(* app_create of apps/app_manager.c.  Everything happens once, before the    *)
(* first callback, so it is one function from the settings.                  *)
(*                                                                           *)
(* The list of names is characters.  An application's settings are a record  *)
(* of its items: name, protocol, server, user, pass and type are texts, ""   *)
(* when missing (none is there and empty), url and surl topics (sequences of *)
(* levels), <<>> when missing, port, pin and swpin numbers, NoPort and NoPin *)
(* when missing.                                                             *)
EXTENDS Integers, Sequences, SequencesExt, FiniteSets

CONSTANTS MaxProtocols,  \* MAX_NUMBER_OF_PROTOCOL
          MaxPerProto,   \* MAX_APP_PER_PROTOCOL
          MaxApps        \* MAX_NUMBER_OF_APP

ASSUME LimitAssumption == /\ MaxProtocols \in Nat \ {0}
                          /\ MaxPerProto \in Nat \ {0} /\ MaxApps \in Nat \ {0}

Gap == 32

(* A walk over the words of "apps": the text in front of a space is a name   *)
(* when it is longer than one character.  Else one character is skipped,     *)
(* which leaves the space in front of the next name unless the text was      *)
(* empty.                                                                    *)
NextName(walk, word) ==
  LET text == walk.open \o word
  IN  IF Len(text) > 1 THEN [names |-> Append(walk.names, text), open |-> <<>>]
      ELSE [walk EXCEPT !.open = IF text = <<>> THEN <<>> ELSE <<Gap>>]

(* parse_config_for_app: the names in "apps", given as the words between     *)
(* single spaces, of which some may be empty.                                *)
Names(words) ==
  LET walk[n \in 0 .. Len(words)] ==
        IF n = 0 THEN [names |-> <<>>, open |-> <<>>] ELSE NextName(walk[n - 1], words[n])
  IN  walk[Len(words)].names

(* An application whose item is missing is passed over.                      *)
NextConfig(configs, name, items) ==
  IF name \in DOMAIN items THEN Append(configs, items[name]) ELSE configs

(* The settings parse_config_for_app finds among the items of the tree.      *)
Configs(words, items) ==
  LET names == Names(words)
      found[n \in 0 .. Len(names)] ==
        IF n = 0 THEN <<>> ELSE NextConfig(found[n - 1], names[n], items)
  IN  found[Len(names)]
----------------------------------------------------------------------------
(* What exists: the protocols with their applications, and all applications  *)
(* with the protocol each was added to, 0 for none.                          *)
Nothing == [protos |-> <<>>, apps |-> <<>>]

NoPort == -1
DefaultPort == 1883

(* Wrong variant: a client for any user of the server will do.               *)
MatchesServer(proto, c) == c.server # "" => proto.server = c.server

(* mqtt_match_client: of server, port, user and password, those the settings *)
(* name are compared.                                                        *)
mqtt_match_client(proto, c) == /\ c.server # "" => proto.server = c.server
                               /\ c.port # NoPort => proto.port = c.port
                               /\ c.user # "" => proto.user = c.user
                               /\ c.pass # "" => proto.pass = c.pass

(* protocol_find: the first protocol that matches, 0 for none.               *)
protocol_find(protos, c) ==
  LET found == {i \in DOMAIN protos : mqtt_match_client(protos[i], c)}
  IN  IF found = {} THEN 0 ELSE CHOOSE i \in found : \A j \in found : i <= j

(* mqtt_create_client: it needs a server; without a port it has the usual    *)
(* one, without a user or a password the empty one.                          *)
mqtt_create_client(c) ==
  IF c.server = "" THEN {}
  ELSE {[server |-> c.server, port |-> IF c.port = NoPort THEN DefaultPort ELSE c.port,
         user |-> c.user, pass |-> c.pass, apps |-> <<>>]}

(* protocol_create: the last place of the list is never used.                *)
protocol_create(protos, c) ==
  IF Len(protos) >= MaxProtocols - 1 \/ mqtt_create_client(c) = {} THEN protos
  ELSE Append(protos, CHOOSE proto \in mqtt_create_client(c) : TRUE)

(* The protocols after those of one application were looked up, and which    *)
(* one is its own.                                                           *)
WithProto(protos, c) ==
  IF protocol_find(protos, c) = 0 THEN protocol_create(protos, c) ELSE protos
OwnProto(protos, c) ==
  IF protocol_find(protos, c) # 0 THEN protocol_find(protos, c)
  ELSE IF WithProto(protos, c) # protos THEN Len(protos) + 1 ELSE 0

(* Whether a protocol takes one more application: not when it has one of     *)
(* that name (protocol_find_app, app_match).                                 *)
AddsApp(b, p, c) ==
  /\ Len(b.protos[p].apps) < MaxPerProto
  /\ \A i \in Range(b.protos[p].apps) : b.apps[i].name # c.name

(* lamp_create, switch_create and switchlamp_create: nothing when an item is *)
(* missing.  A switch sends to the topic it listens to when it has no other. *)
NoPin == -1
SendTopic(c) == IF c.surl = <<>> THEN c.url ELSE c.surl

lamp_create(c) ==
  IF c.url = <<>> \/ c.pin = NoPin THEN {}
  ELSE {[type |-> "lamp", url |-> c.url, surl |-> c.url, pin |-> c.pin, swpin |-> NoPin]}

switch_create(c) ==
  IF c.url = <<>> \/ c.pin = NoPin THEN {}
  ELSE {[type |-> "switch", url |-> c.url, surl |-> SendTopic(c), pin |-> c.pin,
         swpin |-> NoPin]}

switchlamp_create(c) ==
  IF c.url = <<>> \/ c.pin = NoPin \/ c.swpin = NoPin THEN {}
  ELSE {[type |-> "switchlamp", url |-> c.url, surl |-> SendTopic(c), pin |-> c.pin,
         swpin |-> c.swpin]}

(* app_create: the last place of the list is never used.                     *)
app_create(b, p, c) ==
  IF Len(b.apps) >= MaxApps - 1 \/ p = 0 THEN {}
  ELSE CASE c.type = "lamp" -> lamp_create(c)
         [] c.type = "switch" -> switch_create(c)
         [] c.type = "switchlamp" -> switchlamp_create(c)
         [] OTHER -> {}

(* protocol_add_app, whose result nobody looks at: the application exists    *)
(* without a protocol when it was not taken.                                 *)
protocol_add_app(b, p, c, app) ==
  LET added == AddsApp(b, p, c)
  IN  [protos |-> IF added THEN [b.protos EXCEPT ![p].apps = Append(@, Len(b.apps) + 1)]
                  ELSE b.protos,
       apps |-> Append(b.apps, [app |-> app, asked |-> c, name |-> c.name,
                                proto |-> IF added THEN p ELSE 0])]

(* create_protocol_app: settings without a protocol item are none of an      *)
(* application; only MQTT has protocols, which stay when the application is  *)
(* not created.                                                              *)
create_protocol_app(b, c) ==
  LET p == OwnProto(b.protos, c)
      found == [b EXCEPT !.protos = WithProto(@, c)]
  IN  IF c.protocol # "mqtt" \/ app_create(found, p, c) = {}
      THEN (IF c.protocol = "mqtt" THEN found ELSE b)
      ELSE protocol_add_app(found, p, c, CHOOSE app \in app_create(found, p, c) : TRUE)

(* The applications of a list of settings, one after the other.              *)
Booted(configs) ==
  LET lists[n \in 0 .. Len(configs)] ==
        IF n = 0 THEN Nothing ELSE create_protocol_app(lists[n - 1], configs[n])
  IN  lists[Len(configs)]
----------------------------------------------------------------------------
(* The first n words without the empty ones.                                 *)
WordsUpTo(words, n) == {i \in 1 .. n : words[i] # <<>>}

(* When no name has a single character, every name is read, in order,        *)
(* however many spaces are between, before and behind them.                  *)
ReadsNames(words) ==
  (\A i \in DOMAIN words : Len(words[i]) # 1) =>
    /\ Len(Names(words)) = Cardinality(WordsUpTo(words, Len(words)))
    /\ \A i \in WordsUpTo(words, Len(words)) :
         Names(words)[Cardinality(WordsUpTo(words, i))] = words[i]

(* However the settings repeat, clash or exceed the lists: an application    *)
(* talks to the server and port its settings name, as the user and with the  *)
(* password they name, the lists refer to each other both ways, no protocol  *)
(* has two applications of one name, and no list is longer than its array.   *)
BootIsSound(configs) ==
  LET b == Booted(configs)
  IN  /\ Len(b.protos) <= MaxProtocols /\ Len(b.apps) <= MaxApps
      /\ \A p \in DOMAIN b.protos :
           /\ Len(b.protos[p].apps) <= MaxPerProto
           /\ \A i \in DOMAIN b.protos[p].apps : b.apps[b.protos[p].apps[i]].proto = p
           /\ IsInjective([i \in DOMAIN b.protos[p].apps |->
                             b.apps[b.protos[p].apps[i]].name])
      /\ \A a \in DOMAIN b.apps : b.apps[a].proto # 0 =>
           LET c == b.apps[a].asked
               p == b.protos[b.apps[a].proto]
           IN  /\ b.apps[a].proto \in DOMAIN b.protos /\ a \in Range(p.apps)
               /\ c.server \in {"", p.server} /\ c.port \in {NoPort, p.port}
               /\ c.user \in {"", p.user} /\ c.pass \in {"", p.pass}
=============================================================================
