------------------------------ MODULE Settings ------------------------------
(* The settings of examples/esp_iot: the tree jconfig_root the telnet        *)
(* commands of modules/telnet_config.c read and change, the flash sector     *)
(* modules/flash_config.c saves it to, the station configuration the SDK     *)
(* keeps in its own flash, and the boot that puts them together              *)
(* (user/user_main.c, modules/config.c, modules/wifi.c).                     *)
(*                                                                           *)
(* A key is typed as pieces separated by '/', some of which may be empty.    *)
(* The tree maps the path of every item to its value, the root's is <<>>;    *)
(* names that differ in case only are one name.  A text is the tree it       *)
(* parses to, NoTree when it does not parse: erased, cut short, or absent.   *)
(* Power fails between any two steps.                                        *)
EXTENDS Integers, Sequences, SequencesExt, FiniteSets

CONSTANTS Keys,      \* keys typed: sequences of pieces
          Values,    \* values typed: sequences of words
          Ssids,     \* access points smartconfig can learn
          Default,   \* DEVICE_DEFAULT_CONFIG
          CfgSize,   \* CFG_CONFIG_SIZE, in items of the tree
          ItemBound  \* bound: items of the tree a command may add to

Obj == [type |-> "object", text |-> ""]
Text(t) == [type |-> "string", text |-> t]
Number(t) == [type |-> "number", text |-> t]
NoTree == <<>>

Ssid == <<"wifi_ssid">>

(* What a tree prints to: nothing is printed below an item that is no        *)
(* object, and a text longer than the sector's share is cut.                 *)
Printed(t) == [p \in {q \in DOMAIN t : \A n \in 0..(Len(q) - 1) :
                        t[SubSeq(q, 1, n)] = Obj} |-> t[p]]
Fitting(t) == IF Cardinality(DOMAIN t) <= CfgSize THEN t ELSE NoTree

(* Every item has a name of two characters or more, and every step to it is  *)
(* an item.                                                                  *)
IsTree(t) == t = NoTree \/ /\ <<>> \in DOMAIN t /\ t[<<>>] = Obj
                           /\ \A p \in DOMAIN t \ {<<>>} :
                                /\ \A n \in 0 .. (Len(p) - 1) :
                                     SubSeq(p, 1, n) \in DOMAIN t
                                /\ Len(Last(p)) > 1
                                /\ t[p].type \in {"object", "string", "number"}

ASSUME SettingsAssumption ==
  /\ Default # NoTree /\ IsTree(Default) /\ DOMAIN Default \subseteq Seq(STRING)
  /\ Printed(Default) = Default /\ Len(Last(Ssid)) > 1
  /\ Fitting(Default) = Default
  /\ Ssid \in DOMAIN Default => Default[Ssid].type = "string"
  /\ (\A k \in Keys : Len(k) > 0) /\ (\A v \in Values : Len(v) > 0)
  /\ CfgSize \in Nat /\ ItemBound \in Nat /\ "" \notin Ssids

VARIABLES inFlash,       \* CONFIG_IN_FLASH, chosen when the program is built
          pc,            \* boot, erased, read, start, run, or learn
          saving,        \* the text CFG_save is writing and what follows
          flash,         \* the text in the configuration sector
          config_string, \* the text the boot starts from
          tree,          \* jconfig_root
          sdk,           \* the SSID in the SDK's flash, "" when there is none
          station,       \* the SSID the station connects to
          answer,        \* what the last command did
          learnt         \* history: the last SSID smartconfig stored

vars == <<inFlash, pc, saving, flash, config_string, tree, sdk, station, answer,
          learnt>>

TypeOK == /\ inFlash \in BOOLEAN
          /\ pc \in {"boot", "erased", "read", "start", "learn", "run"}
          /\ IsTree(tree)
          /\ IsTree(flash) /\ flash = Printed(flash)
          /\ IsTree(config_string)
          /\ pc = "erased" => saving.then \in {"read", "learn", "run"}
          /\ {sdk, learnt} \subseteq Ssids \cup {"", Default[Ssid].text}

Answer(what) == answer' = [what |-> what, key |-> <<>>]
AnswerTo(what, key) == answer' = [what |-> what, key |-> key]

Init == /\ inFlash \in BOOLEAN
        /\ pc = "boot" /\ saving = [text |-> NoTree, then |-> "read"]
        /\ flash = NoTree /\ config_string = NoTree /\ tree = NoTree
        /\ sdk = "" /\ station = "" /\ learnt = ""
        /\ answer = [what |-> "none", key |-> <<>>]
----------------------------------------------------------------------------
(* Reading a key: every piece that a '/' ends is a step into the tree.  The  *)
(* '/' behind an empty piece stays in front of the next one.                 *)
Step(walk, piece) ==
  LET text == walk.open \o piece
  IN  IF text = "" THEN [walk EXCEPT !.open = "/"]
                   ELSE [steps |-> Append(walk.steps, text), open |-> ""]
Walk(key) == FoldLeft(Step, [steps |-> <<>>, open |-> ""], Front(key))

(* The name behind the last step; it counts from two characters on.          *)
LastName(key) == Walk(key).open \o Last(key)
HasLast(key) == Len(LastName(key)) > 1

(* cJSON_GetObjectItem: the path of the item of that name, if there is one.  *)
Item(path, name) == {Append(path, name)} \cap DOMAIN tree

(* get_parent_by_key: where the steps lead, if every item on the way is      *)
(* there.                                                                    *)
Parent(key) == {Walk(key).steps} \cap DOMAIN tree

(* Wrong variant: the name behind steps that are all there is not looked up. *)
ConfigAtParent(key) ==
  LET steps == Walk(key).steps
  IN  IF steps \in DOMAIN tree THEN {steps} \ {<<>>}
      ELSE IF Front(steps) \in DOMAIN tree /\ HasLast(key)
           THEN Item(Front(steps), LastName(key)) ELSE {}

(* get_config_by_key: the last name below the steps, or the last step itself *)
(* when no name counts.  The walk ends at a missing step, but the rest of    *)
(* the key is still looked up there; it names no item while it holds a '/'.  *)
ConfigByKey(key) ==
  LET steps == Walk(key).steps
  IN  IF steps \in DOMAIN tree
      THEN IF HasLast(key) THEN Item(steps, LastName(key)) ELSE {steps} \ {<<>>}
      ELSE IF Front(steps) \in DOMAIN tree /\ HasLast(key)
           THEN Item(Front(steps), LastName(key)) ELSE {}

(* The value of a set command: config_parse_args keeps four words in all,    *)
(* so two of the value; the first character tells its type and something     *)
(* must follow it.                                                           *)
Kept(words) == SubSeq(words, 1, IF Len(words) < 2 THEN Len(words) ELSE 2)
Joined(words) == FoldLeft(LAMBDA a, w : a \o " " \o w, words[1], Tail(words))
ValueOf(words) ==
  LET text == Joined(Kept(words))
      rest == SubSeq(text, 2, Len(text))
  IN  IF rest = "" THEN {}
      ELSE CASE SubSeq(text, 1, 1) = "s" -> {Text(rest)}
             [] SubSeq(text, 1, 1) = "i" -> {Number(rest)}
             [] OTHER -> {}

Below(t, p) == {q \in DOMAIN t : IsPrefix(p, q)}
Without(t, p) == [q \in DOMAIN t \ Below(t, p) |-> t[q]]
With(t, p, v) == [q \in DOMAIN t \cup {p} |-> IF q = p THEN v ELSE t[q]]
----------------------------------------------------------------------------
(* The board starts again, by a command, a watchdog or the power.  Nothing   *)
(* but the two flashes outlives it.                                          *)
Restart == /\ pc' = "boot"
           /\ saving' = [text |-> NoTree, then |-> "read"]
           /\ config_string' = NoTree /\ tree' = NoTree /\ station' = ""
           /\ Answer("none")

(* CFG_save of what a tree prints to: nothing without a tree; else the       *)
(* sector is erased, then written.                                           *)
CFG_save(t, then) ==
  IF t = NoTree
  THEN pc' = then /\ UNCHANGED <<flash, saving>>
  ELSE /\ pc' = "erased" /\ flash' = NoTree
       /\ saving' = [text |-> Fitting(Printed(t)), then |-> then]

Write == /\ pc = "erased"
         /\ flash' = saving.text /\ pc' = saving.then
         /\ UNCHANGED <<inFlash, saving, config_string, tree, sdk, station,
                        answer, learnt>>

(* Power fails; a write that was under way leaves a text that is cut short.  *)
PowerCut == /\ pc # "boot"
            /\ Restart
            /\ UNCHANGED <<inFlash, flash, sdk, learnt>>

(* Wrong variant: the boot only reads what was saved before.                 *)
BootReading ==
  /\ pc = "boot"
  /\ IF inFlash
     THEN pc' = "read" /\ UNCHANGED <<flash, saving, config_string>>
     ELSE /\ config_string' = Default /\ pc' = "start"
          /\ UNCHANGED <<flash, saving>>
  /\ UNCHANGED <<inFlash, tree, sdk, station, answer, learnt>>

(* user_init up to config_string: the default configuration, which a build   *)
(* with CONFIG_IN_FLASH saves at every boot before it reads the sector.      *)
Boot ==
  /\ pc = "boot"
  /\ IF inFlash
     THEN CFG_save(Default, "read") /\ UNCHANGED config_string
     ELSE /\ config_string' = Default /\ pc' = "start"
          /\ UNCHANGED <<flash, saving>>
  /\ UNCHANGED <<inFlash, tree, sdk, station, answer, learnt>>

(* CFG_read: the sector's text, or NULL when memory or the read fails.       *)
CFG_read == /\ pc = "read"
            /\ config_string' \in {flash, NoTree}
            /\ pc' = "start"
            /\ UNCHANGED <<inFlash, saving, flash, tree, sdk, station, answer,
                           learnt>>

(* Wrong variant: the station's own configuration is not looked at.          *)
StartFromTree ==
  /\ pc = "start" /\ pc' = "run"
  /\ tree' = config_string
  /\ sdk' = IF Ssid \in DOMAIN tree' THEN tree'[Ssid].text ELSE sdk
  /\ station' = sdk'
  /\ UNCHANGED <<inFlash, saving, flash, config_string, answer, learnt>>

(* WIFI_Connect and CFG_parse_config: the tree is parsed; the SDK's SSID is  *)
(* used, and only where it has none the tree's is, and stored there.         *)
Start ==
  /\ pc = "start" /\ pc' = "run"
  /\ tree' = config_string
  /\ sdk' = IF sdk = "" /\ Ssid \in DOMAIN tree' THEN tree'[Ssid].text ELSE sdk
  /\ station' = sdk'
  /\ UNCHANGED <<inFlash, saving, flash, config_string, answer, learnt>>
----------------------------------------------------------------------------
(* smartconfig_done on SC_STATUS_LINK: the credentials go into the tree,     *)
(* which is parsed again if the boot could not, and are saved with it; then  *)
(* the SDK is told, which stores them itself.                                *)
LinkTree == IF tree = NoTree THEN config_string ELSE tree

Learn(ssid) ==
  /\ pc = "run"
  /\ tree' = IF LinkTree = NoTree THEN NoTree
             ELSE With(Without(LinkTree, Ssid), Ssid, Text(ssid))
  /\ CFG_save(tree', "learn")
  /\ station' = ssid
  /\ Answer("none")
  /\ UNCHANGED <<inFlash, config_string, sdk, learnt>>

Learnt == /\ pc = "learn" /\ pc' = "run"
          /\ sdk' = station /\ learnt' = station
          /\ UNCHANGED <<inFlash, saving, flash, config_string, tree, station,
                         answer>>
----------------------------------------------------------------------------
(* The telnet commands.  Without a tree a key is looked up behind a null     *)
(* pointer, which resets the board.                                          *)
Crash == /\ pc = "run" /\ tree = NoTree
         /\ Restart
         /\ UNCHANGED <<inFlash, flash, sdk, learnt>>

Command == /\ pc = "run"
           /\ UNCHANGED <<inFlash, config_string, sdk, station, learnt>>
TreeCommand == Command /\ tree # NoTree /\ UNCHANGED <<pc, saving, flash>>

(* config_get of one key.                                                    *)
GetOne(key) ==
  /\ TreeCommand
  /\ AnswerTo(IF ConfigByKey(key) = {} THEN "not found" ELSE "found", key)
  /\ UNCHANGED tree

(* config_set with a value: the item is replaced, with all below it, or      *)
(* added, whatever its parent is.                                            *)
Update(key, words) ==
  LET p == Append(Walk(key).steps, LastName(key))
  IN  /\ TreeCommand
      /\ Cardinality(DOMAIN tree) <= ItemBound
      /\ IF Parent(key) = {} \/ ~HasLast(key) \/ ValueOf(words) = {}
         THEN Answer("refused") /\ UNCHANGED tree
         ELSE \E v \in ValueOf(words) :
                /\ tree' = With(Without(tree, p), p, v)
                /\ AnswerTo("updated", key)

(* config_set without a value: the item goes, with all below it.             *)
Delete(key) ==
  LET p == Append(Walk(key).steps, LastName(key))
  IN  /\ TreeCommand
      /\ IF Parent(key) = {} \/ ~HasLast(key) \/ p \notin DOMAIN tree
         THEN Answer("refused") /\ UNCHANGED tree
         ELSE tree' = Without(tree, p) /\ AnswerTo("deleted", key)

(* config_save, which reports success whatever CFG_save did.                 *)
Save == /\ Command
        /\ CFG_save(tree, "run")
        /\ Answer("saved")
        /\ UNCHANGED tree

config_restart == /\ pc = "run"
                  /\ Restart
                  /\ UNCHANGED <<inFlash, flash, sdk, learnt>>

config_set == \E key \in Keys : \/ Delete(key)
                                \/ \E words \in Values : Update(key, words)

Next == \/ Boot \/ Write \/ CFG_read \/ Start \/ PowerCut
        \/ (\E ssid \in Ssids : Learn(ssid)) \/ Learnt
        \/ Crash \/ (\E key \in Keys : GetOne(key)) \/ config_set \/ Save
        \/ config_restart

Spec == Init /\ [][Next]_vars
----------------------------------------------------------------------------
(* Whatever was cut off and when, also in the middle of a save: the sector   *)
(* holds a text that was printed in whole or none, and the one the boot      *)
(* reads holds a text.  A board cannot lock itself out.                      *)
ReadableAtBoot == TypeOK /\ (pc = "read" => flash # NoTree)

(* The station connects with what smartconfig learnt last, in every later    *)
(* boot, whatever was set, saved or lost in between.                         *)
StationStaysLearnt == pc = "run" /\ learnt # "" => station = learnt

(* set and get walk the tree with code of their own, and agree: a set        *)
(* changes the item its key names and nothing beside it, leaves nothing of   *)
(* what was below, and get finds the item then exactly if it was not a set   *)
(* that deletes.                                                             *)
SetChangesOneItem ==
  [][answer'.what \in {"updated", "deleted"} /\ pc = "run" =>
       LET p == Append(Walk(answer'.key).steps, LastName(answer'.key))
       IN  /\ Without(tree', p) = Without(tree, p)
           /\ Below(tree', p) \subseteq {p}
           /\ answer'.what = "updated" <=> ConfigByKey(answer.key)' # {}]_vars

(* telnet_config.c:106 says of save "Save current config into FLASH for      *)
(* later used": what it saved is still there when a boot reads the sector.   *)
BootKeepsSaved ==
  [][pc = "boot" /\ flash \notin {NoTree, Default} => flash' = flash]_vars
=============================================================================
