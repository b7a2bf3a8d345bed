------------------------------- MODULE Codecs -------------------------------
(* The parts that are called and return, together: the ring of RingBuf, the  *)
(* packets of MqttMsg, the JSON of CJson and Jsmn, the version server's      *)
(* answer of FotaUtil and the applications of AppBoot.  A behaviour calls    *)
(* one ring, or writes one packet after the other on one connection, or      *)
(* looks at one input of another part.                                       *)
EXTENDS RingBuf, MqttMsg, FotaUtil, AppBoot

CONSTANTS Trees,     \* items to print and read back
          Garbled,   \* texts no printer wrote, for the tokenizer
          Answers,   \* items a version server may print
          Versions,  \* versions, as the parts between dots
          AppLists,  \* values of "apps", as the words between spaces
          AppItems   \* the settings of applications, by name

ASSUME TreesAssumption == Trees \subseteq {t \in ItemsTo[Nesting] : t.string = <<>>}
ASSUME GarbledAssumption == Garbled \subseteq Strings
ASSUME VersionsAssumption == Versions \subseteq Seq(Seq((1 .. 255) \ {Dot}))
ASSUME AppListsAssumption == AppLists \subseteq Seq(Seq((1 .. 255) \ {Gap}))

VARIABLE input  \* what is looked at, of the part it is for

codecsVars == <<vars, msgVars, input>>

NoInput == [of |-> "none"]
CallsRing == [of |-> "ring"]

CodecsInit == RINGBUF_Init /\ MsgInit /\ input = NoInput

CallRing == /\ input \in {NoInput, CallsRing} /\ MsgInit
            /\ Next /\ input' = CallsRing /\ UNCHANGED msgVars

WritePacket == input = NoInput /\ MsgNext /\ UNCHANGED <<vars, input>>

Ready == input = NoInput /\ MsgInit /\ UNCHANGED <<vars, msgVars>>

PrintTree == Ready /\ \E t \in Trees : input' = [of |-> "tree", value |-> t]

CutText == Ready /\ \E t \in Garbled : input' = [of |-> "text", value |-> t]

ReadAnswer == Ready /\ \E a \in Answers : input' = [of |-> "answer", value |-> a]

ReadVersion == Ready /\ \E v \in Versions : input' = [of |-> "version", value |-> v]

BootApps ==
  /\ Ready
  /\ \E words \in AppLists, items \in AppItems :
       input' = [of |-> "apps", value |-> words, configs |-> Configs(words, items)]

CodecsNext ==
  CallRing \/ WritePacket \/ PrintTree \/ CutText \/ ReadAnswer \/ ReadVersion \/ BootApps

CodecsSpec == CodecsInit /\ [][CodecsNext]_codecsVars
----------------------------------------------------------------------------
(* The settings of esp_iot are printed and parsed by cJSON.c: every tree is  *)
(* read back as it was printed.                                              *)
TreesRead == input.of = "tree" => ReadsBack(input.value)

(* Of the versions exactly those of three small numbers are accepted, as the *)
(* number they mean (convert_version of fota-util.c).                        *)
VersionsRead == input.of = "version" => ConvertsVersion(input.value)

(* Whatever text is cut into tokens (jsmn_parse of jsmn.c), they stand for   *)
(* parts of it that are nested as its brackets are.                          *)
TextsCut == input.of = "text" => TokensNest(input.value)

(* The answers of the version server are cut into tokens by jsmn.c, which    *)
(* follow the tree that was printed.  The updater takes an answer exactly    *)
(* when it is complete, and then the four texts as they stand in it          *)
(* (parse_fota of fota-util.c), of which the version is then read.           *)
AnswersRead == /\ input.of = "tree" => TokensFollow(input.value)
               /\ input.of = "answer" => ReadsAnswer(input.value)
               /\ TextsCut
               /\ VersionsRead

(* Whatever the list "apps" and the settings of the applications it names:   *)
(* unless a name is one character long every name is read, and every         *)
(* application talks to the server and port, as the user and with the        *)
(* password its own settings name (user_init of user_main.c).                *)
AppsBooted ==
  input.of = "apps" => ReadsNames(input.value) /\ BootIsSound(input.configs)
=============================================================================
