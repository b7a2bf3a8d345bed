# Verification of esp8266-dev

TLA+ models of the applications in this repository (ESP8266 firmware in C on Espressif's SDK),
TLC runs that check them on small instances, and TLAPS proofs that hold for every value of the
constants. `PROJECT.json` lists components, runs, mutants, findings, hazards and theorems, and maps
every definition that models code to the source lines it stands for.

Contents: 1 inventory · 2 execution model · 3 modules · 4 runs, bounds · 5 fairness ·
6 external assumptions · 7 proofs · 8 findings and differences · 9 not modelled · 10 plan

## 1. Inventory

The SDK runs one thread. It calls the program in callbacks (TCP, DNS, timers, tasks, Wi-Fi events,
interrupts), each of which runs to completion; only interrupts preempt. What is hard in this code is
therefore not threads but the *order* of callbacks: memory and flags set in one and read in another,
one timer or buffer that several purposes share, and results of SDK calls that are ignored. The file
system is sequential but long, and the power may go before any of its writes.

| Component (source) | State | Operations | Interacts with | Hard | Correct when |
|---|---|---|---|---|---|
| Ring buffer `apps/mqtt/ringbuf.c` | read and write pointer, `fill_cnt` | Init, Put, Get | called by proto.c | wrap-around, full and empty | a bounded FIFO of bytes |
| Outgoing message queue `apps/mqtt/proto.c`, `queue.c` | frames in the ring; parser on the stack | `QUEUE_Puts`, `QUEUE_Gets` | mqtt.c's publish, task, receive | a frame refused half way stays; drop-oldest retry; parser field never initialised | a FIFO of whole messages; only named losses; loops end |
| MQTT client `apps/mqtt/mqtt.c` | `connState`, three counters, pending type, `pCon`, queue | Connect, Disconnect, Publish, timer, task, TCP/DNS callbacks, receive loop | SDK TCP, DNS, task queue of one entry, broker, Wi-Fi callback | lost wakeups, stale state after Wi-Fi loss, reconnect at any moment | state follows the connection; reconnects; queue drains; pings |
| MQTT packets `apps/mqtt/mqtt_msg.c` | buffer, 16-bit message id | build and read packets | mqtt.c | lengths 127/128, ids that wrap, id 0, ids over a reconnect | what is written is read back; ids are fresh |
| Firmware updater `apps/fota/*.c` | status, two connections, espconn blocks, request timer, answer buffer | start, tick, poll callbacks, download callbacks | SDK TCP, DNS, upgrade; two servers; jsmn | freed blocks still known to timers, stale answers, failed connections | one connection at a time; no leak or double free; only newer firmware; every attempt ends |
| esp_iot configuration life cycle `modules/config.c`, `user/user_main.c` | `config_status`, one `connectTimer`, smartconfig | Wi-Fi callback, three timer callbacks, restart | telnet server, protocols, smartconfig | one timer with three purposes; status written by two parties | offline device never unwatched; protocols follow the network |
| esp_iot telnet server `modules/telnet_server.c` | one `connData` (connection, transmit and receive buffer, `readytosend`) for all clients | connect, receive, sent, disconnect, reconnect callbacks, start, stop | config.c, telnet commands | clients share the state; send only after the previous acknowledgement | replies once, in order, and in the end |
| esp_iot telnet commands `modules/telnet_config.c`, flash `modules/flash_config.c`, Wi-Fi start-up `modules/wifi.c` | the configuration tree, one flash sector, the SDK's own network settings | get, set, save, restart, boot, smartconfig's update | telnet server, cJSON, boot | three stores written one after the other, power loss between erase and write; keys of odd shape | the board boots with what it can read; set changes one item and get agrees |
| esp_iot protocol manager `apps/protocol_manager.c`, `protocol_mqtt.c` | protocols, status, subscriptions in fixed tables | create, connect, send, receive, dispatch | MQTT client, applications | status only moves on callbacks; tables fill up; topics repeat | every application is subscribed on every connection |
| esp_iot applications `apps/app_*.c`, GPIO interrupts `modules/gpio_mod.c` | lamp and switch values, one-entry task queue | publish and receive values, interrupt, task | protocol manager, pins | a press while another value is on its way | all agree once quiet |
| SPIFFS `apps/spiffs` | look-up pages, data and index pages, counters, cursor, open descriptors, write cache | open to unmount, garbage collection, check | flash | pages that move under open descriptors, a nearly full volume, power loss in the middle | files hold what was written; counters agree; after a loss the check mends the volume |
| cJSON and jsmn `apps/cjson`, `apps/jsmn` | none beyond a call | parse, print | settings, updater | escapes, room for the printed text, nesting | what is printed is read back |
| Key driver `dev/driver/key.c` | level, two timers, armed edge | interrupt, debounce, long press | application | edge between reading and arming | waited for at the right edge |
| UART line receiver `examples/uart`, UART driver `dev/driver/uart.c` | line buffer | receive interrupt, task | application | interrupt overwrites a line not yet printed; runs before the start-up is done | the last line is printed as it came |
| I2C, SPI, MCP3221, GPIO16 drivers; `dev/utils`; example programs; `omath.c` | none of their own | bit banging; address parsing; demonstrations | | | |

The hazards behind the "hard" column, each at its line and with the property that covers it, are in
`PROJECT.json`.

## 2. How code becomes a model

One callback, timer expiry, task event or call is one action: its guard is when the SDK may call it, its
primed variables are all the assignments it makes, including those of the functions it calls. Six places
are finer, because something comes in between or their loops have results worth looking at: the byte loops
of proto.c (one byte per step; `pc` keeps everything else out), `mqtt_tcpclient_recv` in MqttClient (one packet per
step; `segment` keeps everything else out), `key_50ms_cb` (the interrupt preempts it between read and arming),
`os_printf` and the UART's receive handler (one character per step; the handler comes between any two characters of a print, with any number
of its own), and, in
Protocols, the loops over applications of `mqtt_connected_cb` and of `gpio_interrupt_cb_task` (one turn per step; `joining` and `rising` hold
what is left of the loop and keep everything but the interrupt out). SPIFFS calls are operators on a record of
the volume that count down to a power loss, so one step is one call with the power going before any of its writes or not at all.

Names are those of the source. Variables marked *history* in a module record what happened, are
read by no guard of the code, and exist for the properties. Bytes on the wire are abstracted to kinds and counts, except where the
module is about the bytes (MqttMsg, CJson, Jsmn, FotaUtil).
Definitions marked *Wrong variant* are plausible bugs of the definition that follows them; they occur in no
run and are what `PROJECT.json`'s mutants put in its place to see that a property notices.

## 3. Modules

```
BoundedFifo <== RingBuf          ringbuf.c implements the bounded byte FIFO     (proved for every size)
BoundedFifo <-- ProtoQueue       proto.c, queue.c are built on that FIFO
MsgQueue    <== ProtoQueue       ... and implement the FIFO of whole messages   (proved for every ring
                                                                and message set)
MqttClient                       mqtt.c, with the queue counted in messages, as MsgQueue promises it
AppBoot <-- Protocols            protocol manager, applications and GPIO over the client of mqtt.c
MqttMsg, CJson, Jsmn, FotaUtil, AppBoot, RingBuf <-- Codecs     everything that only computes
Settings                         configuration tree, flash sector, boot, smartconfig, telnet commands
Fota                             fota.c, fota-info.c, fota-firmware.c
TelnetServer <-- NetConfig       telnet_server.c inside the life cycle of config.c and user_main.c
SpiffsNucleus <-- SpiffsObjects <-- SpiffsCheck, SpiffsApi <-- Spiffs     the file system and its callers
Key, Uart <-- Inputs             two interrupt handlers beside timers and a task
```

* **RingBuf** — `p_r`, `p_w`, `fill_cnt` as indices (from `p_o`) and counts, one action per function, wrap-around by
  comparison as in the code. `RingIsFifo` is the refinement of **BoundedFifo** (mapping: the `fill_cnt` slots
  from the read pointer on).
* **ProtoQueue** — `QUEUE_Puts` for the publish calls (which drop the oldest message and try again) and for
  replies in the receive callback (which do not), `QUEUE_Gets` for `MQTT_Task`. PROTO_AddRb writes byte by byte and
  stops at a full ring, leaving half a frame; PROTO_ParseRb reads until a frame is complete or the ring is
  empty. `isBegin`, which `PROTO_Init` does not set, starts as "junk" and reads as either value.
  `QueueKeepsMessages` is the refinement of **MsgQueue**.
* **MqttClient** — all six connection states, `keepAliveTick`, `reconnectTick`, `sendTimeout`, the pending type, DNS with `client->ip` (an answer that is not used is `tcp` = "ignored"), connect, disconnect, reconnect, sent
  and receive callbacks, the one-second timer, the task, `MQTT_Connect` and `MQTT_Disconnect` as
  `wifiConnectCb` of `examples/mqtt` calls them, and its publishing. Message contents are their packet types.
* **AppBoot** — `parse_config_for_app` (from the characters of the list of names to the settings they name) and `create_protocol_app`, as functions up to the tables of
  protocols and applications, with the limits of all three tables and the ways in which names, servers, ports, users and passwords can clash.
* **Protocols** — the booted board at work: status of each protocol, connect and subscribe on every CONNACK, publish and dispatch by topic (with `#`), lamp, switch and
  switch-lamp values, the GPIO interrupt with its one-entry queue, over a client reduced to what its applications see: connection state, queue, packets under way.
  Any number of clients shares the one task queue.
* **MqttMsg** — every function of `mqtt_msg.c` on packets as byte sequences, with `message_id` as the memset of `mqtt_msg_init` leaves it. The width of a byte and of an id are
  constants, so that their ends come within TLC's reach while the code's arithmetic stays.
* **CJson, Jsmn** — parser and printer of cJSON (strings with escapes and UTF-16 pairs, integers, arrays, objects, the computed room) and the token parser of jsmn with its links to the
  parent, character by character. What the code does by recursion is a function of the depth that is left, up to `Nesting`, and loops over characters are functions of the place, so that the
  modules can be proved about.
* **FotaUtil** — `parse_fota` on jsmn's tokens with its counting of keys, and `convert_version` one character per step with its `int8_t` result, against reference definitions.
* **Codecs** — the parts above that only compute, together: a behaviour calls the ring, writes one packet after the other, or looks at one input.
* **Settings** — the tree by path, set, get, delete and save with `config_parse`'s walk, `CFG_save` as erase and write, `CFG_read`, the boot (in both builds, with and without
  `CONFIG_IN_FLASH`), smartconfig's three writes, `WIFI_Connect` against what the SDK remembers; the power goes between any two of them.
* **Fota** — start with a VERSION that converts or not (`installed` 0), both connections with the address of their espconn block, the heap of blocks, `status`, the
  request timer with the address it holds, the answer buffer with its length (including "-1, headers not finished"),
  `up_server` dangling after its free, the SDK's updater and the reboot.
* **TelnetServer** — the five callbacks over the shared `connData`; a reply is a number of `espbuffsent`
  calls, its pieces are numbered as they are accepted, and `wire` is what the SDK got.
  It has no specification of its own; **NetConfig** composes it with `wifiConnectCb`, the three timer callbacks, smartconfig,
  server start and stop, telnet restart and the station's event queue.
* **SpiffsNucleus, SpiffsObjects, SpiffsCheck, SpiffsApi** — spiffs function by function, as operators from a context to a context (flash, RAM structure, result, and
  the flash as it was before every write); failures propagate as the source's early returns do. **Spiffs** has the callers: what they may expect of every name (`files`), which
  descriptor is open for which, and the power loss.
* **Key, Uart** — `dev/driver/key.c` for any number of keys; the line receiver of `examples/uart` from reset on. **Inputs** composes both on one board.
* **MCProtoQueue**, **MCProtocols**, **MCSettings**, **MCCodecs**, **MCSpiffs** give the constants that are records or sequences; the other runs take the
  specification itself with their values in the `.cfg`.
* **Codecs_proofs** (RingBuf, CJson, Jsmn and the version of FotaUtil), **Mqtt_proofs** (MqttMsg, ProtoQueue and MqttClient), **AppBoot_proofs**, **Fota_proofs**,
  **NetConfig_proofs**, **Settings_proofs**, **Protocols_proofs**, **Inputs_proofs** — section 7. Codecs_proofs and Protocols_proofs build on AppBoot_proofs.

## 4. Runs and bounds

| Run | Instance | Shows |
|---|---|---|
| `queue` | ring of 7 bytes, five messages with frames of 2 to 8 bytes: empty, plain, escaped, mixed, one that never fits | reading always starts at a frame start, so the uninitialised flag is harmless (`ReadsFromFrameStart`); the FIFO of messages (`QueueKeepsMessages`); the retry loop ends (`HandlersReturn`). Seven bytes hold two or three small frames, or a head of one that does not fit |
| `client` | keep-alive 2, reconnect 1, send timeout 3 ticks; 2 queue slots; 2 packets in and 2 out under way; five packet types, one per branch that queues differently | `StateMatchesConnection`, `NoLostWakeup`, `DataOnlyAfterConnack`; `Reconnects`, `QueueDrains`, `KeepAlivePings` under section 5's fairness. Different timeouts make the counters pass each other in every order; two packets make segments of one and of several |
| `protocols` | a board with a switch and the lamp it switches, one with a switch-lamp that listens to a whole room; 2 queue slots, 2 packets unacknowledged, 2 from the broker | `AllSubscribed`, `Settles`, `StatusFollowsSession`. The two boards have a publisher and a receiver on different topics and one application that is both; two slots fill up with a subscription and a value |
| `codecs` | bytes of 16 values, 7 ids, buffer of 28, window of 6; ring of 4 slots; trees of at most 4 levels with every kind of value and escape; all texts of up to 4 of 7 characters and of 5 of 5 for jsmn; answers with their four names in every order, one missing or of another kind, among other keys; versions of up to 4 of 8 boundary parts; four lists of applications with every mix of five settings each, some of which differ in the port or the password only | `FreshIds`, `ReadsWhatItWrites`, `TreesRead`, `AnswersRead`, `AppsBooted`, `RingIsFifo`. With 16 values a length needs its second byte at 8, ids their second byte at 16; 7 ids wrap within the window |
| `settings` | one lamp, one network; eight keys of every shape; texts, numbers and several words; sector of 4 items, at most 4 in the tree | `ReadableAtBoot`, `StationStaysLearnt`, `SetChangesOneItem`. A command may add to a tree of four items, so a text is larger than the sector, too |
| `fota` | 2 blocks, installed version 1 or malformed, offers 1..3, refusals allowed | `StatusMatches`, `OwnedBlocks`; `PollEnds` and `DownloadEnds` under fairness. Two blocks let an address be reused while another is live; three versions give older, equal and newer offers, and a second upgrade |
| `net_config` | 2 telnet clients, buffer of 1 piece, replies of up to 2, 2 pieces per connection, 2 Wi-Fi events under way | `TimerFollowsPhase`, `ProtocolsFollowNetwork`, `RepliesInOrder`, `KeepsClients`; `RepliesDrain`, `SmartConfigStarts` under fairness. A buffer of one piece is empty, full and refuses; two events reach `wifiConnectCb` after the station has changed again |
| `spiffs` | 4 blocks of 4 look-up entries, data pages of 2 bytes, 1 page in the header's index and 2 in others, 2 descriptors, 3 cache pages, 2 names, writes of 1 and 3 bytes; an empty volume and two nearly full ones; 4 calls | `FilesKept`, `DescriptorsRead`, `CountersAgree`, `Sound`. Three bytes span two data pages, the second of which needs a second index page; the nearly full volumes make garbage collection run in the first or second call |
| `spiffs_power` | the same, 3 names, 2 calls, 2 power losses before any write, also of the check | `Mended`, `LostNotCorrupted`, `LosesOneAtMost` |
| `inputs` | one key; two characters, buffer of 3, queue of 2 events, lines of up to 4 characters | `KeysFollowed`, `LastLineShown`. Lines are shorter than, as long as and longer than the buffer; two events overflow; a second key does the same beside the first (proved for any number) |
| `fota_stuck`, `settings_lost` | as the run they belong to, `fota_stuck` without refusals | violations, section 8 |

Every bound is a constant named in its module. Those of the environment (`InboxBound`, `InFlightBound`,
`EventBound`, `PieceBound`, `ReplyBound`, `WireBound`, `MaxVersion`, `ItemBound`, `LineBound`, `MaxCalls`, `MaxLosses`) only limit how much happens at a time;
the safety theorems of section 7 hold for every value of them.
`CHECK_DEADLOCK FALSE` is set for the updater, which really may stop (section 8: `fota_stuck`, and a refused
connection), for `codecs`, where a behaviour ends with its input, and for spiffs, where it ends with the last call.

Larger instances that were tried beside these: one power loss in four calls (294 000 states) passes, and so do two clients with a lamp each on the one task
queue, with the three bounds of `protocols` at 1 (4.1 million states). Three calls with
two losses violate `Mended`: a caller that goes on after a check that met a failure meets it again.

Three constants narrow what the code can meet, because some property does not hold otherwise:
`MaySendFail` is FALSE in `net_config` (`espconn_sent` refuses although the
connection is open; then `RepliesDrain` fails, and `RepliesInOrder` excepts it); `AuthModeChanges` is FALSE (an access
point that changes its security mode, which `wifiConnectCb` takes for a loss); the theorems hold for both values of both. `Careful` is TRUE
in the spiffs runs: callers avoid the orders of calls of section 8's list that damage their own files.

## 5. Fairness

Only the SDK is assumed fair, never a server, a broker, a user, or the radio.

* `ProtoQueue`: a loop that was entered goes on; it runs inside one handler.
* `MqttClient`: the receive loop goes on; the task, the armed timer and sent callbacks are served. This is strong
  fairness, because the steps of one receive callback disable the others until it returns, which no SDK
  scheduling does forever. `QueueDrains` and `KeepAlivePings` are about behaviours that are `Timely`: the one-second timer does not for ever run out
  while a posted event waits, which is served within microseconds.
* `Fota`: the SDK answers lookups, settles connection attempts, fires armed timers, acknowledges or fails a request,
  closes what it was told to close, and calls `check_cb` after `check_times`. Servers need not answer or close.
* `NetConfig`: the SDK fires the armed timer, delivers the station's events, and reports the packets it took as sent
  while the connection lives. The station need never get an address.
* The other modules state safety only; what must come about in them (a lamp that shows the last value, a volume that is mended, a line that is printed) is
  stated for the states in which nothing is under way.

## 6. What is assumed of code outside `src/`

* `espconn`: a freed block gets no more callbacks; a freed block that was not reused keeps its contents, and its
  memory may be handed out again; `espconn_sent` copies its data and is accepted when nothing is outstanding (where `MaySendFail` is FALSE);
  `espconn_connect` is accepted while Wi-Fi is up (MqttClient; Fota has the refusal as `MayRefuse`);
  `espconn_disconnect` on a listening block does nothing, `espconn_delete` refuses while the listener has clients;
  what listening on a freed block does is left open (it may work or not).
* DNS calls back for every lookup. The call itself may already put an address it knows where it was told to, which is `client->ip` in `MQTT_Connect`, and the address
  that is called back with may be 0.
* The task queue of the MQTT client has one entry; a post to a full queue is lost, and equals the one that waits.
* Answers of the version server parse to a version or not (Fota); the parsing itself is in FotaUtil.
* The broker's packets are whole in their segment, and a segment too long for `mqtt_tcpclient_recv` acts like one that starts with a packet it ignores.
  The broker keeps no session and no retained messages (the client asks for a clean session).
* Telnet lines fit `rxbuffer`, formatted replies fit `txbuffer`'s free space or are refused.
* Flash: a write of one page, or of one look-up entry, happens or does not, and only clears bits; an erase is whole. (`spiffs_phys_cpy` copies a page 64 bytes at a time; a half copy
  still has a free look-up entry, which the check drops like any page without an owner.)
* Memory allocation succeeds, except where a module says otherwise.
* A GPIO interrupt whose edge comes while another is served stays latched; the boot ROM leaves the UART's write position anywhere in the buffer.

## 7. What is proved

TLAPS checks these for every value of the constants, under the ASSUMEs of the modules; no fairness is used. The ASSUMEs say: sizes and timeouts are
naturals of the stated ranges; the null value is no address, client or key; texts are bytes (MqttMsg, and without the 0 that ends them the versions and the lists of
names in Codecs, which are given as what stands between the dots and between the spaces); the default configuration and what the telnet commands name are
trees and keys (Settings); the switch-lamps of a board got a protocol and do not send to a wildcard, and no two applications of a board share a pin (Protocols: a
switch-lamp without a protocol shows what nobody is told, one that sends to `#` publishes to a name brokers refuse, and of two applications on one pin
the interrupt finds only the first).

| Module | Theorems | Argument |
|---|---|---|
| Codecs_proofs | `RingTypeCorrect`, `RingPointersAgree`, `RingImplementsFifo` | `RingInv`: the pointers lie in the buffer and the write pointer is `fill_cnt` slots ahead of the read pointer, with wrap-around. The refinement shows that each function maps to the FIFO's operation: the slots from the read pointer on, read through the wrap, are the queue |
| | `TreesAreReadBack` | every tree cJSON prints, indented or not, is parsed to itself, whatever its depth, width and characters, as long as its numbers are integers and its depth is within `Nesting`. Section 7.1 |
| | `TokensAreNested`, `TextsAreCut` | `ParserFits`, an invariant of the characters read so far: every token lies before the place that has been reached, stands for its part or is a container that is open at its own bracket (`Placed`), and of two tokens the later one lies behind the earlier or inside of it (`Follows`). A closing bracket goes to the innermost open container, so what lies between is closed; a string or primitive moves the place behind itself (`EndQuoteIs`, `PassOverIs`). Every sequence of brackets, quotes and separators is a possible text |
| | `VersionsAreRead` | the reading before and after each part of a version (`BeforePart`, `AfterPart`): failed if a part so far is no byte, the number of the parts so far, or decided for good (`StaysDecided`). Within a part the value only grows, so a limit checked at every digit is the limit of the whole number (`SmallIsByte`), and no number of digits wraps around into a small one |
| | `AppsAreBooted` | from `NamesAreRead`, that the names found have settings of the tree (`ConfigsAre`), and `BootsAreSound` |
| AppBoot_proofs | `NamesAreRead` | word by word: when no name is one character long, nothing is left over in front of the next name, and the names so far are as many as the words so far that are not empty, each at its rank (`OneMoreWord`). What a one-character name leaves is a space in front of the next (`NextNameIs`) |
| | `BootsAreSound` | by least counterexample over the list of settings: each application leaves sound tables (`BootInv`), whether it finds its client, creates one, clashes or exceeds a table |
| Mqtt_proofs | `QueueTypeCorrect`, `QueueReadsFrames`, `QueueOwesEnds`, `PublishFailsDrained` | the invariant says, for every position of every loop, what precedes the write and the read end: a frame start follows every end byte, data bytes are never special, and the number of end bytes is that of messages owed, less the one just read. Without the part about where a half-written frame stands, neither survives a refused put |
| | `QueueImplementsMsgQueue` | the refinement of MsgQueue. Instead of recursion over the ring's bytes, each byte is annotated with what the parser will hold behind it and with the number of ends it has passed (`Decodes`); the annotation starts where the parser is, ends where the writer is, and at each end it holds the next message of the queue. A put or a get of one byte adds or takes one annotation; only the end byte of a frame is a step of the queue of messages, every other step a stutter |
| | `ClientTypeCorrect`, `ClientStateMatches`, `ClientNoLostWakeup`, `ClientDataAfterConnack`, `ClientDequeuesConnected` | `ClientInv`: the two invariants and `OnlyOpenIsBusy` (without an address no live connection; only an open one has packets under way or a CONNACK behind it; only names are looked up), needed because the callbacks look at `connState` only. The action properties follow from it step by step |
| | `IdsAreFresh` | `IInv`: the ids of the last `Window` packets lie behind `message_id` on the circle of ids without 0, the n-th last one n - 1 places, whether or not the end of the circle lies between; a window smaller than the circle then has no id twice. That a reconnect keeps the counter is what makes it hold over several connections |
| | `PacketsAreReadBack` | a packet is a head and a body (`IsPacket`): the head's one or two length bytes say how long the body is, whatever the size of a byte, and where it starts, also in a part of the packet (`LengthRead`). What each function appends stands at the places where the getters look (`HoldsPublish`, `PublishRead` for any cut of a PUBLISH). The texts of a CONNECT are read one after the other: each step finds the text that was appended (`TextFound`) if and only if its flag is set (`FlagBits`) |
| Fota_proofs | `FotaTypeCorrect`, `FotaStatusMatches`, `FotaUpdaterHasConnection`, `FotaOwnedBlocks`, `FotaUpgradesForward` | `FotaInv`: the properties together (the status means something from the moment the periodic timer is armed; before, no connection exists), a block exactly per connection that is in use, and that what a running updater installs is newer than what runs: the comparison was made two callbacks earlier on a number that nothing changes until then |
| NetConfig_proofs | `NetTimerFollowsPhase`, `NetProtocolsFollow`, `NetReadyUnlessOutstanding`, `NetRepliesInOrder` | `NetInv` adds what the queue of events says about the station (a station that got its first address has its event coming; when it is down, the last event is the loss) and that a status NOTHING means protocols stopped, although telnet callbacks write the status. `ServerInv` adds that a client that is alone is the only one linked, so the callback that makes ready is its own; the reply theorem then is associativity of concatenation |
| | `NetKeepsClients` | `StatusTells`: while a client has `connData` for itself, the status says so, unless Wi-Fi changed since it came; the stop timer looks at the status only |
| Settings_proofs | `BoardCanBoot`, `LearntIsKept`, `SetIsExact` | `SettingsInv`: every tree that is held, loaded or on its way to the sector is a tree (`TreesHold`), what a save under way has erased it still holds (`SaveHolds`), and the SDK holds the network learnt last (`SdkHolds`). `SetIsExact` follows the walk of `get_parent_by_key` through any tree with any key, whatever stands in its way |
| Protocols_proofs | `TopicsAreSubscribed`, `AppsShowTheLast`, `StatusIsRight` | one record per client; a lemma for each move of a message (queue to wire, wire to broker, broker to segment, segment to applications) says what it does to everything the invariant mentions. For a topic: subscribed, or its SUBSCRIBE queued or on the wire, or the application's turn in the loop of `mqtt_connected_cb` to come, or a message was dropped. For a switch-lamp that publishes and listens: it agrees with the broker, or the PUBLISH of its own that is still to come back stands behind its own subscription (`Echo`) and settles it |
| Inputs_proofs | `KeysAreFollowed`, `LastLineIsShown` | `IInv`: a key waits for no edge exactly between its release and the end of `key_50ms_cb`, nothing else is under way for it then, and the history `missed` says while a change cannot be noticed whether the key is still what was read. `UartInv`: what the buffer holds of the line that is being received, copied or printed, at every character of either loop |

Type correctness of these modules, and the properties of the theorems that no run names (`PointersAgree`, `OneEndPerMessage`, `GivesUpOnlyWhenDrained`,
`DequeuesOnlyWhenConnected`, `UpdaterHasConnection`, `UpgradesOnlyForward`, `ReadyUnlessOutstanding`), hold for every value of the constants and are not checked again in runs.

### 7.1 Printed trees

`TreesRead` says three things of a tree: both texts have the lengths that were computed as room, and the parser makes of either text exactly that tree. The proof has four layers.

* *Characters.* A character of a string that was printed, whichever of its escapes it got, stands at its place in the text (`Starts`), and `parse_string` gets from that place to the place behind it and
  appends the character; `\u` with its four digits is computed forth and back (`HighHalf`, `LowHalf`). A string is then walked in step: n characters read, n pieces passed. Numbers are read
  digit by digit, the value so far being the number without its last digits.
* *Loops.* A walk of the model is a recursive function over the places of a text. That such a function exists (a CHOOSE of it is one) is proved by taking the union of its finite beginnings;
  that something holds at all of its places by least counterexample, `WFMin` on the naturals.
* *Trees.* `ItemsTo[n]` are the trees of at most n levels. If the trees of a level are printed in their room and read back, in front of whatever follows them and at any depth of indentation,
  then so are the lists of them that stand between brackets, member by member, and so are the trees one level higher.
* *Levels.* The least level at which it fails would be one behind a level at which it does not.

### 7.2 Only model-checked

* Everything with `~>` or fairness: liveness and ENABLED are beyond the prover here.
* The invariants of Spiffs and SpiffsPower: calls of calls of loops over a volume, written with RECURSIVE operators, where the prover has no SMT backend.
* Of `AnswersRead` the tokens of jsmn for every printed tree (`TokensFollow`) and what the updater makes of the tokens of an answer (`ReadsAnswer`); what it makes of
  the version in it, `VersionsRead`, is `VersionsAreRead`; what holds of the tokens of any text, `TextsCut`, is `TextsAreCut`.

## 8. Findings and differences

Runs that fail, each on a sentence of the repository:

1. `fota_stuck` — `fota-firmware.c:77` leaves the clean-up after a broken connection to `upgrade_response`. If the download server is never
   reached, the updater was never started, nobody calls `upgrade_response`, and the status stays GETTING_FIRMWARE: no further poll until a reset.
2. `settings_lost` — `telnet_config.c:106` says that `save` stores the configuration "for later used". `user_init` (`user_main.c:129`) saves the default
   configuration at every boot before the sector is read, and without `CONFIG_IN_FLASH` the sector is not read at all.

Differences met without a run of their own: nothing in the repository promises the opposite, a property
excepts exactly that case, or the run that would show it was left out to keep the list short.

Updater and network:

* a poll whose connection closes before its headers are complete is evaluated on the body of an earlier poll, although `fota-info.c:96` takes the
  length -1 for "not finished" (`fota-info.c:42`);
* `request_timeout` is not disarmed when the poll ends; it can fire during the download, whose espconn has got the same memory, and close it (`fota-info.c:170`, `:123`);
* a VERSION that does not convert leaves `is_running` at 1 without the periodic timer: the client never polls until a reset, and the status of a structure of zeros reads POLLING (`fota.c:110`;
  `StatusMatches` and `PollEnds` are about an updater that got beyond it);
* a refused `espconn_connect` is only logged; the poll stays POLLING for good (`fota-util.c:173`; the exception in `PollEnds`); a failed lookup leaks one espconn per poll (`fota.c:31`; the exception in `OwnedBlocks`);
* a body of exactly 200 bytes gets its terminator behind the buffer (`fota-info.c:119`); a version whose last number is 128 or more counts as a failure (`fota-util.c:138`);
* a comma outside of every container makes jsmn look at `tokens[-1]` (`jsmn.c:243`); whatever it finds there has no effect;
* `parse_fota` does not undo JSON escapes, takes four occurrences of one key for all four, and with "last" as the last token reads stack contents;
* with two telnet clients, one's callback or connect makes the shared `readytosend` true while the other's packet is outstanding, against `telnet_server.c:60` (`:76`);
* a refused `espconn_sent` leaves `readytosend` false until the next connection (`telnet_server.c:27`); half a telnet line prefixes the next client's first
  command (`:122`); a full `rxbuffer` is written on (`:98`);
* `stop_telnet_server` does nothing while a client is connected and is not armed again (`config.c:87`); after it freed the server, the next address starts
  it on freed memory (`telnet_server.c:171`, `user_main.c:42`, against `config.h:57`);
* a changed security mode of the access point stops the protocols although the network stays (`user_main.c:37`).

MQTT and applications:

* `mqtt_dns_found` does not use an address of 0, nor any address when `client->ip` already holds one, which nothing clears: no connection is opened, and the client stays in TCP_CONNECTING
  with nothing to call it back until Wi-Fi changes (`mqtt.c:69`; the exception in `StateMatchesConnection`);
* TCP_RECONNECT is set before a post that another client's event may lose, so with two clients one may stay there (`mqtt.c:299`, `:369`);
  `connState` waits for a CONNACK without a timeout (`:354`), the CONNACK's return code is not looked at (`:137`), results of espconn calls are ignored (`:614`),
  and a segment is discarded behind a packet that is not PUBLISH (`:221`);
* a PUBLISH of QoS 1 or 2 with an empty payload is read back with id 0 and acknowledged with an invented one; `mqtt_get_publish_data` returns NULL with `*length` whole for such a packet and `deliver_publish` passes both on;
* `message_id` survives a reconnect only because the memset clears as many bytes as a pointer has (`mqtt_msg.c:130`);
* `lamp_create` and its siblings free the key string of the configuration on error; applications keep pointers into the tree that telnet's delete frees;
* a press is lost when the one-entry GPIO queue is full (`gpio_mod.c:99`).

Settings:

* `CFG_save` erases before it writes; `WIFI_Connect` prefers the SDK's network, so telnet's `set wifi_ssid` has no effect once one is known;
* `get nope/x` answers the root's x while `set` refuses; items below a scalar are seen by `get` but neither printed nor saved; `config_parse` loops on a line
  longer than 255.

SPIFFS (line numbers of `spiffs_nucleus.c` unless named otherwise):

* opening an existing empty file with TRUNC writes the stale work buffer as its header (1597–1602); `SPIFFS_lseek` to 0 of an empty file, or to an index page's boundary at the end, fails;
  the first append that meets a full volume reports 0 bytes written; `SPIFFS_rename` never gives its descriptor back;
* removing a file that is open elsewhere with a cached write leaves the cache page, whose bytes go into a new file; a DIRECT write after a cached one of another descriptor is overwritten at
  the flush; close, unmount and read ignore a flush that fails (`spiffs.h:382`);
* `SPIFFS_readdir` skips a header in the last entry of a block behind another header, and does not end when both stand at the end of the last block;
* orphaned index pages that were finished are never deleted, although `spiffs_check.c:9–12` says so; a data page whose index is missing makes garbage collection fail with NOT_FOUND;
  `spiffs_gc_check` answers FULL although deleted pages could be reclaimed (`spiffs_gc.c:117`); a full page that cannot be allocated in `spiffs_object_modify` goes unnoticed;
* a power loss while garbage collection moves a header makes the check delete a file that was not involved (`spiffs_gc.c:450` against `spiffs.h:445`; `LosesOneAtMost` bounds it); one during a
  truncation leaves the old size; a second one inside the check's copy of a page leaves a page of two objects;
* `SPIFFS_check` drops the results of its parts (`spiffs_hydrogen.c:850`), the page check may restart for ever on some volumes (not on those met here), and `spiffs_check.c:291` clears the wrong
  variable and goes on with an uninitialised one (a nondeterministic value in the model).

Key and UART:

* nothing in the repository calls `key_init`; a change between the latched edge and its handler, or between `key_50ms_cb`'s read and its arming, is missed (`missed`), and a long press is followed by a short one on release;
* lines that end before the receive task exists are lost; a line of exactly `RX_BUFF_SIZE` characters prints as an empty one and a longer one as its end; the next line overwrites the one being
  printed, which may then run on behind the buffer.

Other: `UTILS_StrToIP` takes text with more than an address in it for an address; `UTILS_IsIPV4` compares a `uint8` with 255; `app_send`, `UTILS_Atoh` and the
telnet update (`OTAENABLED`) are not used by any build in the repository.

## 9. Not modelled

* Bit-banging drivers (I2C, SPI, MCP3221, GPIO16) and register set-up: no state that interleaves.
* `dev/utils`: three functions on one string, only one of which has a caller.
* The small example programs (they call the SDK and the components above in a straight line), `omath.c` (doubles).
* MQTT: TLS; a second client in the runs (the model of Protocols has it; section 8 says what happens).
* Updater: texts of requests and headers. Telnet: lines longer than `rxbuffer`, replies longer than `txbuffer`, the texts of replies.
* Protocol manager: deleting a protocol (no caller), OTA by telnet (not compiled). `config.c`: access point mode (never entered).
* SPIFFS: the read cache (reads go to the flash, with which its copies are meant to agree), compaction of ids (needs more files than ids), `SPIFFS_open_by_dirent`, `SPIFFS_stat`, `SPIFFS_errno` and the visualisation,
  truncation to a size other than 0 (no caller), page copies that stop half way.
* cJSON: fractions, and the parts of its interface nothing calls.
* Bytes written behind a buffer, which are outside what a model of the variables can say.

## 10. Plan

Done: the components of section 1 with a module; the proofs of section 7. Left, most useful first:

1. A board with two clients in Protocols, with the properties weakened for a client that stays in TCP_RECONNECT; two clients and a full queue at once.
2. The tokens of jsmn: `TokensFollow` and `ReadsAnswer` by induction over the levels of the tree, as `TreesAreReadBack`; FIFO order of the sent callbacks in MqttClient.
3. An abstract file store that Spiffs implements, so that `FilesKept` becomes a refinement; the read cache.
4. Liveness of Protocols: a value that was published is shown in the end while the connection lasts.
