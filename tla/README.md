# TLA+ models of the YKP v5 platform

The YKP repository holds an ESP32 firmware (`esp32-firmware/main`), a router
and REST server (`render-backend/src`), a web dashboard (`web-dashboard/src`)
and an Android app (`ykp-smart-control`). A device keeps one WebSocket to the
server, authenticates on it with an ECDH handshake, and then exchanges small
binary packets: relay commands down, acknowledgements and reports up.

This directory models the part the rest stands on: the handshake and session
at both ends, the replay protection in front of every packet, the server's
record of who is connected, the encoding of payloads and packets, how the
device gets its configuration, gets online and stays there, its firmware
update, its retransmission and UDP protocol, and the JSON library and the
WebSocket client it is built with. `PROJECT.json` maps every definition to the
source lines it stands for.

To check a module: `tlc -config LinkRotation.cfg MCYkpLink`; to check proofs:
`tlapm ReplayProofs.tla`.

## 1. Inventory

| Component | State | Operations | Talks to | Hard because | Correct when |
|---|---|---|---|---|---|
| Replay protection (`ykp_replay.c`, `replay-guard.ts`) | highest id, bit mask of the last 64 ids | check, reset | called by both receive handlers | shifts at word size; two implementations that must agree | an id is accepted at most once per session; nothing else is refused |
| Device session (`ykp_session.c`, `main.c`) | state, session id, packet counter, rotation flag, start time, keys | connect and disconnect events, CHALLENGE, SESSION_ACTIVE, KEY_ROTATE, commands, rotation, button | server over WebSocket; services by call | three tasks share it without a lock; every call can fail and most results are ignored | a due rotation happens; an active device has the server's session |
| Server router (`ykp-router.ts`, `session-manager.ts`, `route-engine.ts`) | sessions and connections by device id, a closure variable per socket | HELLO, ECDH_RESPONSE, data packets, close event, outbound packets | devices, database, presence, REST API | handlers stop at `await` and go on in a changed world; sockets of a device overlap | the two maps agree; a connected device stays reachable |
| Presence (`presence-engine.ts`) | interval per device, `is_online` column | markOnline, markOffline, heartbeat | called by the router; writes to the database | writes are applied in any order; close during an await | connected devices end up online, disconnected ones do not |
| Payload codec (`ykp_cbor.h`, `ykp_packet.c`, `builder.ts`, `parser.ts`) | a byte buffer | add a field, finish, find, read | every service on both sides | fixed buffers, two languages, length classes | what one side wrote whole the other reads back |
| Packet framing (`ykp_packet.c`, `parser.ts`, `ykp_security_decrypt`) | packet pool, static and stack buffers | set payload, serialise, parse, decrypt | sessions | lengths in 16 bits, four buffers of different size | nothing stored or read beyond a buffer; what the device sends the server accepts |
| Security (`ykp_security.c`, `ecdh.ts`, `aes-gcm.ts`) | key pair, session key | generate, derive, sign, encrypt | sessions | partial failure | both ends derive one key |
| QoS engine (`ykp_qos.c`) | slots of pending packets, retry timer | enqueue, ack, pubrec, pubcomp, tick | WebSocket task, timer task, application | three tasks and no lock | no packet retried for ever, none much after its acknowledgement |
| OTA (`ota_service.c`, `api/ota.ts`) | expected chunk, hash, partition and handle | BEGIN, CHUNK, COMPLETE, INSTALL | server packets, flash, boot loader | failure, loss or power cut between chunks; hash results nobody looks at; rollback | the device can always boot; what it calls verified is what was announced |
| Relay, sensor, health services | relay state, timers | commands, reports, button | device session | button task against receive task | the reported state is the relay's |
| Connection manager, WiFi, boot (`main.c`, `wifi_manager.c`) | WiFi state, failure count | connect, events, watchdog, restart | WebSocket client | events handled late, nobody reassociates | once nothing goes wrong the device is connected for good |
| WebSocket client (`esp_websocket_client.c`, `ykp_websocket.c`) | client state, transport, ping and close flags, `s_connected` | start, connect, ping, receive, send, abort, close | server; `main.c` by events | events run in the task that causes them; a flag and a state read without the lock; a second task beside one that ends | the flag tells the truth; HELLO goes first |
| JSON library (`cJSON.c`) | items linked by next, prev and child, references | create, add, insert, replace, detach, delete, parse, duplicate | BLE commands | pointer surgery with failing allocation half way | lists keep their order; every item has one owner |
| BLE provisioning (`ble_provision.c`, `nvs_config.c`, `YkpBleProvisioning.kt`) | session struct, certificate buffer with its mutex, queues, NVS keys | JSON commands, scan, validate, confirm | app over GATT, NVS, restart | tasks that outlive their session, power lost between writes | a device runs with values that belong together; what was confirmed is stored; nobody waits for ever |
| UDP transports, discovery (`legacy_udp.c`) | session, last counter, rate window | PING, encrypted command | LAN, relay | repeated and delayed datagrams, restarts that forget all but the key | a command is executed once and not after its session |
| Server services, automation, event stream, REST | database rows, subscribers | store, evaluate rules, notify | database, dashboard | rule evaluation on stale rows | - |
| Dashboard, app repository, view model, screens | caches | poll, subscribe, optimistic update | REST, event stream | a late answer over a newer one | the cache converges |

The hazards this leads to are listed in `PROJECT.json`, each at its line with
the property that covers it or a note that says why none does.

## 2. Modules

| Module | Models |
|---|---|
| `ReplayOps`, `ReplayIds`, `ReplaySpec` | what replay protection promises: `Fresh`, and the state machine around it |
| `ReplayWindow` | `ykp_replay.c`: the 64-bit mask as the set of its set bits; a shift drops what leaves the word |
| `ReplayGuard` | `replay-guard.ts`: a BigInt mask that keeps every bit, and a flag for the first packet |
| `ReplayAgreement` | both on one stream of ids |
| `YkpMessages` | packets as records; key pairs as numbers |
| `DeviceSession` | the firmware's session with its three tasks, one access to what they share a step; `MCDeviceSession` closes it with a server that sends anything |
| `ServerRouter` | the server's handlers; `RouterDevices` closes it with devices that send anything |
| `YkpLink` | `DeviceSession` and `INSTANCE ServerRouter` over WebSocket connections |
| `PresenceEngine` | presence with its database writes |
| `TlvCodec` | builders and readers of payloads, in bytes |
| `PacketFraming` | over `TlvCodec`: a payload into a packet and out of it on the other side, the device's buffers and 16-bit lengths, frames of unknown origin; `MCTlvCodec` instantiates both |
| `WsClient` | `esp_websocket_client_task` with its lock, in as many tasks as are started, `ykp_websocket.c` and `on_ws_connected`; another task that sends |
| `Connectivity` | WiFi manager and connection manager over `WsClient`, with the network's and the server's faults |
| `OtaUpdate` | `ota_service.c` on two flash partitions with the boot loader and its rollback |
| `QosEngine` | `ykp_qos.c`, three tasks, statement by statement |
| `LegacyUdp` | `legacy_udp.c` with the relay, across restarts |
| `BleLines` | BLE writes to command lines |
| `DeviceServices` | the last four side by side: they share no state, so a behaviour follows one of them |
| `Provisioning` | `ble_provision.c`, `nvs_config.c` and the boot that reads what they wrote; `MCProvisioning` names the symmetry for TLC |
| `JsonLists`, `CjsonTree` | what the tree functions of cJSON promise (a sequence of children per item), and the pointers that implement it |
| `ReplayProofs`, `RouterDevicesProofs`, `DeviceSessionProofs`, `PacketFramingProofs`, `DeviceServicesProofs`, `ConnectivityProofs`, `ProvisioningProofs`, `CjsonProofs` | theorems and their proofs |

An operator under a comment that begins with "Fault:" is a wrong variant of
the definition after it, kept to see that a property can fail; no
specification uses it.

**How the state corresponds.** `DeviceSession`'s variables carry the names of
the fields of `g_session`, `g_sec_ctx` and `g_replay`. A step is one
access to what the tasks share: `pc` says where a task is between two of them,
`back` where it goes on after `ykp_session_next_packet_id` (load, store, two
checks, two stores of the flag), `ykp_session_reset` (six stores) or
`ykp_session_set_active` (five), and `loaded` what it has read of the counter.
Only the WebSocket client's own lock orders them: callbacks hold it, and so does
a send with the DISCONNECTED callback it runs when it fails (`InCallback`). Time
is `age`: a session is recent or 30 minutes old. `CallOutcomes` says whether
calls may fail; every place where the code goes on or returns after a failure is
a disjunct. The end of a connection is `on_ws_disconnected` (a transport error, a
ping without answer), which resets the session, or `CloseFrame`, which does not.

`ServerRouter` has one action per stretch of handler between two awaits;
`suspended` holds the handlers that wait with what they captured. The maps are
functions on device ids, `NoSession` and `NoSocket` standing for a missing
entry. Database calls always return (supabase-js reports errors in its result
instead of rejecting), so a suspended handler always goes on.

`YkpLink` adds two history variables to name what ends the agreement of the two
ends: `gaveUp`, a call of this connection's handshakes failed or threw, and
`overtaken`, the server has handled an event of an older connection, or a
handler that waited while its session was replaced, since it last activated a
session on this one. `MCDeviceSession` has `withdrawn` (section 3).

`PresenceEngine` lets a device open its next socket before the previous one is
seen to close. `present` holds the sockets that have completed a handshake since
the device's last close event.

The protocol modules keep a replay window as the set of ids it has accepted
and ask `Fresh`. That the masks decide the same is what `ReplayProofs` proves.

`TlvCodec` is a history of fields added to one payload and of the bytes they
became, on either side, and readers written as recursive functions of the
position in the buffer.

`PacketFraming` keeps of a packet its announced length, its real size and its
payload. `written` and `copied` are what the firmware stores in the buffer of
the caller and on the stack; a frame of unknown origin announces any length.

`WsClient` cuts the client's task where its lock is released (`task` says where
each task is) and where another one could tell: the three stores of
`abort_connection` are steps (`aborting`), with the lock held (`lock`), and so
are the CONNECTED event and the HELLO its handler sends 500 ms later. A send that
fails runs `abort_connection` in the sender's task. `esp_websocket_client_start`
looks at the state alone, so a second task may be started while the first is
between its stores of UNKNOW. `Connectivity` counts what goes wrong in `faults`;
the watchdog's 90 looks are `MAX_FAILS`. Time enters in three places: `Settling`
says that associating, waiting for the time and connecting together take less
than those looks, `GotIp` that a created task begins within the ten seconds
before the next address is handled, and `Reconnect` that a task that waits for
the lock has it within the ten seconds before a reconnection. Without the last
two TLC finds two tasks that abort each other's connections for ever.

`OtaUpdate`'s chunk is an encoded data field and its image is its own hash. What
`esp_ota_*` and the boot loader do is external: they accept a partition that
begins with an image; the loader follows otadata (`entry`, `newest`), notes a
new image as pending and, since nothing in the firmware marks an image valid,
aborts it at the next reset. `hash_failed` says that a psa_hash_* call has failed
since BEGIN; COMPLETE on a hash operation that is not active compares a buffer
nobody wrote, which is a choice between both outcomes (`HashMatches`).

`QosEngine` has a step for each statement between which another task can run;
`late` counts every transmission after the acknowledgement, by the tick or by
enqueue. `LegacyUdp` lets anything that was ever sent arrive at any time;
`UdpRestart` takes session and counters back to their initial values, `drawn` is
the newest id from `esp_random`, and `over` holds the sessions that have ended.
`BleLines` has bytes that carry the number of the write they came in, and keeps
the lines that were executed as one sequence of bytes, a newline after each.

`Provisioning` has one step per NVS write, so that the power can go between any
two of them, and one task per scan, WiFi attempt and validation, which go on
after their phone has left. A write holds one or two pieces, each a line that
ends in it or bytes without a newline; `rx_buffer` holds the pieces json_task
has not run, of which it runs one line a write. `pair` is the key pair between
the two writes of `ykp_security_init`. Critical sections of `session_mutex` are
steps; `cert_mutex` is held through a TLS handshake and is a variable. `excused`
remembers that a write failed, BLE did not start, or a key could not be read or
exported: what the code goes on after as if nothing had happened.

`CjsonTree`'s heap has as many items as `Size`; an allocation may fail at every
place where the code allocates. Parsing and duplicating run one list element
at a time with the code's recursion on a stack (`frames`); the half-built tree
is outside what the caller holds until it is returned.

**Key exchange.** At this commit the public keys reach the derivation with two
extra bytes in front (section 5), so that the server's `computeSecret` throws
and a handshake does not get past ECDH_RESPONSE: the device stays in ECDH_SENT
on an open socket. The session modules leave the outcome of the derivation open
(`DeriveOutcomes`, `CallOutcomes`), and every link run has both; the behaviour of
this commit is the one in which all of them fail. What is said of an active
session concerns the protocol code around the derivation, which runs once the
codec's callers strip the header. The keys themselves are not compared: section 5
says how they can differ.

## 3. Runs

| Run | Bounds | Shows |
|---|---|---|
| `replay` | window 3, ids 0..8, resets | the device's mask is an exact record (`WindowExact`) and implements `ReplaySpec`, and both ends give the same verdicts (`SameVerdict`) |
| `device_any_server` | 1 connection, 2 key pairs, 1 packet from the server, rotation at 3, 1 press, failing calls | a counter at its limit has its rotation request unless a packet is still being numbered (`RotationRemembered`); a request is honoured (`RotationStarts`) |
| `router` | 2 sockets of one device, 3 packets each, 2 sessions, 1 command | an active session names an open socket of its device (`ActiveIsRoutable`); a device in the map has a session (`RoutableHasSession`) |
| `link_rotation` | 2 connections whose sockets may overlap, 2 key pairs, rotation at 3, 2 sessions, 1 report, failing calls and derivations, close frames, restarts | at rest an active device names the live session of the server (`SessionAgreed`) |
| `link_live` | 2 connections that may overlap, 2 key pairs, rotation at 4, 1 command, failing calls and derivations | a handshake ends active, with its connection, or with a call that failed (`HandshakeCompletes`) |
| `presence` | 2 sockets that may overlap, 3 handshakes | a connection has a heartbeat (`ConnectedHasHeartbeat`); a device that stays connected ends up online for good (`ConnectedEndsOnline`) |
| `tlv_codec` | 3 fields, buffer of 64 bytes, numbers on both sides of each length class, strings of 0, 24 and 30 bytes full of keys or breaks; frames that announce lengths around each buffer's size and around 2^16 | whole fields are found with their own bytes even if a later one did not fit, and numbers and texts decode (`WholeFieldsSurvive`); a payload that fits reads as it was built (`ReadsAsBuilt`); the device stores nothing beyond its buffers (`BuffersHold`), accepts no frame shorter than it announces (`ReadsInside`), and sends none the server refuses (`ServerReadsDevice`) |
| `services` | OTA: partitions of 3 chunks, 2 images that differ in the last chunk, of which one has an announcable hash, any contents of both partitions. QoS: 2 slots, 2 packets, 2 retries. UDP: 2 datagrams per window, sessions of 2, clock to 5, any number of restarts. BLE: 4 writes, buffer of 6 | OTA_VERIFY is true (`VerifyIsTrue`), the boot loader's choice is whole at every instant (`AlwaysBoots`), index, hash and flash agree (`PrefixAgrees`); retransmissions are bounded although slots are reused under the timer's hands (`TransmissionsBounded`, `QuietAfterAck`); a datagram is executed once (`ExecutedOnce`) and not after its session (`NoneExecutedStale`); commands are exactly the bytes received (`LinesAreTheStream`) |
| `connectivity` | 2 client tasks, 3 faults, 2 frames and 2 WiFi events under way, restart after 2 looks | HELLO goes first (`HelloFirst`), `ykp_ws_is_connected` is true of a closed transport in two named moments only (`ConnectedIsOpen`), the WiFi state is the driver's (`WifiStateTrue`), and when the faults are used up the device is connected for good (`EndsOnline`) |
| `provisioning` | 2 values per field, 3 pieces of writes from phones that come and go, queue of 1, line buffer of 2 pieces, 2 background tasks, 1 fault | buffers and queues keep their bounds (`TypeOK`); name and password the device runs with were sent together (`PairedCredentials`), what was confirmed is in flash (`CommitOkIsStored`), a stored public key has its private key (`PublicKeyHasPrivate`), the certificate does not change under a handshake that uses it (`CertUnderHandshake`) |
| `provisioning_live` | 1 value, 2 pieces, 2 tasks, queue of 2, 1 fault | a disconnection is completed although it needs `cert_mutex` (`DisconnectCompletes`), and every write is taken from the queue (`WritesTaken`) |
| `cjson` | trees of 4 items, 6 while parsing and copying, nesting of 2 | rings are closed (`RingsClosed`), every item has exactly one owner (`OwnedOnce`), a copy reads like its original (`CopyIsTrue`), and pointers implement sequences (`ImplementsLists`, a refinement) |

**Bounds.** A window of 3 with ids to 8 has shifts by less than, exactly and
more than the window; the proofs cover 64. Two sockets are enough for an old
and a new one, two handshakes for a session and its replacement on one socket,
and three packets per socket for a handshake and a packet in it or a second
HELLO. The link and device runs rotate at 3 or 4, so that the count rule falls due
in the middle of a handshake (numbering HELLO takes the counter to 2) as well as
after it, beside rotation from age. A limit of 3 makes a second rotation overlap
the first; two connections make the second one's HELLO meet the first one's
close event and suspended handlers; `link_live` has also been checked with a
limit of 3, `connectivity` with 4 faults. A
buffer of 64 bytes is filled exactly, and
overrun in key, header and data, by the strings chosen. The packet buffers are
scaled with it and keep the order of the code's (raw buffer above receive
buffer above what decryption can hold), so that each is the one that refuses.

Two images that share a prefix are the fewest with which a partition can hold
the wrong one; three chunks leave a byte behind an image. Two QoS slots and two
packets are enough for a slot that is freed and taken again between two
statements of the timer. Three faults are enough for a WiFi loss, a failing
connection attempt and a failing restart in a row. Two background tasks let the
validation of one phone meet another's, or a scan; with two values per field old
and new ones can be told apart. Three pieces are a line that another write
began, with a line behind it, or the two values and a confirmation.
`MCProvisioning` exchanges tasks and values (`SYMMETRY`; only safety is checked
there, and no definition tells them apart) and leaves the reported state of the
session out of the fingerprint (`VIEW`): no guard reads it. Four items are
enough for a list with a first, a middle and a last element and a container
around it, and the two more for what a copy or the parser builds beside them;
the library's two limits (1000 and 10000 deep) are 2, so that they are reached.

**Type invariants** describe the variables of each module. Those of the replay,
device session, link, router, presence, codec, OTA, QoS, BLE and provisioning
modules are proved; the provisioning run checks its own as well, for the buffers it
bounds. The others hold on the instances above (`INVARIANT TypeOK`) and are left
out of the configurations, which keep to what the code could get wrong.

**Deadlock** is not checked except in `replay`: the bounds on connections,
packets and presses bring the other models to a halt.

**Fairness.** `YkpLink`: the tasks and Node's event loop run, the database
answers, a closing socket is closed (the close timeout of `ws`), and the device
notices a dead peer (`ping_interval_sec`). Presses, commands and the loss of a
connection are never promised, nor that a call succeeds. `MCDeviceSession`: the
three tasks run. `PresenceEngine`: requests are applied and answered, running
intervals fire. `Connectivity`: the WiFi driver, the event loop, the client's
task and the connection manager go on, a connection attempt ends, and whoever
gives a connection up finishes. Strong fairness is asked of the two ping timers:
the task looks at them once per iteration, and finds them expired infinitely
often. Nothing is asked of the network beyond that faults come to an end.
`Provisioning`: FreeRTOS runs every ready task, and handshakes, scans and
receives time out (weak fairness of each background task); a mutex goes to the
waiter of the highest priority, and the host task and `json_task` rank above the
validations they compete with, hence strong fairness for those two. No phone is
promised to do anything.

## 4. Proofs

Every safety property of section 3 is proved for all values of the constants,
except those at the end of this section. The assumptions stand in the modules
beside the constants: a positive window, natural bounds, distinguishable
markers, and these, which say something of the code:

- `RotateAt > 1` (`YKP_KEY_ROTATE_PACKET_COUNT` is 1000): the counter restarts
  at 1, which must not be the limit already.
- `FramingAssumption`: header, largest payload and tag together stay below
  2^16, for what the device builds and what its static buffer holds (the code's
  sum is under 700). What a received header announces is any 16-bit number.
- `ValueAssumption`: the numbers put into payloads have 32 bits (16 for
  the scaled floats), texts are bytes.
- `LinkAssumption`: the API's commands are pairs of a known action and an
  encryption flag.
- `BleLinesAssumption`: a chunk has room for its terminator, and `rx_buffer` for
  its own.

**`ReplayProofs`**: `TypeCorrect`, `WindowIsExact`,
`WindowImplementsReplaySpec`, `GuardIsExact`, `GuardImplementsReplaySpec`,
`VerdictsAgree`, `GuardExactBesideWindow`. For the window `TypeOK /\
WindowExact` is inductive: an admitted id above the highest shifts every bit by
the distance, so bit `d` afterwards is bit `d - n` before, or the new id.
Refinement then follows from `AdmitsIsFresh`: the test on the mask is `Fresh` on
the history. BigInt keeps bits beyond the window, so the guard is exact inside
the window, and outside it a set bit only names an accepted id. The agreement
adds to both that the histories are equal, which makes one `Fresh` decide for
both.

**`RouterDevicesProofs`**: `RouterTypeCorrect`, `ActiveSessionsAreRoutable`,
`RoutableDevicesHaveSessions`, for any number of devices and sockets and
without the restrictions `MCServerRouter` puts on the order of reads. The two
properties need each other and two facts more: packets waiting on a socket
name its device (`PacketsOwned`), and so does the closure variable
(`NamesOwner`); otherwise a close event could name another device than the
one registered on the socket.

**`DeviceSessionProofs`**: `RotationIsRemembered`, `DeviceTyped`, against a
server that sends anything, for any number of connections, packets and presses
and every interleaving of the single accesses. `RotationRemembered` is inductive:
a task that numbers a packet goes on to its checks, raises the request, or has
found the counter below the limit (`NumberingStep`); every other step leaves
counter and request alone, takes the counter back to 1, or takes the request
back and is `withdrawn` (`OtherCounterSteps`); and nobody leaves its checks half
done but by a restart (`CheckingKept`). The types need those of the packets in
flight (`NetTyped`) and that a task in the middle of a command has it in hand
(`Dispatching`).

The same module joins device and server: `LinkTyped`, for every value of the
constants. Agreement on the session is model-checked only (below).

**`PacketFramingProofs`**: `PayloadTyped`, `BuffersNeverOverrun`,
`ParserReadsInside`, `ServerReadsEveryFrame`. `FramingInv` joins the payload's
types, the frame's (`FrameTyped`), that a frame of the device announces its real
length (`FromDevice`), and `ReadsInside`. A frame whose 16-bit sum wraps
announces more than the static buffer holds and is refused there.

The same module proves that what is built is what is read,
`PayloadReadsAsBuilt` and `PayloadFieldsSurvive`, for every set of fields and
buffer size. The hypothesis `ShortTexts` is that texts are shorter than 256
bytes: the writers announce the length in one byte, so a longer text is
announced with its length cut, and the properties do not hold of it. The
invariant, `BuiltNow`, says that the fields that were stored whole lie one behind
the other in the buffer, each with its key and its bytes, followed by the break
if there was room for it. The readers are recursive functions over positions.
That such a function exists (`UpwardRecursion`) and that it visits exactly the
positions where fields begin (`ParseVisits`, `FindVisits`) is induction over the
buffer, done by least counterexample: the set of positions of which the claim is
false would have a least member (`Least`), and the claim holds there because the
reader goes on to a later position. `FieldReads`, `ReadUintBack` and
`ReadStringBack` are the one-field facts: each length class of a head decodes to
the number that was encoded.

**`DeviceServicesProofs`**, four services of the device that share no state, and
presence on the server:

- `OtaTypeCorrect`, `OtaAlwaysBoots`, `OtaVerifyIsTrue`, `OtaPrefixAgrees`, for
  every set of images and size. `AlwaysBoots` needs `LoaderInv`: an image nobody
  confirms runs once, as pending, and `esp_ota_begin` refuses while it does, so an
  update is only ever written from ota_0 into ota_1 (`Targets`), and an entry that
  would start ota_1 is there only from INSTALL to the end of that run
  (`Entries`). The other two need `HashFollows`: a handle that can be written has
  a hash operation that runs along with it, or one that failed.
- `QosTypeCorrect`, `QosTransmissionsBounded`, `QosQuietAfterAck`. The invariant
  `SlotInv` follows a packet's transmissions through a slot that may have been
  freed and taken again: what was sent is bounded by the slot's retry count
  while the packet holds it, plus one for a tick that found the slot due for an
  earlier packet and has not yet transmitted. What follows an acknowledgement is
  one such tick and enqueue's own transmission (`Own`).
- `UdpExecutesOnce`, `UdpNoneStale`, for every limit, life, range and number of
  restarts. The invariant says that what was executed lies in the past: nothing
  in sessions to come, nothing above the last counter in this one (`UdpPast`),
  and that the sessions that ended were begun and are not the current one
  (`UdpOver`).
- `BleTyped`, `BleLinesExact`, for every size. `BleTypeOK /\ LinesAreTheStream`
  is inductive: a buffer is its first line, the newline and the rest
  (`LineAndRest`), and a chunk that would not fit is never appended.
- `PresenceTyped`, `ConnectedKeepsHeartbeat`, for any number of sockets,
  overlapping or not. The types need that the map only names intervals some
  markOnline started. The heartbeat needs `HeartbeatComes`: since the last close
  event there was no handshake, or a markOnline is still under way, or its
  interval runs and the map names it.

**`ConnectivityProofs`**: `HelloIsFirst`, `WaitingIsReported`,
`ConnectedMeansOpen`, `WifiStateIsTrue`, for any number of client tasks, faults,
frames and events. `HelloFirst` needs that an open connection on which nothing
was sent is still in its CONNECTED handler or has a HELLO that could not be built
or written (`SilentWithoutHello`), and that the handler holds the lock with
nothing sent (`NothingBeforeHello`); `ConnectedIsOpen` that a connected client's
transport is open but for the two moments it names (`OpenWhileConnected`), and
that a connection is given up under the lock (`AbortHoldsLock`); `WifiStateTrue`
that the last event under way agrees with the driver (`LastEvent`).

**`ProvisioningProofs`**: `ProvisioningTyped`, `CredentialsPaired`,
`CommitStored`, `KeysBelongTogether`, `HandshakeKeepsCert`, for any number of
values, tasks, commands and faults; they are about `SafetySpec`, the
specification without its fairness. `ConfirmInv` says how far confirm_provision
has written (`WrittenSoFar`), that it runs only in provisioning mode
(`OnlyInBle`), and that a device with half of the credentials is there or will
go back there (`NotHalf`). `KeyInv` adds that between its two writes the pair's
private key is in flash and no public key is, unless one of the failures
happened that the code goes on after. The type of the line buffer needs that
every write begins with a piece (`LinesTyped`). `LockInv` says that a task is in
its handshake exactly while it holds `cert_mutex`.

**`CjsonProofs`**: `CjsonInvariant`, `CjsonTyped`, `CjsonRingsClosed`,
`CjsonOwnedOnce`, for every size of the heap, every nesting limit and every
sequence of edits, parses and copies, with a failure at any allocation or token.
Neither property is inductive, since both speak only of the trees the caller can
reach. The invariant `CjsonInv` is about all items:

- `Shape`, the pointers. There is a home for every item, the item in whose list
  it is (`m`, which the program does not store), and `next`, `prev` and `child`
  agree with it (`NextBack`, `KidHome`). No set of items is followed in a circle
  along `next` and `child` (`Grounded`), every item but a top is pointed at once
  (`Inside`, `Reached`), and the rings are closed (`Rings`) except those that a
  copy is still building.
- `Base`, the tops and who owns them: the caller, nobody (the forgotten
  reference), or the call in progress; a list that parse_array has not attached
  yet is a top of the latter.
- `ParseInv` and `DupInv`, the stack. A parse_array's list ends in `last`, has
  the array as its home although it does not hang from it yet, and the array is
  the last element of the call below. Each Duplicate_rec holds an item in no
  list, whose `last` ends the children copied so far.

The walks the model makes (`Chain`, `Tree`, `Doomed`) are recursive functions.
That they exist is `Iteration`; that they collect what the pointers reach
(`ChainFacts`, `TreeFacts`, `DoomedIsDown`) is by least counterexample on `Rank`,
the number of items reached, which falls along every pointer. What each
assignment of the pointer surgery does to `Shape` is stated once
(`ShapeLinkFirst`, `ShapeLinkLast`, `ShapeInsertFirst`, `ShapeInsertLater`,
`ShapeDetachFirst`, `ShapeDetachLater`, `ShapeClose`, `ShapeFree`) and each call
is put together from these: appending is one of the two links and a close, and
replacing is shown to have the effect of an insertion and a detach (`ReplaceIs`).
TLC checked `CjsonInv`, with the home computed from the heap, on a heap of 6
items and a nesting of 3 before it was proved.

**Only model-checked:**

- Liveness under fairness (`RotationStarts`, `HandshakeCompletes`,
  `ConnectedEndsOnline`, `EndsOnline`, `DisconnectCompletes`,
  `WritesTaken`), which the proof system does not handle.
- `CopyIsTrue` and `ImplementsLists`: they compare nested sequences read off the
  heap before and after a step, at any depth, which is induction over the views
  themselves. The invariant behind them is `CjsonInv`.
- `SessionAgreed`, which names what it excepts (`gaveUp`, `overtaken`) instead of
  assuming that it does not happen. Its invariant would have to follow a handshake
  through every place its packets and handlers can be in, for two handshakes at
  once; that is in the plan.

## 5. Seen while modelling

What the code does that a reader might not expect. Where the part concerned is
modelled the model behaves so too, and no property claims otherwise.

Server and session:

- The close event of a device's old socket deletes the entry of its new one
  (`ykp-router.ts:211`): the API then reports a connected device offline.
- A button report can carry an id the server's guard has already accepted,
  because commands are acknowledged under the server's numbers and the device
  restarts its counter later than the server its guard (`relay_service.c:74`).
- `state = HELLO_SENT`, assigned after the packet is sent (`main.c:101`), can
  land after the WebSocket task has finished the handshake (`main.c:408`): the
  device stays inactive.
- Nothing keeps app_main from starting a rotation within a handshake
  (`main.c:407`). The counter is at 1 when one begins, but another task may
  store a value it read before (`ykp_session.c:20`), and then the limit is
  reached again at once. The second `send_hello` generates a new ephemeral
  key, the CHALLENGE to the first HELLO is answered with it, and device and
  server can end with one session and two keys. A derivation that fails leaves
  the key of the handshake before, if no reset came between (`main.c:177`).
- A reset stores counter and flag one after the other without a lock
  (`ykp_session.c:66`), and so does an activation (`ykp_session.c:43`): a counter
  stored between them can stand at its limit with the request taken back, until
  the next packet is numbered.
- A close frame raises CLOSED, which nobody handles: the session stays ACTIVE
  into the next connection, and a `send_hello` that fails there leaves it so
  while the server knows no session.
- `computeSecret` throws on every ECDH_RESPONSE at this commit; the router logs
  it and leaves the socket open, and the device waits in ECDH_SENT for ever
  (`ykp-router.ts:88`).
- A close during `markOnline`'s await leaves an interval nobody stops
  (`presence-engine.ts:13`). The late close of an old socket stops the interval of
  the new one and writes offline last, so that a connected device can stay offline
  until its next handshake, although `presence-engine.ts:12` says that a heartbeat
  keeps `is_online` true while it is connected.
- A byte string is found with its CBOR header (`parser.ts:110`): a 65-byte key
  becomes 67 bytes, and `ota_service.c:62` refuses every 32-byte hash.
- Health, sensor and OTA packets are sent under id 0 (`health_service.c:119`),
  which `replay-guard.ts:10` refuses, so the server drops them.
- Rotation by age is noticed only when a packet is numbered
  (`ykp_session.c:23`); an idle device keeps its session beyond 30 minutes.
- The RSSI is added as an unsigned byte and read with `tlvReadInt8`.

Connection:

- A close frame from the server ends the client's task and leaves
  `s_connected` up and the session as it was; nothing reassociates WiFi either.
  The watchdog's restart after three minutes is what brings the device back.
- `esp_websocket_client_start` looks at the state alone. A client started while its
  old task is between its last state and its end may have its new transport closed
  and its state set to UNKNOW by that task (`esp_websocket_client.c:1406`); the new
  task then loops in the default case until the watchdog restarts the device.
- While a connection is given up its transport is closed before the state says so
  (`esp_websocket_client.c:269`), and `ykp_ws_is_connected` reads the state without
  the lock; a sender that passes it finds the closed transport under the lock.

Provisioning:

- Confirming after a disconnection, or without credentials, stores empty ones:
  the device starts in run mode and does not return to BLE.
- A task of an earlier phone writes into the session of the next, and its
  `ca_ok` lets a certificate be stored that was not the one validated; the
  certificate can also change between validation and confirmation.
- A validation that gets no WiFi leaves the state at SSL_VALIDATE with nobody
  at work; a second scan forgets the first one's acknowledgement and ends in
  FAULT; the report says ready_to_commit whatever was found.
- A power loss between the writes of private and public key leaves a device
  without public key, for good (`ykp_security.c:75`); so does a failed write.
  When `psa_export_key` fails the public key is stored all the same
  (`ykp_security.c:78`), and a private key that cannot be read
  (`ykp_security.c:59`) is replaced under its old public key until that is
  written; a power loss during confirm leaves a server URL that is not the
  confirmed one.
- One line is executed per write received (`ble_provision.c:704`): a second line
  in the same write waits for the next write, of whatever phone, and half a line
  stays in the buffer when the phone goes and spoils the next one's first command.
- The notify queue drops what does not fit into its four slots; a BLE stack
  that does not start is ignored; erasing NVS loses `device_id`, which
  nothing in provisioning writes. Nothing starts `ble_host_task`.

Services:

- INSTALL does not ask whether COMPLETE succeeded: it installs whatever the
  boot loader accepts. OTA chunks are larger than the receive buffer, and the
  server never sends any.
- `ota_service.c:62` compares a length that includes the CBOR header with 32, so a
  SHA-256 is refused and only a field of 32 bytes with its header, as no hash is,
  can be announced. Chunks are written and hashed with their header
  (`ota_service.c:137`, `:144`), whose first byte is never 0xE9, so an update as
  the server would send it fails at its first chunk. The model keeps both: what
  can be written is a sequence of encoded fields.
- Rollback is enabled (`sdkconfig.defaults:47`) and nothing marks an image valid:
  every update runs for one boot, in which `esp_ota_begin` refuses the next one.
- The results of `psa_hash_setup`, `psa_hash_update` and `psa_hash_finish` are
  ignored (`ota_service.c:96`, `:144`, `:159`): after a failure COMPLETE compares
  what the stack holds.
- In `ykp_qos.c` a tick that has found a slot due can transmit, or drop, the
  packet that took the slot since, and stopping the timer can overtake an
  enqueue, which leaves an active slot with a stopped timer. Enqueue can send a
  packet that a tick has sent and the server acknowledged (`ykp_qos.c:56`).
  Nothing calls `ykp_qos_enqueue`.
- UDP counter 0 does not advance the last counter and can be repeated while it
  is 0. After every restart session 0 with counter 0 is back under the key from
  NVS (`legacy_udp.c:32`, `:50`), so what was executed in session 0 of one boot can
  be executed again in the next, whenever it was sent. Nothing starts the UDP
  server.
- `cJSON_AddItemReferenceToObject` loses the reference it has allocated when
  the key cannot be copied (`cJSON.c:2147`); `leaked` records it.
- `ykp_security_decrypt` takes 240 bytes, the receive buffer 512.
- Outside the models: `ykp_security.c` resets its memory pool while keys that
  were allocated from it are in use; `ykp_packet_set_payload` leaves the old
  length when it cannot allocate into a packet that had a payload; the relay's
  state and its GPIO are written by two tasks.

## 6. Not modelled

Cryptography and the checksum (algorithms on large words); the ESP-IDF, NimBLE
and `ws` libraries (external); of the vendored components, TLS, URI, header and
fragment handling of the WebSocket client, the functions of it nothing calls
(stop, destroy, pause), and texts, numbers, printing, comparing and minifying
in cJSON; `cJSON_Utils`, which nothing calls; `ykp_udp` and discovery, which
nothing starts; measurements and thresholds of the sensor service; rendering in
the dashboard and the app. Server services, event stream, dashboard and app
keep their own state and are planned. Packets are not lost or reordered inside
a connection: WebSocket runs over TCP. They are lost when it ends.

## 7. Plan

1. Proofs: `SessionAgreed` for every number of connections and handshakes;
   packet ids of a session never reused, for the link.
2. `SessionRows`: the rows `createSession` and `invalidateSessions` leave
   against the router's map. `Automation`, `EventStream`, the app's side of
   provisioning over the notify queue, its repository and
   `RealtimeSyncManager`.
