--------------------------- MODULE DeviceSession ---------------------------
(***************************************************************************)
(* The firmware's session layer: main.c, ykp_core/ykp_session.c, the key   *)
(* state of ykp_core/ykp_security.c, services/relay_service.c and the      *)
(* packet ids of the health and sensor services.                           *)
(*                                                                         *)
(* Three FreeRTOS tasks on two cores share g_session, g_sec_ctx and        *)
(* g_replay without a lock: the WebSocket client's task ("ws": connect,    *)
(* disconnect and receive callbacks), app_main's loop ("main": key         *)
(* rotation, health reports) and the timer task ("timer": button).  A step *)
(* is one access to what they share; pc says where a task is, and back     *)
(* where it goes on after ykp_session_next_packet_id or ykp_session_reset. *)
(*                                                                         *)
(* The only lock is the WebSocket client's own: it is held through the     *)
(* callbacks and through a send, including the DISCONNECTED callback that  *)
(* a failing send runs in the sender's task.                               *)
(***************************************************************************)
EXTENDS YkpMessages, ReplayOps

CONSTANTS Self,            \* g_device_id
          RotateAt,        \* YKP_KEY_ROTATE_PACKET_COUNT (1000 in the code)
          CallOutcomes,    \* what crypto, packet pool and socket calls can return
          MaxConnections,  \* bound: WebSocket connections made
          MaxHellos,       \* bound: ephemeral key pairs generated
          MaxPresses,      \* bound: button presses
          MaxReports       \* bound: 1-minute health reports

ASSUME DeviceAssumption ==
    /\ RotateAt \in Nat /\ RotateAt > 1
    /\ CallOutcomes \subseteq BOOLEAN
    /\ MaxConnections \in Nat
    /\ MaxHellos \in Nat
    /\ MaxPresses \in Nat
    /\ MaxReports \in Nat

VARIABLES
    up, down,          \* per connection: packets to the server / to the device
    conn,              \* number of the current connection
    connected,         \* ykp_ws_is_connected()
    state,             \* g_session.state
    session_id,        \* g_session.session_id
    packet_counter,    \* g_session.packet_counter
    needs_key_rotate,  \* g_session.needs_key_rotate
    age,               \* g_session.session_start_ms: 0, recent, or 30 minutes ago
    eph,               \* g_sec_ctx.ephemeral_private/public
    keyActive,         \* g_sec_ctx.session.active
    seen,              \* g_replay: ids accepted since ykp_replay_reset
    relay,             \* relay_service.c s_state
    pc, back,          \* where each task is, and where its call returns to
    loaded,            \* packet_counter as each task has read it for its packet
    presses, reports   \* how much of the bounds is used

netVars == <<up, down>>
counterVars == <<packet_counter, needs_key_rotate>>
sessionVars == <<state, session_id, counterVars, age>>
keyVars == <<eph, keyActive>>
taskVars == <<pc, back, loaded>>
boundVars == <<presses, reports>>
deviceVars == <<conn, connected, sessionVars, keyVars, seen, relay, taskVars,
                boundVars>>

Connections == 1 .. MaxConnections
Tasks == {"ws", "main", "timer"}
States == {"IDLE", "HELLO_SENT", "ECDH_SENT", "ACTIVE"}

\* Between the accesses of ykp_session_reset, of ykp_session_next_packet_id
\* after its store, and of ykp_session_set_active.
Resetting == {"reset", "reset_id", "reset_counter", "reset_flag", "reset_start", "reset_key"}
Checking == {"age", "age_raise", "count", "count_raise"}
Numbering == {"load", "store"} \union Checking
Activating == {"active_state", "active_start", "active_counter", "active_flag"}
Labels ==
    {"idle", "gen", "hello_send", "hello_mark", "ecdh_send", "ecdh_mark", "dispatch",
     "button_send"}
      \union Resetting \union Numbering \union Activating

DeviceTypeOK ==
    /\ conn \in 0 .. MaxConnections
    /\ connected \in BOOLEAN
    /\ state \in States
    /\ session_id \in Nat
    /\ packet_counter \in Nat \ {0}
    /\ needs_key_rotate \in BOOLEAN
    /\ age \in {"none", "recent", "old"}
    /\ eph \in 0 .. MaxHellos
    /\ keyActive \in BOOLEAN
    /\ seen \subseteq Nat
    /\ relay \in BOOLEAN
    /\ pc \in [Tasks -> Labels]
    /\ back \in [Tasks -> Labels]
    /\ loaded \in [Tasks -> Nat]
    /\ presses \in 0 .. MaxPresses
    /\ reports \in 0 .. MaxReports

DeviceInit ==
    /\ conn = 0
    /\ connected = FALSE
    /\ state = "IDLE"
    /\ session_id = 0
    /\ packet_counter = 1
    /\ needs_key_rotate = FALSE
    /\ age = "none"
    /\ eph = NoKey
    /\ keyActive = FALSE
    /\ seen = {}
    /\ relay = FALSE
    /\ pc = [t \in Tasks |-> "idle"]
    /\ back = [t \in Tasks |-> "idle"]
    /\ loaded = [t \in Tasks |-> 0]
    /\ presses = 0
    /\ reports = 0

-----------------------------------------------------------------------------
(* Control.                                                                *)

\* Task t goes on at the given label; a call returns to back[t], which is then
\* forgotten.
Goto(t, label) == pc' = [pc EXCEPT ![t] = label] /\ UNCHANGED back
Call(t, label, return) ==
    /\ pc' = [pc EXCEPT ![t] = label]
    /\ back' = [back EXCEPT ![t] = return]
Return(t) ==
    /\ pc' = [pc EXCEPT ![t] = back[t]]
    /\ back' = [back EXCEPT ![t] = "idle"]

Step(t, from, to) == pc[t] = from /\ Goto(t, to)

\* Task t is in a callback of the WebSocket client, and so holds its lock: any
\* work of the ws task is one, and a reset of another task that does not lead
\* to a key rotation.
InCallback(t) ==
    IF t = "ws" THEN pc[t] # "idle" ELSE pc[t] \in Resetting /\ back[t] # "gen"

LockFree(t) == \A u \in Tasks \ {t} : ~ InCallback(u)

-----------------------------------------------------------------------------
(* ykp_session.c, in the task t.                                           *)

\* ykp_session_next_packet_id: the counter is loaded and stored, the age and
\* the counter are checked, each in an access of its own.  What the second
\* load finds, loaded[t], is the id that is returned.
LoadCounter(t) ==
    /\ Step(t, "load", "store")
    /\ loaded' = [loaded EXCEPT ![t] = packet_counter]
    /\ UNCHANGED counterVars

StoreCounter(t) ==
    /\ Step(t, "store", "age")
    /\ packet_counter' = loaded[t] + 1
    /\ UNCHANGED <<needs_key_rotate, loaded>>

CheckAge(t) ==
    /\ Step(t, "age", IF age = "old" THEN "age_raise" ELSE "count")
    /\ UNCHANGED <<counterVars, loaded>>

\* Fault: the limit is one too high.
CheckCountLate(t) ==
    /\ pc[t] = "count"
    /\ loaded' = [loaded EXCEPT ![t] = packet_counter]
    /\ IF packet_counter > RotateAt THEN Goto(t, "count_raise") ELSE Return(t)
    /\ UNCHANGED counterVars

CheckCount(t) ==
    /\ pc[t] = "count"
    /\ loaded' = [loaded EXCEPT ![t] = packet_counter]
    /\ IF packet_counter >= RotateAt THEN Goto(t, "count_raise") ELSE Return(t)
    /\ UNCHANGED counterVars

RaiseFlag(t) ==
    /\ \/ Step(t, "age_raise", "count")
       \/ pc[t] = "count_raise" /\ Return(t)
    /\ needs_key_rotate' = TRUE
    /\ UNCHANGED <<packet_counter, loaded>>

ykp_session_next_packet_id(t) ==
    /\ LoadCounter(t) \/ StoreCounter(t) \/ CheckAge(t) \/ CheckCount(t) \/ RaiseFlag(t)
    /\ UNCHANGED <<netVars, conn, connected, state, session_id, age, keyVars, seen,
                   relay, boundVars>>

\* ykp_session_reset: six stores.
ykp_session_reset(t) ==
    /\ \/ /\ Step(t, "reset", "reset_id")
          /\ state' = "IDLE"
          /\ UNCHANGED <<session_id, counterVars, age, keyActive>>
       \/ /\ Step(t, "reset_id", "reset_counter")
          /\ session_id' = 0
          /\ UNCHANGED <<state, counterVars, age, keyActive>>
       \/ /\ Step(t, "reset_counter", "reset_flag")
          /\ packet_counter' = 1
          /\ UNCHANGED <<state, session_id, needs_key_rotate, age, keyActive>>
       \/ /\ Step(t, "reset_flag", "reset_start")
          /\ needs_key_rotate' = FALSE
          /\ UNCHANGED <<state, session_id, packet_counter, age, keyActive>>
       \/ /\ Step(t, "reset_start", "reset_key")
          /\ age' = "none"
          /\ UNCHANGED <<state, session_id, counterVars, keyActive>>
       \/ /\ pc[t] = "reset_key"
          /\ Return(t)
          /\ keyActive' = FALSE
          /\ UNCHANGED sessionVars
    /\ UNCHANGED <<netVars, conn, connected, eph, seen, relay, loaded, boundVars>>

\* ykp_session_set_active: five stores, of which the first is made here.  Only
\* the ws task calls it.
ykp_session_set_active(sid) ==
    /\ Goto("ws", "active_state")
    /\ session_id' = sid
    /\ UNCHANGED <<state, counterVars, age>>

SetActiveStores ==
    \/ /\ Step("ws", "active_state", "active_start")
       /\ state' = "ACTIVE"
       /\ UNCHANGED <<session_id, counterVars, age>>
    \/ /\ Step("ws", "active_start", "active_counter")
       /\ age' = "recent"
       /\ UNCHANGED <<state, session_id, counterVars>>
    \/ /\ Step("ws", "active_counter", "active_flag")
       /\ packet_counter' = 1
       /\ UNCHANGED <<state, session_id, needs_key_rotate, age>>
    \/ /\ Step("ws", "active_flag", "idle")
       /\ needs_key_rotate' = FALSE
       /\ UNCHANGED <<state, session_id, packet_counter, age>>

\* ykp_ws_send and ykp_send_packet in task t, which goes on at the label next.
\* Nobody is told when the socket is down, the packet pool is empty or the
\* client's lock cannot be had in time.  A write that fails ends the connection,
\* and runs the DISCONNECTED callback in this task before it goes on.
Transmit(t, packet, next) ==
    /\ loaded' = [loaded EXCEPT ![t] = 0]
    /\ \/ /\ connected /\ LockFree(t) /\ TRUE \in CallOutcomes
          /\ up' = [up EXCEPT ![conn] = Append(@, packet)]
          /\ Goto(t, next)
          /\ UNCHANGED connected
       \/ /\ ~ connected \/ FALSE \in CallOutcomes
          /\ Goto(t, next)
          /\ UNCHANGED <<up, connected>>
       \/ /\ connected /\ LockFree(t) /\ FALSE \in CallOutcomes
          /\ connected' = FALSE
          /\ Call(t, "reset", next)
          /\ UNCHANGED up

-----------------------------------------------------------------------------
(* send_hello, run by the task t.                                          *)

\* ykp_security_gen_ephemeral and ykp_packet_alloc; when one of them fails
\* send_hello returns.
GenEphemeral(t) ==
    /\ pc[t] = "gen"
    /\ \/ /\ TRUE \in CallOutcomes
          /\ eph < MaxHellos
          /\ eph' = eph + 1
          /\ \/ Call(t, "load", "hello_send")
             \/ FALSE \in CallOutcomes /\ Goto(t, "idle")
       \/ /\ FALSE \in CallOutcomes
          /\ Goto(t, "idle")
          /\ UNCHANGED eph
    /\ UNCHANGED <<netVars, conn, connected, sessionVars, keyActive, seen, relay,
                   loaded, boundVars>>

SendHello(t) ==
    /\ pc[t] = "hello_send"
    /\ Transmit(t, Hello(Self, loaded[t], eph), "hello_mark")
    /\ UNCHANGED <<down, conn, sessionVars, keyVars, seen, relay, boundVars>>

\* The assignment that follows the send in send_hello.
MarkHelloSent(t) ==
    /\ Step(t, "hello_mark", "idle")
    /\ state' = "HELLO_SENT"
    /\ UNCHANGED <<netVars, conn, connected, session_id, counterVars, age, keyVars,
                   seen, relay, loaded, boundVars>>

-----------------------------------------------------------------------------
(* The WebSocket client's task.                                            *)

\* WEBSOCKET_EVENT_CONNECTED: on_ws_connected waits and runs send_hello.  The
\* client connects again by itself after an error, and when WiFi comes back
\* after a close.
on_ws_connected ==
    /\ ~ connected
    /\ pc["ws"] = "idle" /\ LockFree("ws")
    /\ conn < MaxConnections
    /\ conn' = conn + 1
    /\ connected' = TRUE
    /\ Goto("ws", "gen")
    /\ UNCHANGED <<netVars, sessionVars, keyVars, seen, relay, loaded, boundVars>>

\* WEBSOCKET_EVENT_DISCONNECTED, raised by a transport error or a ping without
\* answer: on_ws_disconnected resets the session.
on_ws_disconnected ==
    /\ connected
    /\ pc["ws"] = "idle" /\ LockFree("ws")
    /\ connected' = FALSE
    /\ Call("ws", "reset", "idle")
    /\ UNCHANGED <<netVars, conn, sessionVars, keyVars, seen, relay, loaded, boundVars>>

\* A close frame of the server raises WEBSOCKET_EVENT_CLOSED, which nobody
\* handles: the connection is gone and the session stays as it is.
CloseFrame ==
    /\ connected
    /\ pc["ws"] = "idle" /\ LockFree("ws")
    /\ connected' = FALSE
    /\ UNCHANGED <<netVars, conn, sessionVars, keyVars, seen, relay, taskVars, boundVars>>

Packet == Head(down[conn])

\* handle_incoming_packet is at its start, with a packet of the given kind.
Receives(kind) ==
    /\ connected
    /\ pc["ws"] = "idle" /\ LockFree("ws")
    /\ down[conn] # <<>>
    /\ Packet.kind = kind

Consume == down' = [down EXCEPT ![conn] = Tail(@)]

\* SEC_CHALLENGE, whatever the state of the session: the result of
\* ykp_security_derive_session_key is ignored, and send_ecdh_response returns
\* when ykp_security_sign or ykp_packet_alloc fails.
HandleChallenge ==
    /\ Receives("CHALLENGE")
    /\ Consume
    /\ \E derived \in CallOutcomes : keyActive' = (keyActive \/ derived)
    /\ \/ TRUE \in CallOutcomes /\ Call("ws", "load", "ecdh_send")
       \/ FALSE \in CallOutcomes /\ UNCHANGED <<pc, back>>
    /\ UNCHANGED <<up, conn, connected, sessionVars, eph, seen, relay, loaded, boundVars>>

SendEcdhResponse ==
    /\ pc["ws"] = "ecdh_send"
    /\ Transmit("ws", EcdhResponse(Self, loaded["ws"]), "ecdh_mark")
    /\ UNCHANGED <<down, conn, sessionVars, keyVars, seen, relay, boundVars>>

MarkEcdhSent ==
    /\ Step("ws", "ecdh_mark", "idle")
    /\ state' = "ECDH_SENT"
    /\ UNCHANGED <<netVars, conn, connected, session_id, counterVars, age, keyVars,
                   seen, relay, loaded, boundVars>>

\* Fault: the payload is not looked at, and the packet id taken for the session's.
HandleSessionActiveByPacketId ==
    /\ Receives("SESSION_ACTIVE")
    /\ Consume
    /\ ykp_session_set_active(Packet.id)
    /\ UNCHANGED <<up, conn, connected, keyVars, seen, relay, loaded, boundVars>>

\* SEC_SESSION_ACTIVE, again whatever the state of the session.
HandleSessionActive ==
    /\ Receives("SESSION_ACTIVE")
    /\ Consume
    /\ ykp_session_set_active(Packet.sid)
    /\ UNCHANGED <<up, conn, connected, keyVars, seen, relay, loaded, boundVars>>

\* The other stores, and ykp_replay_reset after the last of them.
Activate ==
    /\ SetActiveStores
    /\ seen' = IF pc["ws"] = "active_flag" THEN {} ELSE seen
    /\ UNCHANGED <<netVars, conn, connected, keyVars, relay, loaded, boundVars>>

\* SEC_KEY_ROTATE: reset and send_hello.
HandleKeyRotate ==
    /\ Receives("KEY_ROTATE")
    /\ Consume
    /\ Call("ws", "reset", "gen")
    /\ UNCHANGED <<up, conn, connected, sessionVars, keyVars, seen, relay, loaded, boundVars>>

\* A packet with the ACK flag only reaches the QoS engine, in which nothing is ever queued.
HandleAck ==
    /\ Receives("ACK")
    /\ Consume
    /\ UNCHANGED <<up, conn, connected, sessionVars, keyVars, seen, relay, taskVars, boundVars>>

\* No active session, or a replay: the packet is dropped.
DropCommand ==
    /\ Receives("COMMAND")
    /\ state # "ACTIVE" \/ ~ Fresh(seen, Packet.id)
    /\ Consume
    /\ UNCHANGED <<up, conn, connected, sessionVars, keyVars, seen, relay, taskVars, boundVars>>

\* ykp_replay_check registers the id before the payload is decrypted.
AdmitCommand ==
    /\ Receives("COMMAND")
    /\ state = "ACTIVE" /\ Fresh(seen, Packet.id)
    /\ seen' = seen \union {Packet.id}
    /\ Goto("ws", "dispatch")
    /\ UNCHANGED <<netVars, conn, connected, sessionVars, keyVars, relay, loaded, boundVars>>

\* A packet that cannot be decrypted is dropped with its id used up.
DecryptFails ==
    /\ Step("ws", "dispatch", "idle")
    /\ Packet.encrypted
    /\ ~ keyActive \/ FALSE \in CallOutcomes
    /\ Consume
    /\ UNCHANGED <<up, conn, connected, sessionVars, keyVars, seen, relay, loaded, boundVars>>

\* What relay_service_handle does to the relay.
RelayAfter(action) ==
    CASE action = "ON" -> TRUE
      [] action = "OFF" -> FALSE
      [] action = "TOGGLE" -> ~ relay
      [] OTHER -> relay

\* Dispatch to the service: a relay command is acknowledged under the id of
\* the command, a report request is answered under id 0, and anything else is
\* only logged.
HandleCommand ==
    /\ pc["ws"] = "dispatch"
    /\ Packet.encrypted => keyActive /\ TRUE \in CallOutcomes
    /\ Consume
    /\ relay' = RelayAfter(Packet.action)
    /\ CASE Packet.action \in RelayActions ->
              Transmit("ws", Data(Self, Packet.id, "echo"), "idle")
         [] Packet.action = "REPORT_REQUEST" -> Transmit("ws", Data(Self, 0, "report"), "idle")
         [] OTHER -> Goto("ws", "idle") /\ UNCHANGED <<up, connected, loaded>>
    /\ UNCHANGED <<conn, sessionVars, keyVars, seen, boundVars>>

-----------------------------------------------------------------------------
(* app_main's loop, the timer task, and the passing of time.               *)

\* Fault: rotation waits for an active session.
MainRotateWhenActive ==
    /\ pc["main"] = "idle"
    /\ needs_key_rotate
    /\ connected
    /\ state = "ACTIVE"
    /\ Call("main", "reset", "gen")
    /\ UNCHANGED <<netVars, conn, connected, sessionVars, keyVars, seen, relay, loaded, boundVars>>

\* Key rotation due and the socket is up: reset, then send_hello.
MainRotate ==
    /\ pc["main"] = "idle"
    /\ needs_key_rotate
    /\ connected
    /\ Call("main", "reset", "gen")
    /\ UNCHANGED <<netVars, conn, connected, sessionVars, keyVars, seen, relay, loaded, boundVars>>

\* The 1-minute health report, sent under id 0.
MainHealthReport ==
    /\ pc["main"] = "idle"
    /\ state = "ACTIVE"
    /\ reports < MaxReports
    /\ reports' = reports + 1
    /\ Transmit("main", Data(Self, 0, "report"), "idle")
    /\ UNCHANGED <<down, conn, sessionVars, keyVars, seen, relay, presses>>

\* button_debounce_timer_callback with the button held.
ButtonPress ==
    /\ pc["timer"] = "idle"
    /\ presses < MaxPresses
    /\ presses' = presses + 1
    /\ relay' = ~ relay
    /\ Call("timer", "load", "button_send")
    /\ UNCHANGED <<netVars, conn, connected, sessionVars, keyVars, seen, loaded, reports>>

ButtonReport ==
    /\ pc["timer"] = "button_send"
    /\ Transmit("timer", Data(Self, loaded["timer"], "button"), "idle")
    /\ UNCHANGED <<down, conn, sessionVars, keyVars, seen, relay, boundVars>>

\* YKP_KEY_ROTATE_INTERVAL_MS has passed since the session started.
SessionAges ==
    /\ age = "recent"
    /\ age' = "old"
    /\ UNCHANGED <<netVars, conn, connected, state, session_id, counterVars, keyVars,
                   seen, relay, taskVars, boundVars>>

\* connection_manager_task: after three minutes without a WebSocket the device
\* restarts, and app_main initialises every context again.  (eph goes on
\* counting, so that every key pair ever generated stays distinct.)
Reboot ==
    /\ ~ connected
    /\ conn > 0
    /\ state' = "IDLE"
    /\ session_id' = 0
    /\ packet_counter' = 1
    /\ needs_key_rotate' = FALSE
    /\ age' = "none"
    /\ keyActive' = FALSE
    /\ seen' = {}
    /\ relay' = FALSE
    /\ pc' = [t \in Tasks |-> "idle"]
    /\ back' = [t \in Tasks |-> "idle"]
    /\ loaded' = [t \in Tasks |-> 0]
    /\ UNCHANGED <<netVars, conn, connected, eph, boundVars>>

-----------------------------------------------------------------------------

send_hello(t) == GenEphemeral(t) \/ SendHello(t) \/ MarkHelloSent(t)

WsTask ==
    \/ ykp_session_reset("ws") \/ ykp_session_next_packet_id("ws") \/ send_hello("ws")
    \/ HandleChallenge \/ SendEcdhResponse \/ MarkEcdhSent
    \/ HandleSessionActive \/ Activate \/ HandleKeyRotate \/ HandleAck
    \/ DropCommand \/ AdmitCommand \/ DecryptFails \/ HandleCommand

MainTask ==
    \/ MainRotate
    \/ ykp_session_reset("main") \/ ykp_session_next_packet_id("main") \/ send_hello("main")

TimerTask ==
    ykp_session_reset("timer") \/ ykp_session_next_packet_id("timer") \/ ButtonReport

DeviceNext ==
    \/ on_ws_connected \/ on_ws_disconnected \/ CloseFrame
    \/ WsTask \/ MainTask \/ TimerTask
    \/ MainHealthReport \/ ButtonPress \/ SessionAges \/ Reboot
=============================================================================
