------------------------------ MODULE WsClient ------------------------------
(***************************************************************************)
(* The device's WebSocket: the client component (managed_components,       *)
(* esp_websocket_client.c) with the wrapper around it                      *)
(* (transport/ykp_websocket.c) and on_ws_connected of main.c.              *)
(*                                                                         *)
(* The client's task loops over its state; other tasks send, and read the  *)
(* state and the wrapper's flag, which no lock protects.  What a task does *)
(* under client->lock without changing what is read so is one step; the    *)
(* lock is held over several in the CONNECTED event, whose handler waits   *)
(* 500 ms before it sends HELLO, and while a connection is given up.       *)
(* Events are dispatched in the task that causes them, so a send that      *)
(* fails runs the DISCONNECTED handler in the sender's task, and in the    *)
(* middle of the CONNECTED handler when it is HELLO that failed.           *)
(*                                                                         *)
(* esp_websocket_client_start looks at the client's state alone, and a     *)
(* task that ends sets it to UNKNOW before it closes the transport and     *)
(* again after: a second task may run while the first one ends.            *)
(*                                                                         *)
(* The firmware's configuration: one lock for both directions, auto        *)
(* reconnect, no close_reconnect, no redirects.  It never stops a client.  *)
(***************************************************************************)
EXTENDS Integers, Sequences

CONSTANTS Tasks,        \* bound: client tasks that exist at the same time
          MaxFrames     \* bound: frames received and not read yet

ASSUME WsAssumption ==
    /\ Tasks # {} /\ {"none", "sender"} \cap Tasks = {}
    /\ MaxFrames \in Nat \ {0}

Frames == {"DATA", "PING", "PONG", "CLOSE"}

VARIABLES
    s_ws_client,         \* has esp_websocket_client_init returned a client?
    state,               \* client->state
    run,                 \* client->run
    task,                \* where each of the client's tasks is
    lock,                \* who holds client->lock between two steps
    aborting,            \* what it has still to do to give the connection up
    close_sent,          \* CLOSE_FRAME_SENT_BIT
    wait_for_pong_resp,
    transport,           \* is client->transport open?
    peer,                \* the other end: "up", "gone" (the socket reports it)
                         \* or "dead" (nothing will ever come)
    frames,              \* frames to be read
    s_connected,         \* ykp_websocket.c
    sender,              \* another task in ykp_ws_send
    hello,               \* this connection's HELLO
    first                \* the first packet sent on this connection

connection == <<state, transport, frames, s_connected, lock, aborting>>
wsVars == <<connection, s_ws_client, run, task, close_sent, wait_for_pong_resp, peer,
            sender, hello, first>>

\* What a step of the client's task leaves alone most of the time.
untouched == <<s_ws_client, run, close_sent, wait_for_pong_resp, peer, sender, hello, first>>

WsTypeOK ==
    /\ s_ws_client \in BOOLEAN /\ run \in BOOLEAN
    /\ state \in {"UNKNOW", "INIT", "CONNECTED", "WAIT_TIMEOUT", "CLOSING"}
    /\ task \in [Tasks -> {"none", "begin", "switch", "hello", "poll", "pollerr", "recv",
                           "closing", "finish", "finished"}]
    /\ lock \in Tasks \union {"none", "sender"}
    /\ aborting \in {"no", "state", "event"}
    /\ close_sent \in BOOLEAN /\ wait_for_pong_resp \in BOOLEAN
    /\ transport \in {"open", "closed"}
    /\ peer \in {"up", "gone", "dead"}
    /\ frames \in Seq(Frames) /\ Len(frames) <= MaxFrames
    /\ s_connected \in BOOLEAN
    /\ sender \in {"idle", "lock"}
    /\ hello \in {"none", "sent", "not built", "failed"}
    /\ first \in {"none", "HELLO", "other"}

NoTask == [t \in Tasks |-> "none"]

\* A boot, with the outcome of ykp_ws_init.
WsBoot(created) ==
    /\ s_ws_client' = created
    /\ state' = "UNKNOW" /\ run' = FALSE /\ task' = NoTask
    /\ lock' = "none" /\ aborting' = "no"
    /\ close_sent' = FALSE /\ wait_for_pong_resp' = FALSE
    /\ transport' = "closed" /\ peer' = "gone" /\ frames' = <<>>
    /\ s_connected' = FALSE /\ sender' = "idle"
    /\ hello' = "none" /\ first' = "none"

WsInit ==
    /\ s_ws_client = TRUE
    /\ state = "UNKNOW" /\ run = FALSE /\ task = NoTask
    /\ lock = "none" /\ aborting = "no"
    /\ close_sent = FALSE /\ wait_for_pong_resp = FALSE
    /\ transport = "closed" /\ peer = "gone" /\ frames = <<>>
    /\ s_connected = FALSE /\ sender = "idle"
    /\ hello = "none" /\ first = "none"

esp_websocket_client_is_connected == s_ws_client /\ state = "CONNECTED"

\* Fault: the client's own state is not asked.
IsConnectedByFlag == s_connected

\* Asked without the lock.
ykp_ws_is_connected == s_connected /\ esp_websocket_client_is_connected

\* May a write fail, may it succeed?  A dead peer's window takes some more.
WriteFails == transport = "closed" \/ peer # "up"
WriteWorks == transport = "open"

\* Task t is at a place where it takes the lock, and gets it; or where it needs
\* no lock and has given back the one it had.
Locked(t, place) == task[t] = place /\ lock = "none"
Unlocked(t, place) == task[t] = place /\ lock # t

Goto(t, place) == task' = [task EXCEPT ![t] = place]

\* The end of an iteration: "while (client->run)".
Again == IF run THEN "switch" ELSE "finish"

-----------------------------------------------------------------------------
(* esp_websocket_client_abort_connection, with the DISCONNECTED event and  *)
(* its handler.  Whoever runs it holds the lock, and others see each of    *)
(* its three stores.                                                       *)

abort_connection(who) ==
    /\ IF state \in {"CLOSING", "UNKNOW", "WAIT_TIMEOUT"}
       THEN lock' = "none" /\ UNCHANGED <<transport, frames, aborting>>
       ELSE /\ transport' = "closed" /\ frames' = <<>>
            /\ lock' = who /\ aborting' = "state"
    /\ UNCHANGED <<state, s_connected>>

AbortState ==
    /\ aborting = "state"
    /\ state' = "WAIT_TIMEOUT"
    /\ aborting' = "event"
    /\ UNCHANGED <<transport, frames, s_connected, lock, task, untouched>>

AbortEvent ==
    /\ aborting = "event"
    /\ s_connected' = FALSE
    /\ aborting' = "no" /\ lock' = "none"
    /\ UNCHANGED <<state, transport, frames, task, untouched>>

AbortStep == AbortState \/ AbortEvent

\* esp_websocket_client_send_with_exact_opcode, once who has the lock.
Written(kind) ==
    /\ WriteWorks
    /\ first' = IF first = "none" THEN kind ELSE first
    /\ lock' = "none"
    /\ UNCHANGED <<state, transport, frames, s_connected, aborting>>

NotWritten(who) == WriteFails /\ abort_connection(who) /\ UNCHANGED first

-----------------------------------------------------------------------------
(* ykp_ws_connect: esp_websocket_client_start frees the last transport and *)
(* creates a task.                                                         *)

CanStart == s_ws_client /\ state = "UNKNOW" /\ \E t \in Tasks : task[t] = "none"

ykp_ws_connect ==
    /\ CanStart
    /\ Goto(CHOOSE t \in Tasks : task[t] = "none", "begin")
    /\ transport' = "closed" /\ frames' = <<>>
    /\ close_sent' = FALSE
    /\ UNCHANGED <<s_ws_client, state, run, lock, aborting, wait_for_pong_resp, peer,
                   s_connected, sender, hello, first>>

TaskBegin(t) ==
    /\ Unlocked(t, "begin")
    /\ run' = TRUE
    /\ state' = "INIT"
    /\ close_sent' = FALSE
    /\ Goto(t, "switch")
    /\ UNCHANGED <<s_ws_client, lock, aborting, wait_for_pong_resp, transport, peer, frames,
                   s_connected, sender, hello, first>>

-----------------------------------------------------------------------------
(* The locked part of an iteration of esp_websocket_client_task.           *)

ConnectFails(t) ==
    /\ Locked(t, "switch") /\ state = "INIT"
    /\ abort_connection(t)
    /\ Goto(t, "poll")
    /\ UNCHANGED untouched

\* Fault: on_ws_connected leaves HELLO to another task and returns.
ConnectHelloUnlocked(t) ==
    /\ Locked(t, "switch") /\ state = "INIT"
    /\ state' = "CONNECTED"
    /\ wait_for_pong_resp' = FALSE
    /\ transport' = "open" /\ peer' = "up" /\ frames' = <<>>
    /\ s_connected' = TRUE
    /\ hello' = "none" /\ first' = "none"
    /\ Goto(t, "poll")
    /\ UNCHANGED <<s_ws_client, run, lock, aborting, close_sent, sender>>

\* The connection is up; ws_event_handler marks it and calls on_ws_connected.
Connect(t) ==
    /\ Locked(t, "switch") /\ state = "INIT"
    /\ state' = "CONNECTED"
    /\ wait_for_pong_resp' = FALSE
    /\ transport' = "open" /\ peer' = "up" /\ frames' = <<>>
    /\ s_connected' = TRUE
    /\ hello' = "none" /\ first' = "none"
    /\ lock' = t
    /\ Goto(t, "hello")
    /\ UNCHANGED <<s_ws_client, run, aborting, close_sent, sender>>

\* send_hello, 500 ms later: keys or packet may be missing, the write may fail.
SendHello(t) ==
    /\ task[t] = "hello" /\ lock = t
    /\ \/ hello' = "sent" /\ Written("HELLO")
       \/ hello' = "failed" /\ NotWritten(t)
       \/ /\ hello' = "not built" /\ lock' = "none"
          /\ UNCHANGED <<state, transport, frames, s_connected, aborting, first>>
    /\ Goto(t, "poll")
    /\ UNCHANGED <<s_ws_client, run, close_sent, wait_for_pong_resp, peer, sender>>

\* Connected, and neither timer has expired; or a state the switch has no case for.
Idle(t) ==
    /\ Locked(t, "switch") /\ state \in {"CONNECTED", "UNKNOW"}
    /\ Goto(t, "poll")
    /\ UNCHANGED <<connection, untouched>>

Ponged == IF peer = "up" /\ Len(frames) < MaxFrames THEN Append(frames, "PONG") ELSE frames

\* Fault: the device does not remember that it waits for a PONG.
PingForgotten(t) ==
    /\ Locked(t, "switch") /\ state = "CONNECTED"
    /\ frames' = Ponged
    /\ Goto(t, "poll")
    /\ UNCHANGED <<untouched, state, transport, s_connected, lock, aborting>>

\* The ping interval is over.  That the write fails is not noticed here.
Ping(t) ==
    /\ Locked(t, "switch") /\ state = "CONNECTED"
    /\ wait_for_pong_resp' = TRUE
    /\ frames' = Ponged
    /\ Goto(t, "poll")
    /\ UNCHANGED <<s_ws_client, run, close_sent, peer, sender, hello, first,
                   state, transport, s_connected, lock, aborting>>

\* No PONG for 120 s: a peer that is up answers in that time.
PongTimeout(t) ==
    /\ Locked(t, "switch") /\ state = "CONNECTED"
    /\ wait_for_pong_resp /\ peer # "up"
    /\ abort_connection(t)
    /\ Goto(t, "poll")
    /\ UNCHANGED untouched

\* YKP_WS_RECONNECT_MS after the connection was lost: a task that waits for the
\* lock has got it by then.
Reconnect(t) ==
    /\ Locked(t, "switch") /\ state = "WAIT_TIMEOUT"
    /\ \A u \in Tasks : task[u] \notin {"pollerr", "recv"}
    /\ state' = "INIT"
    /\ Goto(t, "poll")
    /\ UNCHANGED <<untouched, transport, frames, s_connected, lock, aborting>>

\* The server's CLOSE is echoed.
EchoClose(t) ==
    /\ Locked(t, "switch") /\ state = "CLOSING"
    /\ close_sent' = TRUE
    /\ Goto(t, "poll")
    /\ UNCHANGED <<connection, s_ws_client, run, wait_for_pong_resp, peer, sender, hello, first>>

-----------------------------------------------------------------------------
(* The part after the lock is released.                                    *)

\* esp_transport_poll_read: whether the transport is still the one it was is not
\* known here.
Poll(t) ==
    /\ Unlocked(t, "poll") /\ state = "CONNECTED"
    /\ \E next \in (IF transport = "closed" THEN {"pollerr"}
                    ELSE IF frames # <<>> THEN {"recv"}
                    ELSE IF peer = "gone" THEN {"pollerr", "recv"}
                    ELSE {Again}) : Goto(t, next)
    /\ UNCHANGED <<connection, untouched>>

\* Nothing to poll: the next iteration, at once when another task's end has set
\* UNKNOW.
Wait(t) ==
    /\ Unlocked(t, "poll")
    /\ \/ state \in {"INIT", "WAIT_TIMEOUT", "UNKNOW"}
       \/ state = "CLOSING" /\ ~ close_sent
    /\ Goto(t, Again)
    /\ UNCHANGED <<connection, untouched>>

\* After the echo, for a second, for the server to close.
AwaitClose(t) ==
    /\ Unlocked(t, "poll") /\ state = "CLOSING" /\ close_sent
    /\ Goto(t, "closing")
    /\ UNCHANGED <<connection, untouched>>

\* Out of the loop: close_reconnect is not set, and the CLOSED and FINISH events
\* are none that ws_event_handler knows.
Closing(t) ==
    /\ Unlocked(t, "closing")
    /\ run' = FALSE /\ state' = "UNKNOW"
    /\ Goto(t, "finish")
    /\ UNCHANGED <<s_ws_client, close_sent, wait_for_pong_resp, peer, sender, hello, first,
                   transport, frames, s_connected, lock, aborting>>

\* The end of the task takes no lock: what it closes may be another task's.
FinishClose(t) ==
    /\ Unlocked(t, "finish")
    /\ transport' = "closed" /\ frames' = <<>>
    /\ Goto(t, "finished")
    /\ UNCHANGED <<untouched, state, s_connected, lock, aborting>>

FinishState(t) ==
    /\ Unlocked(t, "finished")
    /\ state' = "UNKNOW"
    /\ Goto(t, "none")
    /\ UNCHANGED <<untouched, transport, frames, s_connected, lock, aborting>>

PollError(t) ==
    /\ Locked(t, "pollerr")
    /\ abort_connection(t)
    /\ Goto(t, Again)
    /\ UNCHANGED untouched

\* esp_websocket_client_recv finds the transport closed by another task's abort,
\* or the peer gone.
RecvFails(t) ==
    /\ Locked(t, "recv")
    /\ transport = "closed" \/ (frames = <<>> /\ peer = "gone")
    /\ abort_connection(t)
    /\ Goto(t, Again)
    /\ UNCHANGED untouched

\* Another task has read the frame: the time-out is no error.
RecvNothing(t) ==
    /\ Locked(t, "recv")
    /\ transport = "open" /\ frames = <<>> /\ peer # "gone"
    /\ Goto(t, Again)
    /\ UNCHANGED <<connection, untouched>>

Receives(t, frame) ==
    Locked(t, "recv") /\ transport = "open" /\ frames # <<>> /\ Head(frames) = frame

RecvControl(t, frame) ==
    /\ Receives(t, frame)
    /\ wait_for_pong_resp' = (wait_for_pong_resp /\ frame # "PONG")
    /\ state' = IF frame = "CLOSE" THEN "CLOSING" ELSE state
    /\ frames' = Tail(frames)
    /\ Goto(t, Again)
    /\ UNCHANGED <<s_ws_client, run, close_sent, peer, sender, hello, first,
                   transport, s_connected, lock, aborting>>

\* A packet: handle_incoming_packet may answer it, in this task.
RecvData(t) ==
    /\ Receives(t, "DATA")
    /\ \/ /\ frames' = Tail(frames)
          /\ first' \in {first} \union
                 (IF ykp_ws_is_connected /\ first = "none" THEN {"other"} ELSE {})
          /\ UNCHANGED <<state, transport, s_connected, lock, aborting>>
       \/ ykp_ws_is_connected /\ NotWritten(t)
    /\ Goto(t, Again)
    /\ UNCHANGED <<s_ws_client, run, close_sent, wait_for_pong_resp, peer, sender, hello>>

-----------------------------------------------------------------------------
(* ykp_ws_send in another task (button, main loop).                        *)

SenderChecks ==
    /\ sender = "idle" /\ lock # "sender"
    /\ ykp_ws_is_connected
    /\ sender' = "lock"
    /\ UNCHANGED <<connection, s_ws_client, run, task, close_sent, wait_for_pong_resp, peer,
                   hello, first>>

\* It has the lock; the state may have changed since it was checked.
SenderWrites ==
    /\ sender = "lock" /\ lock = "none"
    /\ Written("other") \/ NotWritten("sender")
    /\ sender' = "idle"
    /\ UNCHANGED <<s_ws_client, run, task, close_sent, wait_for_pong_resp, peer, hello>>

\* It does not get the lock within 3 s, or has no buffer.
SenderGivesUp ==
    /\ sender = "lock"
    /\ sender' = "idle"
    /\ UNCHANGED <<connection, s_ws_client, run, task, close_sent, wait_for_pong_resp, peer,
                   hello, first>>

\* Everything a client's task does by itself once it is started.
TaskStep(t) ==
    \/ TaskBegin(t) \/ SendHello(t) \/ Idle(t) \/ Ping(t) \/ PongTimeout(t)
    \/ Reconnect(t) \/ EchoClose(t) \/ Poll(t) \/ Wait(t) \/ AwaitClose(t) \/ Closing(t)
    \/ FinishClose(t) \/ FinishState(t) \/ PollError(t) \/ RecvFails(t) \/ RecvNothing(t)
    \/ RecvData(t)
    \/ \E frame \in {"PING", "PONG", "CLOSE"} : RecvControl(t, frame)

SenderStep == SenderChecks \/ SenderWrites \/ SenderGivesUp

-----------------------------------------------------------------------------
(* The server and the network.                                             *)

\* A frame arrives.  CLOSE is the last one.
Arrive(frame) ==
    /\ transport = "open" /\ peer = "up"
    /\ Len(frames) < MaxFrames
    /\ \A k \in 1 .. Len(frames) : frames[k] # "CLOSE"
    /\ frames' = Append(frames, frame)
    /\ UNCHANGED <<untouched, task, state, transport, s_connected, lock, aborting>>

\* The connection breaks, with or without the device being told.
Break(how) ==
    /\ transport = "open" /\ peer = "up"
    /\ peer' = how
    /\ UNCHANGED <<connection, s_ws_client, run, task, close_sent, wait_for_pong_resp,
                   sender, hello, first>>

-----------------------------------------------------------------------------
(* Properties.                                                             *)

\* HELLO is the first packet of every connection on which it could be built and
\* its write did not fail: the button and the main loop pass ykp_ws_is_connected
\* from the moment of the CONNECTED event, and only the lock the event's handler
\* runs under keeps their packets behind HELLO (main.c on_ws_connected,
\* ykp_websocket.c ws_event_handler).
HelloFirst == first = "other" => hello \in {"not built", "failed"}

\* While the client waits to reconnect the wrapper's flag is down, but for the
\* moment until the DISCONNECTED event is handled; also when the connection was
\* lost while the CONNECTED handler was running.
WaitingIsDown == state = "WAIT_TIMEOUT" => ~ s_connected \/ aborting = "event"

\* ykp_ws_is_connected, which takes no lock, calls a closed transport connected
\* in two places only: between esp_transport_close and the store of the state in
\* abort_connection, and in the end of a task beside which another was started.
ConnectedIsOpen ==
    ykp_ws_is_connected /\ transport = "closed" =>
        aborting = "state" \/ \E t \in Tasks : task[t] = "finished"
=============================================================================
