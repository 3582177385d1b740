---------------------------- MODULE Connectivity ----------------------------
(***************************************************************************)
(* How the device gets and stays online: wifi/wifi_manager.c, the WiFi     *)
(* callbacks and the connection manager of main.c, over WsClient.          *)
(*                                                                         *)
(* Nothing in the firmware reassociates after a WiFi loss and nothing      *)
(* restarts a client whose server closed the connection: the connection    *)
(* manager's restart after MAX_FAILS failed looks is what brings the       *)
(* device back.                                                            *)
(***************************************************************************)
EXTENDS WsClient

CONSTANTS MAX_FAILS,   \* 90 looks, 2 s apart
          MaxFaults,   \* bound: things that go wrong
          MaxEvents    \* bound: WiFi events not handled yet

ASSUME ConnectivityAssumption ==
    /\ MAX_FAILS \in Nat \ {0}
    /\ MaxFaults \in Nat
    /\ MaxEvents \in Nat

VARIABLES
    s_state,      \* wifi_manager.c
    station,      \* the WiFi driver: associated or not
    events,       \* events posted to the default loop, in order
    fail_count,   \* of connection_manager_task
    faults        \* what may still go wrong

netVars == <<s_state, station, events, fail_count, faults>>
vars == <<wsVars, netVars>>

TypeOK ==
    /\ WsTypeOK
    /\ s_state \in {"DISCONNECTED", "CONNECTING", "CONNECTED", "FAILED"}
    /\ station \in {"off", "connecting", "on"}
    /\ events \in Seq({"GOT_IP", "STA_DISCONNECTED"}) /\ Len(events) <= MaxEvents
    /\ fail_count \in 0 .. MAX_FAILS
    /\ faults \in 0 .. MaxFaults

Init ==
    /\ WsInit
    /\ s_state = "DISCONNECTED" /\ station = "off" /\ events = <<>>
    /\ fail_count = 0
    /\ faults = MaxFaults

Fault == faults > 0 /\ faults' = faults - 1

-----------------------------------------------------------------------------
(* WiFi.                                                                   *)

\* connection_manager_task's one call, when it starts.
wifi_manager_connect_async ==
    /\ s_state = "DISCONNECTED"
    /\ s_state' = "CONNECTING"
    /\ station' = "connecting"
    /\ UNCHANGED <<wsVars, events, fail_count, faults>>

Post(event) ==
    /\ Len(events) < MaxEvents
    /\ events' = Append(events, event)

\* The driver associates and is given an address.
Associate ==
    /\ station = "connecting"
    /\ station' = "on"
    /\ Post("GOT_IP")
    /\ UNCHANGED <<wsVars, s_state, fail_count, faults>>

AssociateFails ==
    /\ station = "connecting"
    /\ Fault
    /\ station' = "off"
    /\ Post("STA_DISCONNECTED")
    /\ UNCHANGED <<wsVars, s_state, fail_count>>

\* The access point is lost; an open connection is not told.
WifiLost ==
    /\ station = "on"
    /\ Fault
    /\ station' = "off"
    /\ Post("STA_DISCONNECTED")
    /\ peer' = IF transport = "open" THEN "dead" ELSE peer
    /\ UNCHANGED <<connection, s_ws_client, run, task, close_sent, wait_for_pong_resp,
                   sender, hello, first, s_state, fail_count>>

\* The address is renewed with another one.
NewAddress ==
    /\ station = "on"
    /\ Fault
    /\ Post("GOT_IP")
    /\ UNCHANGED <<wsVars, s_state, station, fail_count>>

\* wifi_event_handler, GOT_IP: on_wifi_connected waits for the time, whatever the
\* outcome, and starts the client; that it is running, or missing, or that
\* its task cannot be created, is not noticed.  While it waits, a task created
\* for an earlier address begins.
GotIp ==
    /\ events # <<>> /\ Head(events) = "GOT_IP"
    /\ \A t \in Tasks : task[t] # "begin"
    /\ events' = Tail(events)
    /\ s_state' = "CONNECTED"
    /\ \/ ykp_ws_connect /\ UNCHANGED faults
       \/ ~ CanStart /\ UNCHANGED <<wsVars, faults>>
       \/ CanStart /\ Fault /\ UNCHANGED wsVars
    /\ UNCHANGED <<station, fail_count>>

\* Fault: the handler reports the loss without recording it.
StaDisconnectedUnrecorded ==
    /\ events # <<>> /\ Head(events) = "STA_DISCONNECTED"
    /\ events' = Tail(events)
    /\ UNCHANGED <<wsVars, s_state, station, fail_count, faults>>

StaDisconnected ==
    /\ events # <<>> /\ Head(events) = "STA_DISCONNECTED"
    /\ events' = Tail(events)
    /\ s_state' = "FAILED"
    /\ UNCHANGED <<wsVars, station, fail_count, faults>>

-----------------------------------------------------------------------------
(* The WebSocket on this network.                                          *)

WsConnect ==
    /\ station = "on"
    /\ \E t \in Tasks : Connect(t)
    /\ UNCHANGED netVars

\* Without WiFi connecting fails; with it, it fails when something is wrong.
WsConnectFails ==
    /\ \E t \in Tasks : ConnectFails(t)
    /\ \/ station # "on" /\ UNCHANGED faults
       \/ station = "on" /\ Fault
    /\ UNCHANGED <<s_state, station, events, fail_count>>

WsTask(t) == TaskStep(t) /\ UNCHANGED netVars
WsAbort == AbortStep /\ UNCHANGED netVars
WsSender == SenderStep /\ UNCHANGED netVars

ServerFrame ==
    /\ \E frame \in {"DATA", "PING"} : Arrive(frame)
    /\ UNCHANGED netVars

ServerFault ==
    /\ Arrive("CLOSE") \/ \E how \in {"gone", "dead"} : Break(how)
    /\ Fault
    /\ UNCHANGED <<s_state, station, events, fail_count>>

-----------------------------------------------------------------------------
(* connection_manager_task.                                                *)

\* Associating, the time and connecting together take less than the
\* MAX_FAILS looks: a look that could be the last one waits for them.
Settling ==
    \/ s_state = "DISCONNECTED"
    \/ station = "connecting"
    \/ events # <<>>
    \/ \E t \in Tasks : task[t] = "begin"
    \/ state = "INIT" /\ station = "on"

Look ==
    /\ ~ Settling
    /\ fail_count' = IF ykp_ws_is_connected THEN 0 ELSE fail_count + 1
    /\ fail_count' < MAX_FAILS
    /\ UNCHANGED <<wsVars, s_state, station, events, faults>>

\* esp_restart and app_main, which goes on when ykp_ws_init has failed.
Restart ==
    /\ ~ Settling
    /\ ~ ykp_ws_is_connected /\ fail_count + 1 >= MAX_FAILS
    /\ \/ WsBoot(TRUE) /\ UNCHANGED faults
       \/ WsBoot(FALSE) /\ Fault
    /\ s_state' = "DISCONNECTED" /\ station' = "off" /\ events' = <<>>
    /\ fail_count' = 0

Next ==
    \/ wifi_manager_connect_async \/ Associate \/ AssociateFails \/ WifiLost \/ NewAddress
    \/ GotIp \/ StaDisconnected
    \/ WsConnect \/ WsConnectFails \/ WsAbort \/ WsSender
    \/ \E t \in Tasks : WsTask(t)
    \/ ServerFrame \/ ServerFault
    \/ Look \/ Restart

\* Every task runs and every timer expires: the driver answers, the handler, the
\* client's task and the connection manager go on.  The ping timers are looked at
\* once per iteration, so they are found expired infinitely often.
Fairness ==
    /\ WF_vars(wifi_manager_connect_async) /\ WF_vars(Associate)
    /\ WF_vars(GotIp) /\ WF_vars(StaDisconnected)
    /\ WF_vars(WsConnect) /\ WF_vars(WsConnectFails) /\ WF_vars(WsAbort)
    /\ \A t \in Tasks :
           /\ WF_vars(WsTask(t))
           /\ SF_vars(Ping(t) /\ UNCHANGED netVars)
           /\ SF_vars(PongTimeout(t) /\ UNCHANGED netVars)
    /\ WF_vars(Look) /\ WF_vars(Restart)

Spec == Init /\ [][Next]_vars /\ Fairness

-----------------------------------------------------------------------------
(* Properties.                                                             *)

\* When the events are handled the manager's state says whether there is WiFi,
\* although GOT_IP is handled ten seconds late and WiFi may be gone by then.
WifiStateTrue == events = <<>> => (s_state = "CONNECTED" <=> station = "on")

\* However the connection is lost (WiFi gone, server closed it, socket broken,
\* peer silent, client not even created), once things stop going wrong the device
\* is connected to a live server for good.
EndsOnline == <>[](ykp_ws_is_connected /\ transport = "open" /\ peer = "up")
=============================================================================
