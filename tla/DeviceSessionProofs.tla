------------------------ MODULE DeviceSessionProofs ------------------------
(***************************************************************************)
(* The firmware's session for every rotation threshold, number of          *)
(* connections, presses and packets: first with a server that sends any    *)
(* packet the firmware understands at any time (AnySpec), then joined with *)
(* the server of this repository (Spec of YkpLink).                        *)
(***************************************************************************)
EXTENDS MCDeviceSession, YkpLink, SequenceTheorems, TLAPS

-----------------------------------------------------------------------------
(* Control.                                                                *)

\* Every label but the one between the admission and the dispatch of a command.
Plain == Labels \ {"dispatch"}

LEMMA PlainLabels ==
  /\ "idle" \in Plain /\ "gen" \in Plain /\ "hello_send" \in Plain /\ "hello_mark" \in Plain
  /\ "ecdh_send" \in Plain /\ "ecdh_mark" \in Plain /\ "button_send" \in Plain
  /\ "reset" \in Plain /\ "reset_id" \in Plain /\ "reset_counter" \in Plain
  /\ "reset_flag" \in Plain /\ "reset_start" \in Plain /\ "reset_key" \in Plain
  /\ "load" \in Plain /\ "store" \in Plain
  /\ "age" \in Plain /\ "age_raise" \in Plain /\ "count" \in Plain /\ "count_raise" \in Plain
  /\ "active_state" \in Plain /\ "active_start" \in Plain
  /\ "active_counter" \in Plain /\ "active_flag" \in Plain
BY DEF Plain, Labels, Resetting, Checking, Numbering, Activating

LEMMA TaskSet == "ws" \in Tasks /\ "main" \in Tasks /\ "timer" \in Tasks
BY DEF Tasks

\* Task t goes on somewhere, and the others stay where they are.
Moves(t) == \E l, r \in Plain : Goto(t, l) \/ Call(t, l, r) \/ Return(t)

ControlTyped == pc \in [Tasks -> Labels] /\ back \in [Tasks -> Plain]

LEMMA MovesTyped ==
  ASSUME ControlTyped, NEW t \in Tasks, Moves(t)
  PROVE  /\ ControlTyped'
         /\ pc'[t] \in Plain
         /\ \A u \in Tasks \ {t} : pc'[u] = pc[u]
<1>1. PICK l \in Plain, r \in Plain : Goto(t, l) \/ Call(t, l, r) \/ Return(t)
  BY DEF Moves
<1>2. "idle" \in Plain /\ Plain \subseteq Labels
  BY PlainLabels DEF Plain
<1>3. CASE Goto(t, l)
  BY <1>2, <1>3 DEF Goto, ControlTyped
<1>4. CASE Call(t, l, r)
  BY <1>2, <1>4 DEF Call, ControlTyped
<1>5. CASE Return(t)
  BY <1>2, <1>5 DEF Return, ControlTyped
<1> QED BY <1>1, <1>3, <1>4, <1>5

LEMMA GotoMoves == ASSUME NEW t, NEW l \in Plain, Goto(t, l) PROVE Moves(t)
BY DEF Moves

LEMMA StepMoves == ASSUME NEW t, NEW from, NEW to \in Plain, Step(t, from, to) PROVE Moves(t)
BY DEF Moves, Step

LEMMA CallMoves == ASSUME NEW t, NEW l \in Plain, NEW r \in Plain, Call(t, l, r) PROVE Moves(t)
BY DEF Moves

LEMMA ReturnMoves == ASSUME NEW t, Return(t) PROVE Moves(t)
BY PlainLabels, Zenon DEF Moves

LEMMA TransmitMoves == ASSUME NEW t, NEW p, NEW next \in Plain, Transmit(t, p, next) PROVE Moves(t)
BY GotoMoves, CallMoves, PlainLabels, Zenon DEF Transmit

\* A step of the task t that begins outside ykp_session_next_packet_id.
Elsewhere(t) == pc[t] \notin Checking /\ Moves(t)

LEMMA NotChecking ==
  \A l \in {"idle", "gen", "hello_send", "hello_mark", "ecdh_send", "ecdh_mark", "dispatch",
            "button_send", "reset", "reset_id", "reset_counter", "reset_flag", "reset_start",
            "reset_key", "active_state", "active_start", "active_counter", "active_flag",
            "load", "store"} : l \notin Checking
BY DEF Checking

LEMMA NumberingMoves == ASSUME NEW t, ykp_session_next_packet_id(t) PROVE Moves(t)
<1>1. ASSUME LoadCounter(t) \/ StoreCounter(t) PROVE Moves(t)
  BY <1>1, StepMoves, PlainLabels, Zenon DEF LoadCounter, StoreCounter
<1>2. ASSUME CheckAge(t) PROVE Moves(t)
  <2>1. (IF age = "old" THEN "age_raise" ELSE "count") \in Plain
    BY PlainLabels
  <2> QED BY <1>2, <2>1, StepMoves, Zenon DEF CheckAge
<1>3. ASSUME CheckCount(t) PROVE Moves(t)
  <2>1. CASE packet_counter >= RotateAt
    BY <1>3, <2>1, GotoMoves, PlainLabels DEF CheckCount
  <2>2. CASE ~ (packet_counter >= RotateAt)
    BY <1>3, <2>2, ReturnMoves DEF CheckCount
  <2> QED BY <2>1, <2>2
<1>4. ASSUME RaiseFlag(t) PROVE Moves(t)
  BY <1>4, StepMoves, ReturnMoves, PlainLabels, Zenon DEF RaiseFlag
<1> QED BY <1>1, <1>2, <1>3, <1>4, Zenon DEF ykp_session_next_packet_id

LEMMA ResetMoves == ASSUME NEW t, ykp_session_reset(t) PROVE Elsewhere(t)
<1>1. Moves(t)
  BY StepMoves, ReturnMoves, PlainLabels, Zenon DEF ykp_session_reset
<1>2. pc[t] \in {"reset", "reset_id", "reset_counter", "reset_flag", "reset_start", "reset_key"}
  BY DEF ykp_session_reset, Step
<1> QED BY <1>1, <1>2, NotChecking DEF Elsewhere

LEMMA HelloMoves == ASSUME NEW t, send_hello(t) PROVE Elsewhere(t)
<1>1. ASSUME GenEphemeral(t) PROVE Elsewhere(t)
  <2>1. Moves(t)
    BY <1>1, GotoMoves, CallMoves, PlainLabels, Zenon DEF GenEphemeral
  <2> QED BY <1>1, <2>1, NotChecking DEF Elsewhere, GenEphemeral
<1>2. ASSUME SendHello(t) PROVE Elsewhere(t)
  <2>1. Moves(t)
    BY <1>2, TransmitMoves, PlainLabels, Zenon DEF SendHello
  <2> QED BY <1>2, <2>1, NotChecking DEF Elsewhere, SendHello
<1>3. ASSUME MarkHelloSent(t) PROVE Elsewhere(t)
  <2>1. Moves(t)
    BY <1>3, StepMoves, PlainLabels, Zenon DEF MarkHelloSent
  <2> QED BY <1>3, <2>1, NotChecking DEF Elsewhere, MarkHelloSent, Step
<1> QED BY <1>1, <1>2, <1>3 DEF send_hello

\* The steps that leave every task where it is.
Still == UNCHANGED <<pc, back>>

LEMMA CommandMoves == DecryptFails \/ HandleCommand => Elsewhere("ws")
<1>1. ASSUME DecryptFails PROVE Elsewhere("ws")
  <2>1. Moves("ws")
    BY <1>1, StepMoves, PlainLabels, Zenon DEF DecryptFails
  <2> QED BY <1>1, <2>1, NotChecking DEF DecryptFails, Elsewhere, Step
<1>2. ASSUME HandleCommand PROVE Elsewhere("ws")
  <2>1. \/ \E p : Transmit("ws", p, "idle")
        \/ Goto("ws", "idle")
    BY <1>2 DEF HandleCommand
  <2>2. Moves("ws")
    BY <2>1, TransmitMoves, GotoMoves, PlainLabels, Zenon
  <2> QED BY <1>2, <2>2, NotChecking DEF HandleCommand, Elsewhere
<1> QED BY <1>1, <1>2

LEMMA HandlerMoves ==
  ASSUME \/ HandleChallenge \/ SendEcdhResponse \/ MarkEcdhSent
         \/ HandleSessionActive \/ Activate \/ HandleKeyRotate \/ HandleAck
         \/ DropCommand \/ DecryptFails \/ HandleCommand
  PROVE  Still \/ Elsewhere("ws")
<1>r. \A kind : Receives(kind) => pc["ws"] \notin Checking
  BY NotChecking DEF Receives
<1>1. ASSUME HandleChallenge PROVE Still \/ Elsewhere("ws")
  BY <1>1, <1>r, CallMoves, PlainLabels, Zenon DEF HandleChallenge, Still, Elsewhere
<1>2. ASSUME SendEcdhResponse PROVE Elsewhere("ws")
  <2>1. Moves("ws")
    BY <1>2, TransmitMoves, PlainLabels, Zenon DEF SendEcdhResponse
  <2> QED BY <1>2, <2>1, NotChecking DEF SendEcdhResponse, Elsewhere
<1>3. ASSUME MarkEcdhSent PROVE Elsewhere("ws")
  <2>1. Moves("ws")
    BY <1>3, StepMoves, PlainLabels, Zenon DEF MarkEcdhSent
  <2> QED BY <1>3, <2>1, NotChecking DEF MarkEcdhSent, Elsewhere, Step
<1>4. ASSUME HandleSessionActive PROVE Elsewhere("ws")
  BY <1>4, <1>r, GotoMoves, PlainLabels, Zenon
  DEF HandleSessionActive, ykp_session_set_active, Elsewhere
<1>5. ASSUME Activate PROVE Elsewhere("ws")
  <2>1. Moves("ws")
    BY <1>5, StepMoves, PlainLabels, Zenon DEF Activate, SetActiveStores
  <2>2. pc["ws"] \in {"active_state", "active_start", "active_counter", "active_flag"}
    BY <1>5 DEF Activate, SetActiveStores, Step
  <2> QED BY <2>1, <2>2, NotChecking DEF Elsewhere
<1>6. ASSUME HandleKeyRotate PROVE Elsewhere("ws")
  BY <1>6, <1>r, CallMoves, PlainLabels, Zenon DEF HandleKeyRotate, Elsewhere
<1>7. ASSUME HandleAck \/ DropCommand PROVE Still
  BY <1>7, Zenon DEF HandleAck, DropCommand, Still, taskVars
<1>8. ASSUME DecryptFails \/ HandleCommand PROVE Elsewhere("ws")
  BY <1>8, CommandMoves
<1> QED BY <1>1, <1>2, <1>3, <1>4, <1>5, <1>6, <1>7, <1>8, Zenon

LEMMA OtherMoves ==
  ASSUME \/ on_ws_connected \/ on_ws_disconnected \/ CloseFrame \/ MainRotate
         \/ MainHealthReport \/ ButtonPress \/ ButtonReport \/ SessionAges
  PROVE  Still \/ \E t \in Tasks : Elsewhere(t)
<1>i. "idle" \notin Checking /\ "button_send" \notin Checking
  BY NotChecking
<1>1. ASSUME on_ws_connected \/ on_ws_disconnected PROVE Elsewhere("ws")
  BY <1>1, <1>i, GotoMoves, CallMoves, PlainLabels, Zenon
  DEF on_ws_connected, on_ws_disconnected, Elsewhere
<1>2. ASSUME CloseFrame \/ SessionAges PROVE Still
  BY <1>2, Zenon DEF CloseFrame, SessionAges, Still, taskVars
<1>3. ASSUME MainRotate \/ MainHealthReport PROVE Elsewhere("main")
  BY <1>3, <1>i, CallMoves, TransmitMoves, PlainLabels, Zenon
  DEF MainRotate, MainHealthReport, Elsewhere
<1>4. ASSUME ButtonPress \/ ButtonReport PROVE Elsewhere("timer")
  BY <1>4, <1>i, CallMoves, TransmitMoves, PlainLabels, Zenon
  DEF ButtonPress, ButtonReport, Elsewhere
<1> QED BY <1>1, <1>2, <1>3, <1>4, TaskSet, Zenon

\* Where the tasks are after a step of the device.
LEMMA DeviceMoves ==
  ASSUME DeviceNext
  PROVE  \/ Still
         \/ \E t \in Tasks : Elsewhere(t)
         \/ \E t \in Tasks : ykp_session_next_packet_id(t)
         \/ AdmitCommand
         \/ Reboot
<1> DEFINE Goal == \/ Still \/ \E t \in Tasks : Elsewhere(t)
                   \/ \E t \in Tasks : ykp_session_next_packet_id(t)
                   \/ AdmitCommand \/ Reboot
<1> SUFFICES Goal
  OBVIOUS
<1>1. ASSUME NEW t \in Tasks,
             ykp_session_reset(t) \/ ykp_session_next_packet_id(t) \/ send_hello(t)
      PROVE  Goal
  BY <1>1, ResetMoves, HelloMoves, Zenon
<1>2. ASSUME WsTask PROVE Goal
  BY <1>1, <1>2, HandlerMoves, TaskSet, Zenon DEF WsTask
<1>3. ASSUME MainTask \/ TimerTask PROVE Goal
  BY <1>1, <1>3, OtherMoves, TaskSet, Zenon DEF MainTask, TimerTask
<1>4. ASSUME \/ on_ws_connected \/ on_ws_disconnected \/ CloseFrame
             \/ MainHealthReport \/ ButtonPress \/ SessionAges \/ Reboot
      PROVE  Goal
  BY <1>4, OtherMoves, Zenon
<1> HIDE DEF Goal
<1> QED BY <1>2, <1>3, <1>4, Zenon DEF DeviceNext

-----------------------------------------------------------------------------
(* Types.                                                                  *)

\* The packets each end may find in a connection.
DownPackets ==
    [kind : {"CHALLENGE"}, id : Nat, pub : Nat]
      \union [kind : {"SESSION_ACTIVE"}, id : Nat, sid : Nat]
      \union {KeyRotate}
      \union [kind : {"ACK"}, id : Nat]
      \union [kind : {"COMMAND"}, id : Nat, action : Actions, encrypted : BOOLEAN]

UpPackets ==
    [kind : {"HELLO"}, dev : {Self}, id : Nat, pub : Nat]
      \union [kind : {"ECDH_RESPONSE"}, dev : {Self}, id : Nat]
      \union [kind : {"DATA"}, dev : {Self}, id : Nat, origin : {"button", "echo", "report"}]

\* What is on its way to the device, and where.
NetTyped ==
    /\ down \in [Connections -> Seq(DownPackets)]
    /\ connected => conn \in Connections

\* A command that has been admitted is still the packet in hand when it is
\* dispatched: the lock held through the callback keeps the connection.
InHand == connected /\ down[conn] # <<>> /\ Packet.kind = "COMMAND"
Dispatching == pc["ws"] = "dispatch" => InHand

SessionTyped ==
    /\ state \in States /\ session_id \in Nat /\ packet_counter \in Nat \ {0}
    /\ needs_key_rotate \in BOOLEAN /\ age \in {"none", "recent", "old"}

RestTyped ==
    /\ conn \in 0 .. MaxConnections /\ connected \in BOOLEAN
    /\ eph \in 0 .. MaxHellos /\ keyActive \in BOOLEAN
    /\ seen \subseteq Nat /\ relay \in BOOLEAN
    /\ presses \in 0 .. MaxPresses /\ reports \in 0 .. MaxReports

LoadedTyped == loaded \in [Tasks -> Nat]

DeviceTypes ==
    /\ SessionTyped /\ RestTyped /\ LoadedTyped /\ ControlTyped
    /\ NetTyped /\ Dispatching

LEMMA DeviceTypesSuffice == DeviceTypes => DeviceTypeOK
<1>1. ControlTyped => pc \in [Tasks -> Labels] /\ back \in [Tasks -> Labels]
  BY DEF ControlTyped, Plain
<1> QED BY <1>1, Zenon DEF DeviceTypes, SessionTyped, RestTyped, LoadedTyped, DeviceTypeOK

LEMMA Bounds ==
  /\ MaxConnections \in Nat /\ MaxHellos \in Nat /\ MaxPresses \in Nat /\ MaxReports \in Nat
  /\ RotateAt \in Nat /\ RotateAt > 1
BY DeviceAssumption

LEMMA PacketFields ==
  \A p \in DownPackets : /\ p.kind = "SESSION_ACTIVE" => p.sid \in Nat
                         /\ p.kind = "COMMAND" => p.id \in Nat
BY DEF DownPackets, KeyRotate

LEMMA ServerPacketsAreDown == ServerPackets \subseteq DownPackets
BY DEF ServerPackets, DownPackets, Challenge, SessionActive, Ack, Command, Actions, RelayActions

\* The packet in hand is one the server sent.
LEMMA Received ==
  ASSUME NetTyped, connected, down[conn] # <<>>
  PROVE  /\ conn \in Connections
         /\ Packet.kind = "SESSION_ACTIVE" => Packet.sid \in Nat
         /\ Packet.kind = "COMMAND" => Packet.id \in Nat
         /\ Tail(down[conn]) \in Seq(DownPackets)
<1>1. conn \in Connections /\ down[conn] \in Seq(DownPackets)
  BY DEF NetTyped
<1>2. Head(down[conn]) \in DownPackets /\ Tail(down[conn]) \in Seq(DownPackets)
  BY <1>1, HeadTailProperties
<1> QED BY <1>1, <1>2, PacketFields DEF Packet

LEMMA ConsumeTyped ==
  ASSUME NetTyped, connected, down[conn] # <<>>, Consume, conn' = conn
  PROVE  NetTyped'
<1>1. conn \in Connections /\ Tail(down[conn]) \in Seq(DownPackets)
  BY Received
<1>2. down' = [down EXCEPT ![conn] = Tail(down[conn])]
  BY DEF Consume
<1> QED BY <1>1, <1>2 DEF NetTyped

LEMMA SessionSteps ==
  ASSUME SessionTyped, LoadedTyped, NEW t \in Tasks
  PROVE  /\ ykp_session_next_packet_id(t) => SessionTyped' /\ LoadedTyped'
         /\ ykp_session_reset(t) => SessionTyped' /\ LoadedTyped'
<1>1. loaded[t] + 1 \in Nat \ {0} /\ packet_counter \in Nat
  BY DEF LoadedTyped, SessionTyped
<1>2. ASSUME ykp_session_next_packet_id(t) PROVE SessionTyped'
  <2>1. UNCHANGED <<state, session_id, age>>
    BY <1>2, Zenon DEF ykp_session_next_packet_id
  <2>2. packet_counter' \in Nat \ {0} /\ needs_key_rotate' \in BOOLEAN
    <3>1. CASE StoreCounter(t)
      BY <1>1, <3>1, Zenon DEF StoreCounter, SessionTyped
    <3>2. CASE LoadCounter(t) \/ CheckAge(t) \/ CheckCount(t) \/ RaiseFlag(t)
      BY <3>2, Zenon DEF LoadCounter, CheckAge, CheckCount, RaiseFlag, counterVars, SessionTyped
    <3> QED BY <1>2, <3>1, <3>2, Zenon DEF ykp_session_next_packet_id
  <2> QED BY <2>1, <2>2, Zenon DEF SessionTyped
<1>3. ASSUME ykp_session_next_packet_id(t) PROVE LoadedTyped'
  <2>1. CASE LoadCounter(t) \/ CheckCount(t)
    BY <1>1, <2>1 DEF LoadCounter, CheckCount, LoadedTyped
  <2>2. CASE StoreCounter(t) \/ CheckAge(t) \/ RaiseFlag(t)
    BY <2>2, Zenon DEF StoreCounter, CheckAge, RaiseFlag, LoadedTyped
  <2> QED BY <1>3, <2>1, <2>2, Zenon DEF ykp_session_next_packet_id
<1>4. ASSUME ykp_session_reset(t) PROVE SessionTyped' /\ LoadedTyped'
  <2>1. 1 \in Nat \ {0} /\ 0 \in Nat /\ "IDLE" \in States
    BY DEF States
  <2> QED BY <1>4, <2>1, Zenon
      DEF ykp_session_reset, SessionTyped, LoadedTyped, sessionVars, counterVars
<1> QED BY <1>2, <1>3, <1>4

LEMMA RelayTyped == ASSUME relay \in BOOLEAN, NEW action PROVE RelayAfter(action) \in BOOLEAN
<1>1. CASE action = "ON"
  BY <1>1 DEF RelayAfter
<1>2. CASE action = "OFF"
  BY <1>2 DEF RelayAfter
<1>3. CASE action = "TOGGLE"
  BY <1>3 DEF RelayAfter
<1>4. CASE action \notin {"ON", "OFF", "TOGGLE"}
  BY <1>4 DEF RelayAfter
<1> QED BY <1>1, <1>2, <1>3, <1>4

LEMMA TransmitRest ==
  ASSUME LoadedTyped, RestTyped, NetTyped, NEW t \in Tasks, NEW p, NEW next, Transmit(t, p, next)
  PROVE  /\ LoadedTyped'
         /\ connected' \in BOOLEAN
         /\ connected' => connected
         /\ connected' # connected => LockFree(t)
<1>1. loaded' = [loaded EXCEPT ![t] = 0]
  BY Zenon DEF Transmit
<1>2. LoadedTyped'
  BY <1>1 DEF LoadedTyped
<1>3. CASE connected' = FALSE /\ connected /\ LockFree(t)
  BY <1>2, <1>3
<1>4. CASE connected' = connected
  BY <1>2, <1>4 DEF RestTyped
<1> QED BY <1>3, <1>4, Zenon DEF Transmit

LEMMA ControlStep == ASSUME DeviceTypes, DeviceNext PROVE ControlTyped'
<1>c. ControlTyped
  BY DEF DeviceTypes
<1>1. CASE Still
  BY <1>c, <1>1 DEF Still, ControlTyped
<1>2. ASSUME NEW t \in Tasks, Elsewhere(t) \/ ykp_session_next_packet_id(t) PROVE ControlTyped'
  BY <1>c, <1>2, MovesTyped, NumberingMoves, Zenon DEF Elsewhere
<1>3. CASE AdmitCommand
  <2>1. "dispatch" \in Labels
    BY DEF Labels
  <2> QED BY <1>c, <1>3, <2>1 DEF AdmitCommand, Goto, ControlTyped
<1>4. CASE Reboot
  <2>1. "idle" \in Plain /\ "idle" \in Labels
    BY PlainLabels DEF Plain
  <2> QED BY <1>4, <2>1 DEF Reboot, ControlTyped
<1> QED BY <1>1, <1>2, <1>3, <1>4, DeviceMoves, Zenon

LEMMA SessionStep == ASSUME DeviceTypes, DeviceNext PROVE SessionTyped'
<1>t. SessionTyped /\ LoadedTyped /\ NetTyped
  BY DEF DeviceTypes
<1>s. UNCHANGED sessionVars => SessionTyped'
  BY <1>t, Zenon DEF sessionVars, counterVars, SessionTyped
<1>v. /\ 1 \in Nat \ {0} /\ 0 \in Nat
      /\ "IDLE" \in States /\ "ACTIVE" \in States /\ "HELLO_SENT" \in States /\ "ECDH_SENT" \in States
  BY DEF States
<1>1. ASSUME NEW t \in Tasks,
             ykp_session_reset(t) \/ ykp_session_next_packet_id(t) \/ send_hello(t)
      PROVE  SessionTyped'
  <2>1. CASE ykp_session_reset(t) \/ ykp_session_next_packet_id(t)
    BY <1>t, <2>1, SessionSteps
  <2>2. CASE GenEphemeral(t) \/ SendHello(t)
    BY <1>s, <2>2, Zenon DEF GenEphemeral, SendHello
  <2>3. CASE MarkHelloSent(t)
    BY <1>t, <1>v, <2>3, Zenon DEF MarkHelloSent, SessionTyped, counterVars
  <2> QED BY <1>1, <2>1, <2>2, <2>3 DEF send_hello
<1>2. ASSUME MarkEcdhSent PROVE SessionTyped'
  BY <1>t, <1>v, <1>2, Zenon DEF MarkEcdhSent, SessionTyped, counterVars
<1>3. ASSUME HandleSessionActive PROVE SessionTyped'
  <2>1. Packet.sid \in Nat
    BY <1>t, <1>3, Received DEF HandleSessionActive, Receives
  <2> QED BY <1>t, <1>3, <2>1, Zenon
      DEF HandleSessionActive, ykp_session_set_active, SessionTyped, counterVars
<1>4. ASSUME Activate PROVE SessionTyped'
  BY <1>t, <1>v, <1>4, Zenon DEF Activate, SetActiveStores, SessionTyped, counterVars
<1>5. ASSUME SessionAges \/ Reboot PROVE SessionTyped'
  BY <1>t, <1>v, <1>5, Zenon DEF SessionAges, Reboot, SessionTyped, counterVars
<1>6. ASSUME \/ HandleChallenge \/ SendEcdhResponse \/ HandleKeyRotate \/ HandleAck
             \/ DropCommand \/ AdmitCommand \/ DecryptFails \/ HandleCommand
      PROVE  SessionTyped'
  BY <1>s, <1>6, Zenon
  DEF HandleChallenge, SendEcdhResponse, HandleKeyRotate, HandleAck, DropCommand,
      AdmitCommand, DecryptFails, HandleCommand
<1>7. ASSUME \/ on_ws_connected \/ on_ws_disconnected \/ CloseFrame \/ MainRotate
             \/ MainHealthReport \/ ButtonPress \/ ButtonReport
      PROVE  SessionTyped'
  BY <1>s, <1>7, Zenon
  DEF on_ws_connected, on_ws_disconnected, CloseFrame, MainRotate, MainHealthReport,
      ButtonPress, ButtonReport
<1>8. ASSUME WsTask PROVE SessionTyped'
  BY <1>1, <1>2, <1>3, <1>4, <1>6, <1>8, TaskSet, Zenon DEF WsTask
<1>9. ASSUME MainTask \/ TimerTask PROVE SessionTyped'
  BY <1>1, <1>7, <1>9, TaskSet, Zenon DEF MainTask, TimerTask
<1> QED BY <1>5, <1>7, <1>8, <1>9, Zenon DEF DeviceNext

LEMMA LoadedStep == ASSUME DeviceTypes, DeviceNext PROVE LoadedTyped'
<1>t. SessionTyped /\ RestTyped /\ LoadedTyped /\ NetTyped
  BY DEF DeviceTypes
<1>s. UNCHANGED loaded => LoadedTyped'
  BY <1>t, Zenon DEF LoadedTyped
<1>w. ASSUME NEW t \in Tasks, \E p, l : Transmit(t, p, l) PROVE LoadedTyped'
  BY <1>t, <1>w, TransmitRest, Zenon
<1>1. ASSUME NEW t \in Tasks,
             ykp_session_reset(t) \/ ykp_session_next_packet_id(t) \/ send_hello(t)
      PROVE  LoadedTyped'
  BY <1>t, <1>s, <1>w, <1>1, SessionSteps, Zenon
  DEF send_hello, GenEphemeral, SendHello, MarkHelloSent
<1>2. ASSUME HandleCommand PROVE LoadedTyped'
  <2>1. (\E p, l : Transmit("ws", p, l)) \/ UNCHANGED loaded
    BY <1>2 DEF HandleCommand
  <2> QED BY <1>s, <1>w, <2>1, TaskSet, Zenon
<1>3. ASSUME Reboot PROVE LoadedTyped'
  BY <1>3 DEF Reboot, LoadedTyped
<1>4. ASSUME \/ HandleChallenge \/ SendEcdhResponse \/ MarkEcdhSent \/ HandleSessionActive
             \/ Activate \/ HandleKeyRotate \/ HandleAck \/ DropCommand \/ AdmitCommand
             \/ DecryptFails
      PROVE  LoadedTyped'
  BY <1>s, <1>w, <1>4, TaskSet, Zenon
  DEF HandleChallenge, SendEcdhResponse, MarkEcdhSent, HandleSessionActive, Activate,
      HandleKeyRotate, HandleAck, DropCommand, AdmitCommand, DecryptFails, taskVars
<1>5. ASSUME \/ on_ws_connected \/ on_ws_disconnected \/ CloseFrame \/ MainRotate
             \/ MainHealthReport \/ ButtonPress \/ ButtonReport \/ SessionAges
      PROVE  LoadedTyped'
  BY <1>s, <1>w, <1>5, TaskSet, Zenon
  DEF on_ws_connected, on_ws_disconnected, CloseFrame, MainRotate, MainHealthReport,
      ButtonPress, ButtonReport, SessionAges, taskVars
<1>6. ASSUME WsTask PROVE LoadedTyped'
  BY <1>1, <1>2, <1>4, <1>6, TaskSet, Zenon DEF WsTask
<1>7. ASSUME MainTask \/ TimerTask PROVE LoadedTyped'
  BY <1>1, <1>5, <1>7, TaskSet, Zenon DEF MainTask, TimerTask
<1> QED BY <1>3, <1>5, <1>6, <1>7, Zenon DEF DeviceNext

LEMMA RestStep == ASSUME DeviceTypes, DeviceNext PROVE RestTyped'
<1>t. RestTyped /\ LoadedTyped /\ NetTyped /\ Dispatching
  BY DEF DeviceTypes
<1>w. ASSUME NEW t \in Tasks, \E p, l : Transmit(t, p, l) PROVE connected' \in BOOLEAN
  BY <1>t, <1>w, TransmitRest, Zenon
<1>1. ASSUME NEW t \in Tasks,
             ykp_session_reset(t) \/ ykp_session_next_packet_id(t) \/ MarkHelloSent(t)
      PROVE  RestTyped'
  BY <1>t, <1>1, Zenon
  DEF ykp_session_reset, ykp_session_next_packet_id, MarkHelloSent, RestTyped, keyVars, boundVars
<1>2. ASSUME NEW t \in Tasks, GenEphemeral(t) PROVE RestTyped'
  <2>1. eph' \in 0 .. MaxHellos
    <3>1. CASE eph < MaxHellos /\ eph' = eph + 1
      BY <1>t, <3>1, Bounds DEF RestTyped
    <3>2. CASE UNCHANGED eph
      BY <1>t, <3>2 DEF RestTyped
    <3> QED BY <1>2, <3>1, <3>2, Zenon DEF GenEphemeral
  <2> QED BY <1>t, <1>2, <2>1, Zenon DEF GenEphemeral, RestTyped, boundVars
<1>3. ASSUME NEW t \in Tasks, SendHello(t) PROVE RestTyped'
  BY <1>t, <1>w, <1>3, Zenon DEF SendHello, RestTyped, keyVars, boundVars
<1>4. ASSUME HandleChallenge PROVE RestTyped'
  <2>1. keyActive' \in BOOLEAN
    BY <1>t, <1>4, Zenon DEF HandleChallenge, RestTyped
  <2> QED BY <1>t, <1>4, <2>1, Zenon DEF HandleChallenge, RestTyped, boundVars
<1>5. ASSUME SendEcdhResponse \/ ButtonReport PROVE RestTyped'
  BY <1>t, <1>w, <1>5, TaskSet, Zenon DEF SendEcdhResponse, ButtonReport, RestTyped, keyVars, boundVars
<1>6. ASSUME \/ MarkEcdhSent \/ HandleSessionActive \/ HandleKeyRotate \/ HandleAck
             \/ DropCommand \/ DecryptFails \/ MainRotate \/ SessionAges
      PROVE  RestTyped'
  BY <1>t, <1>6, Zenon
  DEF MarkEcdhSent, HandleSessionActive, HandleKeyRotate, HandleAck, DropCommand,
      DecryptFails, MainRotate, SessionAges, RestTyped, keyVars, boundVars
<1>7. ASSUME Activate PROVE RestTyped'
  <2>1. seen' \subseteq Nat
    <3>1. CASE pc["ws"] = "active_flag"
      BY <1>7, <3>1 DEF Activate
    <3>2. CASE pc["ws"] # "active_flag"
      BY <1>t, <1>7, <3>2 DEF Activate, RestTyped
    <3> QED BY <3>1, <3>2
  <2> QED BY <1>t, <1>7, <2>1, Zenon DEF Activate, RestTyped, keyVars, boundVars
<1>8. ASSUME AdmitCommand PROVE RestTyped'
  <2>1. Packet.id \in Nat
    BY <1>t, <1>8, Received DEF AdmitCommand, Receives
  <2>2. seen' \subseteq Nat
    BY <1>t, <1>8, <2>1, Zenon DEF AdmitCommand, RestTyped
  <2> QED BY <1>t, <1>8, <2>2, Zenon DEF AdmitCommand, RestTyped, keyVars, boundVars
<1>9. ASSUME HandleCommand PROVE RestTyped'
  <2>1. relay' \in BOOLEAN
    BY <1>t, <1>9, RelayTyped, Zenon DEF HandleCommand, RestTyped
  <2>2. (\E p, l : Transmit("ws", p, l)) \/ UNCHANGED connected
    BY <1>9 DEF HandleCommand
  <2>3. connected' \in BOOLEAN
    BY <1>t, <1>w, <2>2, TaskSet, Zenon DEF RestTyped
  <2> QED BY <1>t, <1>9, <2>1, <2>3, Zenon DEF HandleCommand, RestTyped, keyVars, boundVars
<1>10. ASSUME on_ws_connected PROVE RestTyped'
  <2>1. conn' \in 0 .. MaxConnections
    BY <1>t, <1>10, Bounds DEF on_ws_connected, RestTyped
  <2> QED BY <1>t, <1>10, <2>1, Zenon DEF on_ws_connected, RestTyped, keyVars, boundVars
<1>11. ASSUME on_ws_disconnected \/ CloseFrame PROVE RestTyped'
  BY <1>t, <1>11, Zenon DEF on_ws_disconnected, CloseFrame, RestTyped, keyVars, boundVars
<1>12. ASSUME MainHealthReport PROVE RestTyped'
  <2>1. reports' \in 0 .. MaxReports
    BY <1>t, <1>12, Bounds DEF MainHealthReport, RestTyped
  <2> QED BY <1>t, <1>w, <1>12, <2>1, TaskSet, Zenon DEF MainHealthReport, RestTyped, keyVars
<1>13. ASSUME ButtonPress PROVE RestTyped'
  <2>1. presses' \in 0 .. MaxPresses
    BY <1>t, <1>13, Bounds DEF ButtonPress, RestTyped
  <2>2. relay' \in BOOLEAN
    BY <1>t, <1>13, Zenon DEF ButtonPress, RestTyped
  <2> QED BY <1>t, <1>13, <2>1, <2>2, Zenon DEF ButtonPress, RestTyped, keyVars
<1>14. ASSUME Reboot PROVE RestTyped'
  BY <1>t, <1>14, Zenon DEF Reboot, RestTyped, boundVars
<1>15. ASSUME NEW t \in Tasks,
              ykp_session_reset(t) \/ ykp_session_next_packet_id(t) \/ send_hello(t)
       PROVE  RestTyped'
  BY <1>1, <1>2, <1>3, <1>15, Zenon DEF send_hello
<1>16. ASSUME WsTask PROVE RestTyped'
  BY <1>4, <1>5, <1>6, <1>7, <1>8, <1>9, <1>15, <1>16, TaskSet, Zenon DEF WsTask
<1>17. ASSUME MainTask \/ TimerTask PROVE RestTyped'
  BY <1>5, <1>6, <1>15, <1>17, TaskSet, Zenon DEF MainTask, TimerTask
<1> QED BY <1>6, <1>10, <1>11, <1>12, <1>13, <1>14, <1>16, <1>17, Zenon DEF DeviceNext

\* What a step does to the packets under way to the device.
LEMMA NetSteps ==
  ASSUME DeviceTypes, DeviceNext
  PROVE  \/ UNCHANGED down /\ conn' = conn /\ (connected' => connected)
         \/ Consume /\ connected /\ down[conn] # <<>> /\ conn' = conn
              /\ (connected' => connected) /\ (pc["ws"] = "idle" \/ Elsewhere("ws"))
         \/ on_ws_connected
<1> DEFINE Quiet == UNCHANGED down /\ conn' = conn /\ (connected' => connected)
           Taken == Consume /\ connected /\ down[conn] # <<>> /\ conn' = conn
                      /\ (connected' => connected) /\ (pc["ws"] = "idle" \/ Elsewhere("ws"))
           Goal == Quiet \/ Taken \/ on_ws_connected
<1> SUFFICES Goal
  OBVIOUS
<1>t. RestTyped /\ LoadedTyped /\ NetTyped /\ Dispatching
  BY DEF DeviceTypes
<1>w. ASSUME NEW t \in Tasks, \E p, l : Transmit(t, p, l) PROVE connected' => connected
  BY <1>t, <1>w, TransmitRest, Zenon
<1>q. UNCHANGED <<down, conn, connected>> => Quiet
  OBVIOUS
<1>1. ASSUME NEW t \in Tasks,
             ykp_session_reset(t) \/ ykp_session_next_packet_id(t) \/ send_hello(t)
      PROVE  Quiet
  BY <1>q, <1>w, <1>1, Zenon
  DEF ykp_session_reset, ykp_session_next_packet_id, send_hello, GenEphemeral, SendHello,
      MarkHelloSent, netVars, Quiet
<1>r. ASSUME NEW kind, Receives(kind), Consume, UNCHANGED <<conn, connected>> PROVE Taken
  BY <1>r DEF Receives
<1>2. ASSUME \/ HandleChallenge \/ HandleSessionActive \/ HandleKeyRotate \/ HandleAck
             \/ DropCommand
      PROVE  Taken
  <2> HIDE DEF Taken
  <2> QED BY <1>2, <1>r, Zenon
      DEF HandleChallenge, HandleSessionActive, HandleKeyRotate, HandleAck, DropCommand
<1>3. ASSUME DecryptFails \/ HandleCommand PROVE Taken
  <2>1. Elsewhere("ws")
    BY <1>3, CommandMoves, Zenon
  <2>2. pc["ws"] = "dispatch" /\ Consume /\ conn' = conn
    BY <1>3 DEF DecryptFails, HandleCommand, Step
  <2>3. InHand
    BY <1>t, <2>2 DEF Dispatching
  <2>4. CASE DecryptFails
    BY <2>1, <2>2, <2>3, <2>4 DEF DecryptFails, InHand
  <2>5. CASE HandleCommand
    <3>1. (\E p, l : Transmit("ws", p, l)) \/ UNCHANGED connected
      BY <2>5 DEF HandleCommand
    <3>2. connected' => connected
      BY <1>w, <3>1, TaskSet, Zenon
    <3> QED BY <2>1, <2>2, <2>3, <3>2 DEF InHand
  <2> QED BY <1>3, <2>4, <2>5
<1>4. ASSUME \/ SendEcdhResponse \/ ButtonReport \/ MainHealthReport PROVE Quiet
  BY <1>w, <1>4, TaskSet, Zenon DEF SendEcdhResponse, ButtonReport, MainHealthReport, Quiet
<1>5. ASSUME \/ MarkEcdhSent \/ Activate \/ AdmitCommand \/ on_ws_disconnected \/ CloseFrame
             \/ MainRotate \/ ButtonPress \/ SessionAges \/ Reboot
      PROVE  Quiet
  BY <1>q, <1>5, Zenon
  DEF MarkEcdhSent, Activate, AdmitCommand, on_ws_disconnected, CloseFrame, MainRotate,
      ButtonPress, SessionAges, Reboot, netVars, Quiet
<1> HIDE DEF Quiet, Taken
<1>6. ASSUME WsTask PROVE Goal
  BY <1>1, <1>2, <1>3, <1>4, <1>5, <1>6, TaskSet, Zenon DEF WsTask
<1>7. ASSUME MainTask \/ TimerTask PROVE Goal
  BY <1>1, <1>4, <1>5, <1>7, TaskSet, Zenon DEF MainTask, TimerTask
<1> QED BY <1>4, <1>5, <1>6, <1>7, Zenon DEF DeviceNext

LEMMA NetStep == ASSUME DeviceTypes, DeviceNext PROVE NetTyped'
<1>t. NetTyped
  BY DEF DeviceTypes
<1>1. CASE UNCHANGED down /\ conn' = conn /\ (connected' => connected)
  BY <1>t, <1>1 DEF NetTyped
<1>2. CASE Consume /\ connected /\ down[conn] # <<>> /\ conn' = conn
  BY <1>t, <1>2, ConsumeTyped, Zenon
<1>3. CASE on_ws_connected
  <2>1. conn' \in Connections /\ UNCHANGED down
    BY <1>3, Bounds DEF on_ws_connected, Connections, netVars, DeviceTypes, RestTyped
  <2> QED BY <1>t, <2>1 DEF NetTyped
<1> QED BY <1>1, <1>2, <1>3, NetSteps, Zenon

\* While a command waits to be dispatched nobody else ends the connection: a
\* failing send of another task needs the client's lock.
LEMMA ConnectionKept ==
  ASSUME DeviceTypes, DeviceNext, pc["ws"] = "dispatch", pc'["ws"] = "dispatch"
  PROVE  connected' = connected
<1>t. RestTyped /\ LoadedTyped /\ NetTyped
  BY DEF DeviceTypes
<1>i. \A t \in Tasks : t # "ws" => ~ LockFree(t)
  BY TaskSet DEF LockFree, InCallback
<1>w. ASSUME NEW t \in Tasks, t # "ws", \E p, l : Transmit(t, p, l)
      PROVE  connected' = connected
  BY <1>t, <1>w, <1>i, TransmitRest, Zenon
<1>1. ASSUME NEW t \in Tasks, ykp_session_reset(t) \/ ykp_session_next_packet_id(t)
      PROVE  connected' = connected
  BY <1>1, Zenon DEF ykp_session_reset, ykp_session_next_packet_id
<1>2. ASSUME NEW t \in Tasks, send_hello(t) PROVE connected' = connected
  <2>1. CASE GenEphemeral(t) \/ MarkHelloSent(t)
    BY <2>1, Zenon DEF GenEphemeral, MarkHelloSent
  <2>2. CASE SendHello(t)
    <3>1. t # "ws"
      BY <2>2 DEF SendHello
    <3> QED BY <1>w, <2>2, <3>1, Zenon DEF SendHello
  <2> QED BY <1>2, <2>1, <2>2 DEF send_hello
<1>3. ASSUME SendEcdhResponse \/ HandleCommand PROVE FALSE
  <2>1. CASE SendEcdhResponse
    BY <2>1 DEF SendEcdhResponse
  <2>2. CASE HandleCommand
    <3>1. (\E p : Transmit("ws", p, "idle")) \/ Goto("ws", "idle")
      BY <2>2 DEF HandleCommand
    <3>2. Moves("ws")
      BY <3>1, TransmitMoves, GotoMoves, PlainLabels, Zenon
    <3>3. pc'["ws"] \in Plain
      BY <3>2, MovesTyped, TaskSet, Zenon DEF DeviceTypes
    <3> QED BY <3>3 DEF Plain
  <2> QED BY <1>3, <2>1, <2>2
<1>4. ASSUME MainHealthReport \/ ButtonReport PROVE connected' = connected
  BY <1>w, <1>4, TaskSet DEF MainHealthReport, ButtonReport
<1>5. ASSUME on_ws_connected \/ on_ws_disconnected \/ CloseFrame PROVE FALSE
  BY <1>5 DEF on_ws_connected, on_ws_disconnected, CloseFrame
<1>6. ASSUME \/ HandleChallenge \/ MarkEcdhSent \/ HandleSessionActive \/ Activate
             \/ HandleKeyRotate \/ HandleAck \/ DropCommand \/ AdmitCommand \/ DecryptFails
             \/ MainRotate \/ ButtonPress \/ SessionAges \/ Reboot
      PROVE  connected' = connected
  BY <1>6, Zenon
  DEF HandleChallenge, MarkEcdhSent, HandleSessionActive, Activate, HandleKeyRotate, HandleAck,
      DropCommand, AdmitCommand, DecryptFails, MainRotate, ButtonPress, SessionAges, Reboot
<1>7. ASSUME WsTask PROVE connected' = connected
  BY <1>1, <1>2, <1>3, <1>6, <1>7, TaskSet, Zenon DEF WsTask
<1>8. ASSUME MainTask \/ TimerTask PROVE connected' = connected
  BY <1>1, <1>2, <1>4, <1>6, <1>8, TaskSet, Zenon DEF MainTask, TimerTask
<1> QED BY <1>4, <1>5, <1>6, <1>7, <1>8, Zenon DEF DeviceNext

LEMMA DispatchStep == ASSUME DeviceTypes, DeviceNext PROVE Dispatching'
<1>t. ControlTyped /\ Dispatching
  BY DEF DeviceTypes
<1> SUFFICES ASSUME pc'["ws"] = "dispatch" PROVE InHand'
  BY DEF Dispatching
<1>1. CASE AdmitCommand
  <2>1. UNCHANGED <<down, conn, connected>> /\ Receives("COMMAND")
    BY <1>1, Zenon DEF AdmitCommand, netVars
  <2> QED BY <2>1 DEF Receives, InHand, Packet
<1>2. CASE ~ AdmitCommand
  <2>m. ASSUME NEW t \in Tasks, Moves(t) PROVE t # "ws" /\ pc["ws"] = "dispatch"
    <3>1. pc'[t] \in Plain /\ \A u \in Tasks \ {t} : pc'[u] = pc[u]
      BY <1>t, <2>m, MovesTyped, Zenon
    <3> QED BY <3>1, TaskSet DEF Plain
  <2>1. pc["ws"] = "dispatch" /\ (Elsewhere("ws") => FALSE)
    <3>1. CASE Still
      BY <2>m, <3>1, TaskSet DEF Still, Elsewhere
    <3>2. ASSUME NEW t \in Tasks, Elsewhere(t) \/ ykp_session_next_packet_id(t)
          PROVE  pc["ws"] = "dispatch" /\ (Elsewhere("ws") => FALSE)
      BY <2>m, <3>2, NumberingMoves, TaskSet, Zenon DEF Elsewhere
    <3>3. ~ Reboot
      BY TaskSet DEF Reboot
    <3> QED BY <1>2, <3>1, <3>2, <3>3, DeviceMoves, Zenon
  <2>2. connected' = connected
    BY <2>1, ConnectionKept
  <2>3. InHand
    BY <1>t, <2>1 DEF Dispatching
  <2>4. UNCHANGED down /\ conn' = conn
    <3>1. ~ on_ws_connected
      BY <2>1 DEF on_ws_connected
    <3>2. pc["ws"] # "idle"
      BY <2>1
    <3> QED BY <2>1, <3>1, <3>2, NetSteps, Zenon
  <2> QED BY <2>2, <2>3, <2>4 DEF InHand, Packet
<1> QED BY <1>1, <1>2

LEMMA DeviceTypesStep == DeviceTypes /\ DeviceNext => DeviceTypes'
BY SessionStep, RestStep, LoadedStep, ControlStep, NetStep, DispatchStep, Zenon DEF DeviceTypes

LEMMA DeviceTypesStart ==
  ASSUME DeviceInit, down = [c \in Connections |-> <<>>]
  PROVE  DeviceTypes
<1>1. <<>> \in Seq(DownPackets)
  BY EmptySeq, Zenon
<1>2. NetTyped
  BY <1>1 DEF DeviceInit, NetTyped
<1>3. /\ 1 \in Nat \ {0} /\ 0 \in Nat /\ "IDLE" \in States
      /\ NoKey \in 0 .. MaxHellos /\ 0 \in 0 .. MaxConnections /\ 0 \in 0 .. MaxPresses
      /\ 0 \in 0 .. MaxReports
  BY Bounds DEF States, NoKey
<1>4. "idle" \in Plain /\ "idle" \in Labels
  BY PlainLabels DEF Plain
<1>5. SessionTyped
  BY <1>3, Zenon DEF DeviceInit, SessionTyped
<1>6. RestTyped
  BY <1>3, Zenon DEF DeviceInit, RestTyped
<1>7. LoadedTyped /\ ControlTyped /\ Dispatching
  BY <1>4, TaskSet DEF DeviceInit, LoadedTyped, ControlTyped, Dispatching
<1> QED BY <1>2, <1>5, <1>6, <1>7 DEF DeviceTypes

LEMMA DeviceTypesStutter ==
  ASSUME DeviceTypes, UNCHANGED deviceVars, NetTyped',
         connected /\ down[conn] # <<>> => down'[conn] # <<>> /\ Head(down'[conn]) = Head(down[conn])
  PROVE  DeviceTypes'
<1>1. /\ UNCHANGED <<conn, connected, state, session_id, packet_counter, needs_key_rotate, age>>
      /\ UNCHANGED <<eph, keyActive, seen, relay, pc, back, loaded, presses, reports>>
  BY Zenon DEF deviceVars, sessionVars, counterVars, keyVars, taskVars, boundVars
<1>2. SessionTyped' /\ RestTyped' /\ LoadedTyped' /\ ControlTyped'
  BY <1>1, Zenon DEF DeviceTypes, SessionTyped, RestTyped, LoadedTyped, ControlTyped
<1>3. Dispatching'
  BY <1>1 DEF DeviceTypes, Dispatching, InHand, Packet
<1> QED BY <1>2, <1>3 DEF DeviceTypes

LEMMA AnyTypesStep == DeviceTypes /\ [AnyNext]_anyVars => DeviceTypes'
<1> SUFFICES ASSUME DeviceTypes, [AnyNext]_anyVars PROVE DeviceTypes'
  OBVIOUS
<1>t. NetTyped
  BY DEF DeviceTypes
<1>1. CASE AnyDeviceStep
  BY <1>1, DeviceTypesStep DEF AnyDeviceStep
<1>2. CASE ServerSends
  <2>1. PICK p \in ServerPackets : down' = [down EXCEPT ![conn] = <<p>>]
    BY <1>2, Zenon DEF ServerSends
  <2>2. <<p>> \in Seq(DownPackets)
    BY <2>1, ServerPacketsAreDown
  <2>3. UNCHANGED deviceVars /\ down[conn] = <<>> /\ UNCHANGED <<conn, connected>>
    BY <1>2, Zenon DEF ServerSends, deviceVars
  <2>4. NetTyped'
    BY <1>t, <2>1, <2>2, <2>3 DEF NetTyped
  <2> QED BY <2>3, <2>4, DeviceTypesStutter
<1>3. CASE ServerReads \/ UNCHANGED anyVars
  <2>1. UNCHANGED deviceVars /\ UNCHANGED <<down, conn, connected>>
    BY <1>3, Zenon DEF ServerReads, anyVars, netVars, deviceVars
  <2>2. NetTyped'
    BY <1>t, <2>1 DEF NetTyped
  <2> QED BY <2>1, <2>2, DeviceTypesStutter
<1> QED BY <1>1, <1>2, <1>3 DEF AnyNext

LEMMA AnyTypesHold == AnySpec => []DeviceTypes
<1>1. AnyInit => DeviceTypes
  BY DeviceTypesStart, Zenon DEF AnyInit
<1> QED BY <1>1, AnyTypesStep, PTL DEF AnySpec

\* Every field of the firmware's session, key and replay state keeps its type,
\* whatever packets arrive and however the accesses of the three tasks interleave.
THEOREM DeviceTyped == AnySpec => []DeviceTypeOK
BY AnyTypesHold, DeviceTypesSuffice, PTL

-----------------------------------------------------------------------------
(* Key rotation.                                                           *)

\* A task between the store of the counter and the end of its checks stays
\* there, or has raised the request, or has found the counter below the limit.
LEMMA NumberingStep ==
  ASSUME DeviceTypes, RotationRemembered, NEW t \in Tasks, ykp_session_next_packet_id(t)
  PROVE  packet_counter' >= RotateAt =>
           \/ needs_key_rotate'
           \/ withdrawn /\ packet_counter' = packet_counter
           \/ \E u \in Tasks : pc'[u] \in Checking
<1>t. ControlTyped
  BY DEF DeviceTypes
<1>c. "age" \in Checking /\ "count" \in Checking /\ "age_raise" \in Checking /\ "count_raise" \in Checking
      /\ "load" \notin Checking
  BY DEF Checking
<1>o. \A u \in Tasks \ {t} : pc'[u] = pc[u]
  BY <1>t, MovesTyped, NumberingMoves, Zenon
<1>1. CASE StoreCounter(t)
  BY <1>t, <1>c, <1>1 DEF StoreCounter, Step, Goto, ControlTyped
<1>2. CASE RaiseFlag(t)
  BY <1>2 DEF RaiseFlag
<1>3. CASE CheckAge(t)
  BY <1>t, <1>c, <1>3 DEF CheckAge, Step, Goto, ControlTyped
<1>4. CASE CheckCount(t)
  <2>1. CASE packet_counter >= RotateAt
    BY <1>t, <1>c, <1>4, <2>1 DEF CheckCount, Goto, ControlTyped
  <2>2. CASE ~ (packet_counter >= RotateAt)
    BY <1>4, <2>2 DEF CheckCount, counterVars
  <2> QED BY <2>1, <2>2
<1>5. CASE LoadCounter(t)
  <2>1. UNCHANGED <<packet_counter, needs_key_rotate>> /\ pc[t] = "load"
    BY <1>5 DEF LoadCounter, Step, counterVars
  <2> QED BY <1>c, <1>o, <2>1 DEF RotationRemembered
<1> QED BY <1>1, <1>2, <1>3, <1>4, <1>5, Zenon DEF ykp_session_next_packet_id

\* Every other step leaves counter and request alone, restarts the counter, or
\* takes the request back and leaves the counter.
LEMMA OtherCounterSteps ==
  ASSUME DeviceNext
  PROVE  \/ UNCHANGED <<packet_counter, needs_key_rotate>>
         \/ packet_counter' = 1
         \/ needs_key_rotate' = FALSE /\ UNCHANGED packet_counter
         \/ \E t \in Tasks : ykp_session_next_packet_id(t)
<1> DEFINE Goal == \/ UNCHANGED <<packet_counter, needs_key_rotate>>
                   \/ packet_counter' = 1
                   \/ needs_key_rotate' = FALSE /\ UNCHANGED packet_counter
                   \/ \E t \in Tasks : ykp_session_next_packet_id(t)
<1> SUFFICES Goal
  OBVIOUS
<1>s. UNCHANGED sessionVars \/ UNCHANGED counterVars => Goal
  BY Zenon DEF sessionVars, counterVars
<1>1. ASSUME NEW t \in Tasks,
             ykp_session_reset(t) \/ ykp_session_next_packet_id(t) \/ send_hello(t)
      PROVE  Goal
  BY <1>s, <1>1, Zenon
  DEF ykp_session_reset, send_hello, GenEphemeral, SendHello, MarkHelloSent
<1>2. ASSUME HandleSessionActive \/ Activate \/ MarkEcdhSent \/ SessionAges \/ Reboot PROVE Goal
  BY <1>s, <1>2, Zenon
  DEF HandleSessionActive, ykp_session_set_active, Activate, SetActiveStores, MarkEcdhSent,
      SessionAges, Reboot
<1>3. ASSUME \/ HandleChallenge \/ SendEcdhResponse \/ HandleKeyRotate \/ HandleAck
             \/ DropCommand \/ AdmitCommand \/ DecryptFails \/ HandleCommand
      PROVE  Goal
  BY <1>s, <1>3, Zenon
  DEF HandleChallenge, SendEcdhResponse, HandleKeyRotate, HandleAck, DropCommand,
      AdmitCommand, DecryptFails, HandleCommand
<1>4. ASSUME \/ on_ws_connected \/ on_ws_disconnected \/ CloseFrame \/ MainRotate
             \/ MainHealthReport \/ ButtonPress \/ ButtonReport
      PROVE  Goal
  BY <1>s, <1>4, Zenon
  DEF on_ws_connected, on_ws_disconnected, CloseFrame, MainRotate, MainHealthReport,
      ButtonPress, ButtonReport
<1> HIDE DEF Goal
<1>5. ASSUME WsTask PROVE Goal
  BY <1>1, <1>2, <1>3, <1>5, TaskSet, Zenon DEF WsTask
<1>6. ASSUME MainTask \/ TimerTask PROVE Goal
  BY <1>1, <1>4, <1>6, TaskSet, Zenon DEF MainTask, TimerTask
<1> QED BY <1>2, <1>4, <1>5, <1>6, Zenon DEF DeviceNext

\* Outside ykp_session_next_packet_id no task leaves its checks, except by a restart.
LEMMA CheckingKept ==
  ASSUME DeviceTypes, DeviceNext, NEW u \in Tasks, pc[u] \in Checking
  PROVE  \/ pc'[u] \in Checking
         \/ \E t \in Tasks : ykp_session_next_packet_id(t)
         \/ packet_counter' = 1
<1>t. ControlTyped
  BY DEF DeviceTypes
<1>1. CASE Still
  BY <1>1 DEF Still
<1>2. ASSUME NEW t \in Tasks, Elsewhere(t) PROVE pc'[u] = pc[u]
  <2>1. \A v \in Tasks \ {t} : pc'[v] = pc[v]
    BY <1>t, <1>2, MovesTyped, Zenon DEF Elsewhere
  <2> QED BY <1>2, <2>1, Zenon DEF Elsewhere
<1>3. CASE AdmitCommand
  <2>1. u # "ws"
    BY <1>3, NotChecking DEF AdmitCommand, Receives
  <2> QED BY <1>t, <1>3, <2>1 DEF AdmitCommand, Goto, ControlTyped
<1>4. CASE Reboot
  BY <1>4 DEF Reboot
<1> QED BY <1>1, <1>2, <1>3, <1>4, DeviceMoves, Zenon

LEMMA RotationStep ==
  ASSUME DeviceTypes, RotationRemembered, DeviceNext, Withdrawn
  PROVE  RotationRemembered'
<1>b. RotateAt \in Nat /\ RotateAt > 1
  BY Bounds
<1>w. packet_counter' = packet_counter =>
        withdrawn' = (withdrawn \/ (needs_key_rotate /\ ~ needs_key_rotate' /\ packet_counter >= RotateAt))
  BY Zenon DEF Withdrawn
<1> SUFFICES ASSUME packet_counter' >= RotateAt
             PROVE  needs_key_rotate' \/ withdrawn' \/ \E t \in Tasks : pc'[t] \in Checking
  BY DEF RotationRemembered
<1>0. packet_counter' # 1
  BY <1>b
<1>1. CASE \E t \in Tasks : ykp_session_next_packet_id(t)
  <2>1. \/ needs_key_rotate'
        \/ withdrawn /\ packet_counter' = packet_counter
        \/ \E u \in Tasks : pc'[u] \in Checking
    BY <1>1, NumberingStep, Zenon
  <2> QED BY <1>w, <2>1, Zenon
<1>2. CASE ~ \E t \in Tasks : ykp_session_next_packet_id(t)
  <2>1. packet_counter' = packet_counter /\ packet_counter >= RotateAt
    BY <1>0, <1>2, OtherCounterSteps
  <2>2. needs_key_rotate \/ withdrawn \/ \E t \in Tasks : pc[t] \in Checking
    BY <2>1 DEF RotationRemembered
  <2>3. ASSUME NEW u \in Tasks, pc[u] \in Checking PROVE pc'[u] \in Checking
    BY <1>0, <1>2, <2>3, CheckingKept, Zenon
  <2>4. withdrawn \/ (needs_key_rotate /\ ~ needs_key_rotate') => withdrawn'
    BY <1>w, <2>1, Zenon
  <2> QED BY <2>2, <2>3, <2>4, Zenon
<1> QED BY <1>1, <1>2

\* A counter at YKP_KEY_ROTATE_PACKET_COUNT keeps its request to rotate, whatever
\* the three tasks and the server do between the unlocked stores of ykp_session.c,
\* except in the one case that the property names.
THEOREM RotationIsRemembered == AnySpec => []RotationRemembered
<1>1. AnyInit => RotationRemembered
  <2> SUFFICES ASSUME AnyInit PROVE ~ (packet_counter >= RotateAt)
    BY DEF RotationRemembered
  <2>1. packet_counter = 1
    BY DEF AnyInit, DeviceInit
  <2> QED BY <2>1, Bounds
<1>2. DeviceTypes /\ RotationRemembered /\ [AnyNext]_anyVars => RotationRemembered'
  <2> SUFFICES ASSUME DeviceTypes, RotationRemembered, [AnyNext]_anyVars PROVE RotationRemembered'
    OBVIOUS
  <2>1. CASE AnyDeviceStep
    BY <2>1, RotationStep DEF AnyDeviceStep
  <2>2. CASE ServerSends \/ ServerReads \/ UNCHANGED anyVars
    <3>1. UNCHANGED <<packet_counter, needs_key_rotate, pc, withdrawn>>
      BY <2>2, Zenon DEF ServerSends, ServerReads, anyVars, deviceVars, sessionVars, counterVars, taskVars
    <3> QED BY <3>1 DEF RotationRemembered
  <2> QED BY <2>1, <2>2 DEF AnyNext
<1> QED BY <1>1, <1>2, AnyTypesHold, PTL DEF AnySpec

-----------------------------------------------------------------------------
(* The link: types.                                                        *)

UpTyped == up \in [Connections -> Seq(UpPackets)]

LinkTypes == DeviceTypes /\ UpTyped /\ Server!RouterTypeOK

LEMMA LinkBounds ==
  /\ NoDevice # Self /\ NoSocket \notin Connections /\ MaxSessions \in Nat /\ MaxCommands \in Nat
  /\ \A k \in CommandKinds : k[1] \in Actions /\ k[2] \in BOOLEAN
BY LinkAssumption

LEMMA TransmitTyped ==
  ASSUME UpTyped, NetTyped, NEW t, NEW p \in UpPackets, NEW next, Transmit(t, p, next)
  PROVE  UpTyped'
<1>1. CASE connected /\ up' = [up EXCEPT ![conn] = Append(@, p)]
  <2>1. conn \in Connections /\ up[conn] \in Seq(UpPackets)
    BY <1>1 DEF UpTyped, NetTyped
  <2>2. Append(up[conn], p) \in Seq(UpPackets)
    BY <2>1, AppendProperties
  <2> QED BY <1>1, <2>2 DEF UpTyped
<1>2. CASE up' = up
  BY <1>2 DEF UpTyped
<1> QED BY <1>1, <1>2, Zenon DEF Transmit

LEMMA UpPacketsMade ==
  ASSUME NEW id \in Nat
  PROVE  /\ \A pub \in Nat : Hello(Self, id, pub) \in UpPackets
         /\ EcdhResponse(Self, id) \in UpPackets
         /\ Data(Self, id, "button") \in UpPackets
         /\ Data(Self, id, "echo") \in UpPackets
         /\ Data(Self, id, "report") \in UpPackets
BY DEF Hello, EcdhResponse, Data, UpPackets

\* What the device sends are its packets.
LEMMA DeviceSends == ASSUME DeviceTypes, UpTyped, DeviceNext PROVE UpTyped'
<1>a. NetTyped /\ LoadedTyped /\ RestTyped /\ Dispatching
  BY DEF DeviceTypes
<1>b. UNCHANGED up => UpTyped'
  BY DEF UpTyped
<1>n. eph \in Nat /\ 0 \in Nat /\ \A t \in Tasks : loaded[t] \in Nat
  BY <1>a, Bounds DEF LoadedTyped, RestTyped
<1>1. ASSUME NEW t \in Tasks, SendHello(t) PROVE UpTyped'
  BY <1>1, <1>a, <1>n, TransmitTyped, UpPacketsMade, Zenon DEF SendHello
<1>2. ASSUME SendEcdhResponse PROVE UpTyped'
  BY <1>2, <1>a, <1>n, TaskSet, TransmitTyped, UpPacketsMade, Zenon DEF SendEcdhResponse
<1>3. ASSUME HandleCommand PROVE UpTyped'
  <2>1. Packet.id \in Nat
    <3>1. InHand
      BY <1>a, <1>3 DEF HandleCommand, Dispatching
    <3> QED BY <1>a, <3>1, Received DEF InHand
  <2>2. CASE Packet.action \in RelayActions
    <3>1. Transmit("ws", Data(Self, Packet.id, "echo"), "idle")
      BY <1>3, <2>2 DEF HandleCommand, RelayActions
    <3> QED BY <1>a, <2>1, <3>1, TransmitTyped, UpPacketsMade, Zenon
  <2>3. CASE Packet.action \notin RelayActions /\ Packet.action = "REPORT_REQUEST"
    <3>1. Transmit("ws", Data(Self, 0, "report"), "idle")
      BY <1>3, <2>3 DEF HandleCommand
    <3> QED BY <1>a, <1>n, <3>1, TransmitTyped, UpPacketsMade, Zenon
  <2>4. CASE Packet.action \notin RelayActions /\ Packet.action # "REPORT_REQUEST"
    BY <1>3, <1>b, <2>4 DEF HandleCommand
  <2> QED BY <2>2, <2>3, <2>4
<1>4. ASSUME MainHealthReport \/ ButtonReport PROVE UpTyped'
  BY <1>4, <1>a, <1>n, TaskSet, TransmitTyped, UpPacketsMade, Zenon DEF MainHealthReport, ButtonReport
<1>5. ASSUME NEW t \in Tasks,
             ykp_session_reset(t) \/ ykp_session_next_packet_id(t) \/ send_hello(t)
      PROVE  UpTyped'
  BY <1>1, <1>5, <1>b, Zenon
  DEF ykp_session_reset, ykp_session_next_packet_id, send_hello, GenEphemeral, MarkHelloSent, netVars
<1>6. ASSUME WsTask PROVE UpTyped'
  BY <1>2, <1>3, <1>5, <1>6, <1>b, TaskSet, Zenon
  DEF WsTask, HandleChallenge, MarkEcdhSent, HandleSessionActive, Activate, HandleKeyRotate,
      HandleAck, DropCommand, AdmitCommand, DecryptFails, netVars
<1>7. ASSUME MainTask \/ TimerTask PROVE UpTyped'
  BY <1>4, <1>5, <1>7, <1>b, TaskSet, Zenon DEF MainTask, TimerTask, MainRotate, netVars
<1> QED BY <1>4, <1>6, <1>7, <1>b, Zenon
    DEF DeviceNext, on_ws_connected, on_ws_disconnected, CloseFrame, ButtonPress, SessionAges,
        Reboot, netVars

\* Sending and receiving at the server.
HeadKept == connected /\ down[conn] # <<>> => down'[conn] # <<>> /\ Head(down'[conn]) = Head(down[conn])

LEMMA ServerSendTyped ==
  ASSUME NetTyped, NEW s \in Connections, NEW p \in DownPackets, Server!Send(s, p),
         UNCHANGED <<conn, connected>>
  PROVE  NetTyped' /\ HeadKept
<1>1. CASE down' = [down EXCEPT ![s] = Append(@, p)]
  <2>1. down[s] \in Seq(DownPackets) /\ Append(down[s], p) \in Seq(DownPackets)
    BY AppendProperties DEF NetTyped
  <2>2. NetTyped'
    BY <1>1, <2>1 DEF NetTyped
  <2>3. ASSUME connected, down[conn] # <<>>
        PROVE  down'[conn] # <<>> /\ Head(down'[conn]) = Head(down[conn])
    <3>1. CASE conn = s
      <4>1. down'[conn] = Append(down[s], p) /\ down[s] # <<>>
        BY <1>1, <2>3, <3>1 DEF NetTyped
      <4>2. Len(down[s]) \in Nat /\ Len(down[s]) # 0
        BY <2>1, <4>1, EmptySeq, LenProperties
      <4> QED BY <2>1, <3>1, <4>1, <4>2, AppendProperties
    <3>2. CASE conn # s
      <4>1. down'[conn] = down[conn]
        BY <1>1, <2>3, <3>2 DEF NetTyped
      <4> QED BY <2>3, <4>1
    <3> QED BY <3>1, <3>2
  <2> QED BY <2>2, <2>3 DEF HeadKept
<1>2. CASE down' = down
  BY <1>2 DEF NetTyped, HeadKept
<1> QED BY <1>1, <1>2 DEF Server!Send

LEMMA UpFields ==
  \A p \in UpPackets : /\ p.dev = Self /\ p.id \in Nat
                       /\ p.kind = "HELLO" => p.pub \in Nat
BY DEF UpPackets

LEMMA ServerDelivers ==
  ASSUME UpTyped, NEW s \in Connections, NEW kind, Server!Delivers(s, kind)
  PROVE  /\ UpTyped'
         /\ Head(up[s]) \in UpPackets /\ Head(up[s]).kind = kind
         /\ Head(up[s]).dev = Self /\ Head(up[s]).id \in Nat
         /\ kind = "HELLO" => Head(up[s]).pub \in Nat
<1>1. up[s] \in Seq(UpPackets) /\ up[s] # <<>>
  BY DEF UpTyped, Server!Delivers
<1>2. Head(up[s]) \in UpPackets /\ Tail(up[s]) \in Seq(UpPackets)
  BY <1>1, HeadTailProperties
<1>3. up' = [up EXCEPT ![s] = Tail(up[s])] /\ Head(up[s]).kind = kind
  BY DEF Server!Delivers
<1>4. UpTyped'
  BY <1>2, <1>3 DEF UpTyped
<1> QED BY <1>2, <1>3, <1>4, UpFields

\* What the server keeps, its types as named parts.
LEMMA ServerTypes ==
  Server!RouterTypeOK <=>
    /\ sock \in [Connections -> {"new", "open", "closing", "closed"}]
    /\ deviceId \in [Connections -> {Self, NoDevice}]
    /\ sessions \in [{Self} -> Server!Sessions]
    /\ deviceConnections \in [{Self} -> Connections \union {NoSocket}]
    /\ suspended \subseteq Server!Handlers
    /\ created \in 0 .. MaxSessions
    /\ commands \in 0 .. MaxCommands
<1>1. {Self} \union {NoDevice} = {Self, NoDevice}
  OBVIOUS
<1> QED BY <1>1, Zenon DEF Server!RouterTypeOK

\* A session of the table with some of its fields written.
LEMMA SessionFields ==
  ASSUME NEW r \in Server!Sessions
  PROVE  /\ r.sid \in Nat /\ r.pub \in Nat /\ r.active \in BOOLEAN /\ r.counter + 1 \in Nat
         /\ [r EXCEPT !.active = TRUE, !.seen = {}] \in Server!Sessions
         /\ \A id \in Nat : [r EXCEPT !.seen = @ \union {id}, !.counter = @ + 1] \in Server!Sessions
         /\ [r EXCEPT !.counter = @ + 1] \in Server!Sessions
<1>1. /\ r.sid \in Nat /\ r.pub \in Nat /\ r.active \in BOOLEAN /\ r.counter \in Nat
      /\ r.seen \in SUBSET Nat
  BY LinkBounds DEF Server!Sessions
<1>2. [r EXCEPT !.active = TRUE, !.seen = {}] \in Server!Sessions
  <2>1. {} \in SUBSET Nat
    OBVIOUS
  <2> QED BY ONLY <2>1, r \in Server!Sessions DEF Server!Sessions
<1>3. ASSUME NEW id \in Nat
      PROVE  [r EXCEPT !.seen = @ \union {id}, !.counter = @ + 1] \in Server!Sessions
  <2>1. r.seen \union {id} \in SUBSET Nat /\ r.counter + 1 \in Nat
    BY <1>1
  <2> QED BY ONLY <2>1, r \in Server!Sessions DEF Server!Sessions
<1>4. [r EXCEPT !.counter = @ + 1] \in Server!Sessions
  <2>1. r.counter + 1 \in Nat
    BY <1>1
  <2> QED BY ONLY <2>1, r \in Server!Sessions DEF Server!Sessions
<1>5. r.counter + 1 \in Nat
  BY <1>1
<1> QED BY <1>1, <1>2, <1>3, <1>4, <1>5, Zenon

LEMMA NoSessionTyped == Server!NoSession \in Server!Sessions
BY LinkBounds DEF Server!NoSession, Server!Sessions, Server!NoKey

LEMMA HandlerFields ==
  ASSUME NEW h \in Server!Handlers
  PROVE  /\ h.sock \in Connections /\ h.id \in Nat /\ h.dev = Self
         /\ h.at = "upsertDevice" => h.pub \in Nat
         /\ h.at = "markOnline" => h.sid \in Nat
BY DEF Server!Handlers

LEMMA HandlersMade ==
  ASSUME NEW s \in Connections, NEW id \in Nat, NEW n \in Nat
  PROVE  /\ [at |-> "upsertDevice", sock |-> s, id |-> id, dev |-> Self, pub |-> n] \in Server!Handlers
         /\ [at |-> "markOnline", sock |-> s, id |-> id, dev |-> Self, sid |-> n] \in Server!Handlers
BY DEF Server!Handlers

\* What the server sends are its packets.
LEMMA DownPacketsMade ==
  ASSUME NEW id \in Nat, NEW n \in Nat
  PROVE  /\ Server!Challenge(id, n) \in DownPackets /\ Server!SessionActive(id, n) \in DownPackets
         /\ Server!Ack(id) \in DownPackets
         /\ \A a \in Actions, e \in BOOLEAN : Server!Command(id, a, e) \in DownPackets
BY DEF Server!Challenge, Server!SessionActive, Server!Ack, Server!Command, DownPackets

LEMMA ServerTypesStep == LinkTypes /\ ServerStep => LinkTypes'
<1> SUFFICES ASSUME LinkTypes, ServerStep PROVE LinkTypes'
  OBVIOUS
<1> DEFINE Sock == sock \in [Connections -> {"new", "open", "closing", "closed"}]
           Ids == deviceId \in [Connections -> {Self, NoDevice}]
           Maps == /\ sessions \in [{Self} -> Server!Sessions]
                   /\ deviceConnections \in [{Self} -> Connections \union {NoSocket}]
           Waiting == suspended \subseteq Server!Handlers
           Counts == created \in 0 .. MaxSessions /\ commands \in 0 .. MaxCommands
<1>a. NetTyped /\ UpTyped /\ Sock /\ Ids /\ Maps /\ Waiting /\ Counts
  BY ServerTypes, Zenon DEF LinkTypes, DeviceTypes
<1>b. UNCHANGED deviceVars /\ UNCHANGED <<conn, connected>>
  BY <1>a, Zenon DEF ServerStep, deviceVars
<1>c. ASSUME NetTyped', HeadKept, UpTyped', Sock', Ids', Maps', Waiting', Counts' PROVE LinkTypes'
  <2>1. Server!RouterTypeOK'
    BY <1>c DEF Server!RouterTypeOK
  <2>2. DeviceTypes'
    BY <1>b, <1>c, DeviceTypesStutter DEF LinkTypes, HeadKept
  <2> QED BY <1>c, <2>1, <2>2, Zenon DEF LinkTypes
\* What an action leaves alone keeps its type.
<1>d. UNCHANGED down => NetTyped' /\ HeadKept
  BY <1>a, <1>b DEF NetTyped, HeadKept
<1>e. UNCHANGED up => UpTyped'
  BY <1>a DEF UpTyped
<1>f. UNCHANGED sessions /\ UNCHANGED deviceConnections => Maps'
  BY <1>a
<1>h. ASSUME NEW h \in suspended
      PROVE  /\ h.sock \in Connections /\ h.id \in Nat /\ h.dev = Self
             /\ h.at = "upsertDevice" => h.pub \in Nat
             /\ h.at = "markOnline" => h.sid \in Nat
  BY <1>a, <1>h, HandlerFields
<1>s. ASSUME NEW s \in Connections, Server!StartClosing(s) PROVE Sock'
  BY <1>a, <1>s DEF Server!StartClosing
<1>1. ASSUME NEW s \in Connections, Server!HandleHello(s) PROVE LinkTypes'
  <2>1. Server!Delivers(s, "HELLO")
    BY <1>1, Zenon DEF Server!HandleHello
  <2>2. UpTyped' /\ Head(up[s]).dev = Self /\ Head(up[s]).id \in Nat /\ Head(up[s]).pub \in Nat
    BY <1>a, <2>1, ServerDelivers
  <2>3. Ids'
    BY <1>1, <1>a, <2>2 DEF Server!HandleHello
  <2>4. Waiting'
    BY <1>1, <1>a, <2>2, HandlersMade, Zenon DEF Server!HandleHello
  <2> QED BY <1>1, <1>a, <1>c, <1>d, <1>f, <2>2, <2>3, <2>4 DEF Server!HandleHello, Server!mapVars
<1>2. ASSUME NEW h \in suspended, Server!ResumeHello(h) PROVE LinkTypes'
  <2>1. h.sock \in Connections /\ h.id \in Nat /\ h.dev = Self /\ h.pub \in Nat
    BY <1>2, <1>h, Zenon DEF Server!ResumeHello
  <2>2. /\ created < MaxSessions /\ created' = created + 1
        /\ sessions' = [sessions EXCEPT ![h.dev] =
             [sid |-> created + 1, pub |-> h.pub, active |-> FALSE, seen |-> {}, counter |-> 0]]
    BY <1>2, Zenon DEF Server!ResumeHello, Server!createPendingSession
  <2>3. /\ suspended' = suspended \ {h} /\ Server!Send(h.sock, Server!Challenge(h.id, created + 1))
        /\ UNCHANGED <<up, sock, deviceId, deviceConnections, commands>>
    BY <1>2, Zenon DEF Server!ResumeHello
  <2>4. Counts' /\ created + 1 \in Nat /\ created + 1 \in 0 .. MaxSessions
    BY <1>a, <2>2, <2>3, LinkBounds
  <2>5. NetTyped' /\ HeadKept
    BY <1>a, <1>b, <2>1, <2>3, <2>4, ServerSendTyped, DownPacketsMade, Zenon
  <2>6. [sid |-> created + 1, pub |-> h.pub, active |-> FALSE, seen |-> {}, counter |-> 0]
          \in Server!Sessions
    BY <2>1, <2>4 DEF Server!Sessions
  <2>7. Maps'
    BY <1>a, <2>1, <2>2, <2>3, <2>6
  <2>8. Waiting' /\ Sock' /\ Ids' /\ UpTyped'
    BY <1>a, <1>e, <2>3
  <2> QED BY <1>c, <2>4, <2>5, <2>7, <2>8
<1>3. ASSUME NEW h \in suspended, Server!ResumeHelloNoKey(h) PROVE LinkTypes'
  <2>1. Sock'
    BY <1>3, <1>h, <1>s, Zenon DEF Server!ResumeHelloNoKey
  <2>2. /\ suspended' = suspended \ {h}
        /\ UNCHANGED <<up, down, deviceId, sessions, deviceConnections, created, commands>>
    BY <1>3, Zenon DEF Server!ResumeHelloNoKey, Server!routerNetVars, Server!mapVars
  <2> QED BY <1>a, <1>c, <1>d, <1>e, <1>f, <2>1, <2>2
<1>4. ASSUME NEW s \in Connections, Server!EcdhNoSession(s) PROVE LinkTypes'
  <2>1. Sock'
    BY <1>4, <1>s, Zenon DEF Server!EcdhNoSession
  <2>2. Server!Delivers(s, "ECDH_RESPONSE")
    BY <1>4, Zenon DEF Server!EcdhNoSession
  <2>3. UpTyped'
    BY <1>a, <2>2, ServerDelivers, Zenon
  <2>4. UNCHANGED <<down, deviceId, sessions, deviceConnections, suspended, created, commands>>
    BY <1>4, Zenon DEF Server!EcdhNoSession, Server!mapVars
  <2> QED BY <1>a, <1>c, <1>d, <1>f, <2>1, <2>3, <2>4
<1>5. ASSUME NEW s \in Connections, Server!EcdhThrows(s) \/ Server!DropPacket(s) PROVE LinkTypes'
  <2>1. Server!Delivers(s, "ECDH_RESPONSE") \/ Server!Delivers(s, "DATA")
    BY <1>5, Zenon DEF Server!EcdhThrows, Server!DropPacket
  <2>2. UpTyped'
    BY <1>a, <2>1, ServerDelivers, Zenon
  <2>3. UNCHANGED <<down, sock, deviceId, sessions, deviceConnections, suspended, created, commands>>
    BY <1>5, Zenon DEF Server!EcdhThrows, Server!DropPacket, Server!mapVars
  <2> QED BY <1>a, <1>c, <1>d, <1>f, <2>2, <2>3
<1>6. ASSUME NEW s \in Connections, Server!HandleEcdh(s) PROVE LinkTypes'
  <2>1. Server!Delivers(s, "ECDH_RESPONSE") /\ Server!HasSession(deviceId[s])
    BY <1>6, Zenon DEF Server!HandleEcdh
  <2>2. UpTyped' /\ Head(up[s]).id \in Nat
    BY <1>a, <2>1, ServerDelivers, Zenon
  <2>3. deviceId[s] = Self
    BY <1>a, <2>1 DEF Server!HasSession
  <2>4. /\ sessions' = [sessions EXCEPT ![Self].active = TRUE, ![Self].seen = {}]
        /\ deviceConnections' = [deviceConnections EXCEPT ![Self] = s]
        /\ suspended' = suspended \union
             {[at |-> "markOnline", sock |-> s, id |-> Head(up[s]).id, dev |-> Self,
               sid |-> sessions[Self].sid]}
        /\ UNCHANGED <<down, sock, deviceId, created, commands>>
    BY <1>6, <2>3 DEF Server!HandleEcdh, Server!activateSession, Server!registerConnection
  <2>5. sessions[Self] \in Server!Sessions
    BY <1>a
  <2>6. sessions[Self].sid \in Nat /\ [sessions[Self] EXCEPT !.active = TRUE, !.seen = {}] \in Server!Sessions
    BY <2>5, SessionFields, Zenon
  <2>7. Waiting'
    BY <1>a, <2>2, <2>4, <2>6, HandlersMade, Zenon
  <2>8. sessions' = [sessions EXCEPT ![Self] = [sessions[Self] EXCEPT !.active = TRUE, !.seen = {}]]
    BY <1>a, <2>4
  <2>9. Maps'
    BY <1>a, <2>4, <2>6, <2>8
  <2> QED BY <1>a, <1>c, <1>d, <2>2, <2>4, <2>7, <2>9
<1>7. ASSUME NEW h \in suspended, Server!ResumeEcdh(h) PROVE LinkTypes'
  <2>1. h.sock \in Connections /\ h.id + 1 \in Nat /\ h.sid \in Nat
    BY <1>7, <1>h DEF Server!ResumeEcdh
  <2>2. /\ suspended' = suspended \ {h} /\ Server!Send(h.sock, Server!SessionActive(h.id + 1, h.sid))
        /\ UNCHANGED <<up, sock, deviceId, sessions, deviceConnections, created, commands>>
    BY <1>7, Zenon DEF Server!ResumeEcdh, Server!mapVars
  <2>3. NetTyped' /\ HeadKept
    BY <1>a, <1>b, <2>1, <2>2, ServerSendTyped, DownPacketsMade, Zenon
  <2> QED BY <1>a, <1>c, <1>e, <1>f, <2>2, <2>3
<1>8. ASSUME NEW s \in Connections, Server!HandlePacket(s) PROVE LinkTypes'
  <2>1. Server!Delivers(s, "DATA") /\ Server!Admitted(deviceId[s], Head(up[s]).id)
    BY <1>8, Zenon DEF Server!HandlePacket
  <2>2. UpTyped' /\ Head(up[s]).id \in Nat
    BY <1>a, <2>1, ServerDelivers, Zenon
  <2>3. deviceId[s] = Self
    BY <1>a, <2>1 DEF Server!Admitted, Server!isActive
  <2>4. /\ sessions' = [sessions EXCEPT ![Self].seen = @ \union {Head(up[s]).id}, ![Self].counter = @ + 1]
        /\ Server!Send(s, Server!Ack(sessions[Self].counter + 1))
        /\ UNCHANGED <<sock, deviceId, deviceConnections, suspended, created, commands>>
    BY <1>8, <2>3 DEF Server!HandlePacket
  <2>5. sessions[Self] \in Server!Sessions
    BY <1>a
  <2>6. /\ sessions[Self].counter + 1 \in Nat
        /\ [sessions[Self] EXCEPT !.seen = @ \union {Head(up[s]).id}, !.counter = @ + 1] \in Server!Sessions
    BY <2>2, <2>5, SessionFields, Zenon
  <2>7. NetTyped' /\ HeadKept
    BY <1>a, <1>b, <2>4, <2>6, ServerSendTyped, DownPacketsMade, Zenon
  <2>8. sessions' = [sessions EXCEPT ![Self] =
                       [sessions[Self] EXCEPT !.seen = @ \union {Head(up[s]).id}, !.counter = @ + 1]]
    BY <1>a, <2>4
  <2>9. Maps'
    BY <1>a, <2>4, <2>6, <2>8
  <2> QED BY <1>a, <1>c, <2>2, <2>4, <2>7, <2>9
<1>9. ASSUME NEW s \in Connections, Server!HandleClose(s) PROVE LinkTypes'
  <2>1. Sock'
    BY <1>9, <1>a DEF Server!HandleClose
  <2>2. UNCHANGED <<up, down, deviceId, suspended, created, commands>>
    BY <1>9, Zenon DEF Server!HandleClose, Server!routerNetVars
  <2>3. CASE deviceId[s] = NoDevice
    BY <1>9, <1>a, <1>c, <1>d, <1>e, <1>f, <2>1, <2>2, <2>3 DEF Server!HandleClose, Server!mapVars
  <2>4. CASE deviceId[s] # NoDevice
    <3>1. deviceId[s] = Self
      BY <1>a, <2>4
    <3>2. /\ deviceConnections' = [deviceConnections EXCEPT ![Self] = NoSocket]
          /\ sessions' = [sessions EXCEPT ![Self] = Server!NoSession]
      BY <1>9, <2>4, <3>1 DEF Server!HandleClose
    <3>3. Maps'
      BY <1>a, <3>2, NoSessionTyped
    <3> QED BY <1>a, <1>c, <1>d, <1>e, <2>1, <2>2, <3>3
  <2> QED BY <2>3, <2>4
<1>10. ASSUME NEW k \in CommandKinds, Server!SendCommand(Self, k[1], k[2]) PROVE LinkTypes'
  <2>1. /\ commands < MaxCommands /\ commands' = commands + 1 /\ deviceConnections[Self] # NoSocket
        /\ sessions' = IF Server!HasSession(Self)
                         THEN [sessions EXCEPT ![Self].counter = @ + 1] ELSE sessions
        /\ UNCHANGED <<up, sock, deviceId, deviceConnections, suspended, created>>
    BY <1>10, Zenon DEF Server!SendCommand
  <2>2. PICK id \in Server!OutboundIds(Self) :
          Server!Send(deviceConnections[Self], Server!Command(id, k[1], k[2] /\ Server!HasSession(Self)))
    BY <1>10, Zenon DEF Server!SendCommand
  <2>3. sessions[Self] \in Server!Sessions /\ deviceConnections[Self] \in Connections
    BY <1>a, <2>1
  <2>4. /\ sessions[Self].counter + 1 \in Nat
        /\ [sessions[Self] EXCEPT !.counter = @ + 1] \in Server!Sessions
    BY <2>3, SessionFields, Zenon
  <2>5. id \in Nat
    BY <2>2, <2>4, LinkBounds DEF Server!OutboundIds
  <2>6. k[1] \in Actions /\ (k[2] /\ Server!HasSession(Self)) \in BOOLEAN
    BY LinkBounds, Zenon
  <2>7. NetTyped' /\ HeadKept
    <3>1. 0 \in Nat
      OBVIOUS
    <3>2. Server!Command(id, k[1], k[2] /\ Server!HasSession(Self)) \in DownPackets
      BY <2>5, <2>6, <3>1, DownPacketsMade, Zenon
    <3> QED BY <1>a, <1>b, <2>2, <2>3, <3>2, ServerSendTyped, Zenon
  <2>8. Maps'
    <3>1. CASE Server!HasSession(Self)
      <4>1. sessions' = [sessions EXCEPT ![Self] = [sessions[Self] EXCEPT !.counter = @ + 1]]
        BY <1>a, <2>1, <3>1
      <4> QED BY <1>a, <2>1, <2>4, <4>1
    <3>2. CASE ~ Server!HasSession(Self)
      BY <1>a, <2>1, <3>2
    <3> QED BY <3>1, <3>2
  <2>9. Counts'
    BY <1>a, <2>1, LinkBounds
  <2> QED BY <1>a, <1>c, <1>e, <2>1, <2>7, <2>8, <2>9
<1> HIDE DEF Sock, Ids, Maps, Waiting, Counts
<1> QED BY <1>1, <1>2, <1>3, <1>4, <1>5, <1>6, <1>7, <1>8, <1>9, <1>10, Zenon
    DEF ServerStep, ServerOnMessage, ServerResumes, ServerCloses, ApiCommand,
        Server!OnMessage, Server!ResumeHandler

LEMMA LinkTypesStart == Init => LinkTypes
<1> SUFFICES ASSUME Init PROVE LinkTypes
  OBVIOUS
<1>1. <<>> \in Seq(DownPackets) /\ <<>> \in Seq(UpPackets)
  BY EmptySeq, Zenon
<1>2. UpTyped
  BY <1>1 DEF Init, UpTyped
<1>3. DeviceTypes
  BY DeviceTypesStart, Zenon DEF Init
<1>4. Server!RouterTypeOK
  <2>1. 0 \in 0 .. MaxSessions /\ 0 \in 0 .. MaxCommands
    BY LinkBounds
  <2> QED BY <2>1, NoSessionTyped, ServerTypes DEF Init, Server!RouterInit
<1> QED BY <1>2, <1>3, <1>4 DEF LinkTypes

LEMMA LinkTypesStep == LinkTypes /\ [Next]_vars => LinkTypes'
<1> SUFFICES ASSUME LinkTypes, [Next]_vars PROVE LinkTypes'
  OBVIOUS
<1>t. DeviceTypes /\ UpTyped /\ Server!RouterTypeOK
  BY DEF LinkTypes
<1>1. CASE DeviceStep
  <2>1. DeviceNext /\ UNCHANGED serverVars
    BY <1>1, Zenon DEF DeviceStep, ConnectionEnds, OnDevice, DeviceNext
  <2>2. Server!RouterTypeOK'
    BY <1>t, <2>1, Zenon DEF serverVars, Server!RouterTypeOK
  <2> QED BY <1>t, <2>1, <2>2, DeviceTypesStep, DeviceSends DEF LinkTypes
<1>2. CASE Connect
  <2>1. DeviceNext /\ Server!Accept(conn')
    BY <1>2, Zenon DEF Connect, DeviceNext
  <2>2. /\ sock' = [sock EXCEPT ![conn'] = "open"]
        /\ UNCHANGED <<deviceId, sessions, deviceConnections, suspended, created, commands>>
    BY <2>1, Zenon DEF Server!Accept, Server!mapVars
  <2>3. Server!RouterTypeOK'
    BY <1>t, <2>2 DEF Server!RouterTypeOK
  <2> QED BY <1>t, <2>1, <2>3, DeviceTypesStep, DeviceSends DEF LinkTypes
<1>3. CASE ServerStep
  BY <1>3, ServerTypesStep
<1>4. CASE UNCHANGED vars
  <2>1. UNCHANGED deviceVars /\ UNCHANGED <<up, down, conn, connected>>
    BY <1>4, Zenon DEF vars, netVars, deviceVars
  <2>2. NetTyped' /\ UpTyped' /\ HeadKept
    BY <1>t, <2>1 DEF DeviceTypes, NetTyped, UpTyped, HeadKept
  <2>3. DeviceTypes'
    BY <1>t, <2>1, <2>2, DeviceTypesStutter DEF HeadKept
  <2>4. Server!RouterTypeOK'
    BY <1>t, <1>4, Zenon DEF vars, serverVars, Server!RouterTypeOK
  <2> QED BY <2>2, <2>3, <2>4 DEF LinkTypes
<1> QED BY <1>1, <1>2, <1>3, <1>4 DEF Next

HistoryBoolean == gaveUp \in BOOLEAN /\ overtaken \in BOOLEAN

LEMMA HistoryTyped == Spec => []HistoryBoolean
<1>1. Init => HistoryBoolean
  BY DEF Init, HistoryBoolean
<1>2. HistoryBoolean /\ [Next]_vars => HistoryBoolean'
  <2> SUFFICES ASSUME gaveUp \in BOOLEAN, overtaken \in BOOLEAN, [Next]_vars
               PROVE  gaveUp' \in BOOLEAN /\ overtaken' \in BOOLEAN
    BY DEF HistoryBoolean
  <2>1. CASE Connect
    BY <2>1 DEF Connect
  <2>2. CASE DeviceStep
    BY <2>2, Zenon DEF DeviceStep, OnDevice
  <2>3. ASSUME NEW c, Recorded(c) PROVE gaveUp' \in BOOLEAN /\ overtaken' \in BOOLEAN
    <3>1. gaveUp' \in BOOLEAN
      BY <2>3, Zenon DEF Recorded
    <3>2. CASE c = conn
      BY <2>3, <3>1, <3>2, Zenon DEF Recorded
    <3>3. CASE c # conn
      BY <2>3, <3>1, <3>3, Zenon DEF Recorded
    <3> QED BY <3>2, <3>3
  <2>4. ASSUME NEW h, RecordedResume(h) PROVE gaveUp' \in BOOLEAN /\ overtaken' \in BOOLEAN
    BY <2>4, Zenon DEF RecordedResume
  <2>5. CASE ApiCommand \/ UNCHANGED vars
    BY <2>5, Zenon DEF ApiCommand, vars, historyVars
  <2>6. CASE ServerOnMessage \/ ServerResumes \/ ServerCloses
    BY <2>3, <2>4, <2>6, Zenon DEF ServerOnMessage, ServerResumes, ServerCloses
  <2> QED BY <2>1, <2>2, <2>5, <2>6, Zenon DEF Next, ServerStep
<1> QED BY <1>1, <1>2, PTL DEF Spec

LEMMA LinkTypesHold == Spec => []LinkTypes
BY LinkTypesStart, LinkTypesStep, PTL DEF Spec

\* Device and server joined keep the types of both, packets in flight included:
\* neither end can send what the other's handlers do not expect.
THEOREM LinkTyped == Spec => []TypeOK
<1>1. LinkTypes /\ HistoryBoolean => TypeOK
  BY DeviceTypesSuffice, Zenon DEF LinkTypes, HistoryBoolean, TypeOK
<1> QED BY <1>1, LinkTypesHold, HistoryTyped, PTL
=============================================================================
