------------------------- MODULE ConnectivityProofs -------------------------
(***************************************************************************)
(* The safety of the device's connection, for any number of faults, of     *)
(* frames and events under way and any MAX_FAILS.                          *)
(***************************************************************************)
EXTENDS Connectivity, SequenceTheorems, TLAPS

\* What giving the connection up does to begin with.
LEMMA AbortEffect ==
  ASSUME NEW who, abort_connection(who)
  PROVE  /\ UNCHANGED <<state, s_connected>>
         /\ \/ lock' = "none" /\ UNCHANGED <<transport, aborting>>
            \/ state # "WAIT_TIMEOUT" /\ transport' = "closed" /\ lock' = who /\ aborting' = "state"
  BY DEF abort_connection

-----------------------------------------------------------------------------
(* The WebSocket.                                                          *)

Places == {"none", "begin", "switch", "hello", "poll", "pollerr", "recv",
           "closing", "finish", "finished"}

\* A connected client's transport is open, until whoever gives the connection up
\* has closed it and not yet stored the state, or a task that ends has.
OpenWhileConnected ==
    state = "CONNECTED" =>
        transport = "open" \/ aborting = "state" \/ \E t \in Tasks : task[t] = "finished"

\* The CONNECTED handler runs with the lock held and nothing has been sent.
NothingBeforeHello ==
    \A t \in Tasks : task[t] = "hello" => lock = t /\ aborting = "no" /\ first = "none"

\* A connection is given up under the lock.
AbortHoldsLock == aborting # "no" => lock # "none"

\* An open connection on which nothing was sent is one whose HELLO could not be
\* built or written, except while its handler is running.
SilentWithoutHello ==
    transport = "open" /\ first = "none" =>
        (\E t \in Tasks : task[t] = "hello") \/ hello \in {"not built", "failed"}

WsInv == /\ task \in [Tasks -> Places] /\ s_connected \in BOOLEAN
         /\ OpenWhileConnected /\ NothingBeforeHello /\ AbortHoldsLock /\ SilentWithoutHello
         /\ HelloFirst /\ WaitingIsDown

LEMMA WsInvInit == Init => WsInv
  BY DEF Init, WsInit, NoTask, WsInv, Places, OpenWhileConnected, NothingBeforeHello,
         AbortHoldsLock, SilentWithoutHello, HelloFirst, WaitingIsDown

LEMMA WsInvBoot == ASSUME NEW created, WsBoot(created) PROVE WsInv'
  BY DEF WsBoot, NoTask, WsInv, Places, OpenWhileConnected, NothingBeforeHello,
         AbortHoldsLock, SilentWithoutHello, HelloFirst, WaitingIsDown

\* A step that touches none of what WsInv speaks of.
LEMMA WsInvSame ==
  ASSUME WsInv, UNCHANGED <<state, task, transport, s_connected, lock, aborting, hello, first>>
  PROVE  WsInv'
  BY Zenon DEF WsInv, OpenWhileConnected, NothingBeforeHello, AbortHoldsLock,
         SilentWithoutHello, HelloFirst, WaitingIsDown

\* Where the tasks are after one of them has gone on.
LEMMA Gone ==
  ASSUME task \in [Tasks -> Places], NEW t \in Tasks, NEW next \in Places, Goto(t, next)
  PROVE  /\ task' \in [Tasks -> Places] /\ task'[t] = next
         /\ \A u \in Tasks \ {t} : task'[u] = task[u]
  BY DEF Goto

LEMMA AgainPlace == Again \in Places \ {"hello", "finished"}
  BY DEF Again, Places

\* A step of a task outside the CONNECTED handler, which may change the state
\* but does not connect.
LEMMA WsInvMove ==
  ASSUME WsInv, UNCHANGED <<transport, s_connected, lock, aborting, hello, first>>,
         state' = state \/ state' \in {"INIT", "CLOSING", "UNKNOW"},
         NEW t \in Tasks, NEW next \in Places \ {"hello"}, Goto(t, next),
         task[t] # "hello", task[t] # "finished" \/ state' = "UNKNOW"
  PROVE  WsInv'
<1>1. /\ task' \in [Tasks -> Places] /\ task'[t] = next
      /\ \A u \in Tasks \ {t} : task'[u] = task[u]
  BY Gone DEF WsInv
<1>2. OpenWhileConnected'
  BY <1>1 DEF WsInv, OpenWhileConnected
<1>3. NothingBeforeHello'
  BY <1>1 DEF WsInv, NothingBeforeHello
<1>4. SilentWithoutHello'
  BY <1>1 DEF WsInv, SilentWithoutHello
<1>5. AbortHoldsLock' /\ HelloFirst' /\ WaitingIsDown'
  BY DEF WsInv, AbortHoldsLock, HelloFirst, WaitingIsDown
<1> QED BY <1>1, <1>2, <1>3, <1>4, <1>5 DEF WsInv

\* The same when the transport is closed in passing.
LEMMA WsInvClose ==
  ASSUME WsInv, UNCHANGED <<s_connected, lock, aborting, hello, first, state>>, transport' = "closed",
         NEW t \in Tasks, NEW next \in Places \ {"hello"}, Goto(t, next), task[t] # "hello",
         state # "CONNECTED" \/ next = "finished"
  PROVE  WsInv'
<1>1. /\ task' \in [Tasks -> Places] /\ task'[t] = next
      /\ \A u \in Tasks \ {t} : task'[u] = task[u]
  BY Gone DEF WsInv
<1>2. OpenWhileConnected'
  BY <1>1 DEF OpenWhileConnected
<1>3. NothingBeforeHello'
  BY <1>1 DEF WsInv, NothingBeforeHello
<1>4. AbortHoldsLock' /\ SilentWithoutHello' /\ HelloFirst' /\ WaitingIsDown'
  BY DEF WsInv, AbortHoldsLock, SilentWithoutHello, HelloFirst, WaitingIsDown
<1> QED BY <1>1, <1>2, <1>3, <1>4 DEF WsInv

\* A step that begins to give the connection up, with nobody else in the
\* CONNECTED handler.
LEMMA WsInvAborts ==
  ASSUME WsInv, NEW who \in Tasks \union {"sender"}, abort_connection(who), aborting = "no",
         first' = first, hello' = hello \/ (first # "other" /\ hello' = "failed"),
         task' \in [Tasks -> Places],
         \A u \in Tasks : task'[u] # "hello",
         hello' = "failed" \/ (\A u \in Tasks : task[u] # "hello"),
         \A u \in Tasks : (task[u] = "finished") <=> (task'[u] = "finished")
  PROVE  WsInv'
<1>1. OpenWhileConnected'
  BY AbortEffect DEF WsInv, OpenWhileConnected
<1>2. NothingBeforeHello'
  BY DEF NothingBeforeHello
<1>3. SilentWithoutHello'
  BY AbortEffect DEF WsInv, SilentWithoutHello
<1>4. AbortHoldsLock'
  BY AbortEffect, WsAssumption DEF AbortHoldsLock
<1>5. HelloFirst' /\ WaitingIsDown'
  BY AbortEffect DEF WsInv, HelloFirst, WaitingIsDown
<1> QED BY <1>1, <1>2, <1>3, <1>4, <1>5, AbortEffect DEF WsInv

\* A task at one of the places where it waits for the lock.
LEMMA LockedPlaces ==
  ASSUME WsInv, lock = "none"
  PROVE  aborting = "no" /\ \A u \in Tasks : task[u] # "hello"
  BY WsAssumption DEF WsInv, NothingBeforeHello, AbortHoldsLock

LEMMA WsInvTaskAborts ==
  ASSUME WsInv, NEW t \in Tasks, lock = "none", task[t] # "finished", abort_connection(t),
         UNCHANGED <<hello, first>>, NEW next \in Places \ {"hello", "finished"}, Goto(t, next)
  PROVE  WsInv'
<1>1. /\ task' \in [Tasks -> Places] /\ task'[t] = next
      /\ \A u \in Tasks \ {t} : task'[u] = task[u]
  BY Gone DEF WsInv
<1>2. aborting = "no" /\ \A u \in Tasks : task[u] # "hello"
  BY LockedPlaces
<1>3. \A u \in Tasks : task'[u] # "hello"
  BY <1>1, <1>2
<1>4. \A u \in Tasks : (task[u] = "finished") <=> (task'[u] = "finished")
  BY <1>1
<1>5. t \in Tasks \union {"sender"}
  OBVIOUS
<1>6. UNCHANGED first /\ UNCHANGED hello
  OBVIOUS
<1> QED BY <1>1, <1>2, <1>3, <1>4, <1>5, <1>6, WsInvAborts, Zenon

LEMMA WsInvAbortStep == ASSUME WsInv, AbortStep PROVE WsInv'
<1>1. CASE AbortState
  BY <1>1 DEF AbortState, untouched, WsInv, OpenWhileConnected, NothingBeforeHello,
              AbortHoldsLock, SilentWithoutHello, HelloFirst, WaitingIsDown
<1>2. CASE AbortEvent
  BY <1>2 DEF AbortEvent, untouched, WsInv, OpenWhileConnected, NothingBeforeHello,
              AbortHoldsLock, SilentWithoutHello, HelloFirst, WaitingIsDown
<1> QED BY <1>1, <1>2 DEF AbortStep

LEMMA WsInvConnect == ASSUME WsInv, NEW t \in Tasks, Connect(t) PROVE WsInv'
<1>1. task[t] = "switch" /\ lock = "none" /\ state' = "CONNECTED" /\ transport' = "open"
      /\ s_connected' = TRUE /\ hello' = "none" /\ first' = "none" /\ lock' = t
      /\ UNCHANGED aborting /\ Goto(t, "hello")
  BY DEF Connect, Locked
<1>2. /\ task' \in [Tasks -> Places] /\ task'[t] = "hello"
      /\ \A u \in Tasks \ {t} : task'[u] = task[u]
  BY <1>1, Gone DEF WsInv, Places
<1>3. aborting = "no" /\ \A u \in Tasks : task[u] # "hello"
  BY <1>1, LockedPlaces
<1>4. t # "none"
  BY WsAssumption
<1> QED BY <1>1, <1>2, <1>3, <1>4 DEF WsInv, OpenWhileConnected, NothingBeforeHello,
           AbortHoldsLock, SilentWithoutHello, HelloFirst, WaitingIsDown

LEMMA WsInvSendHello == ASSUME WsInv, NEW t \in Tasks, SendHello(t) PROVE WsInv'
<1>1. /\ task[t] = "hello" /\ lock = t /\ aborting = "no" /\ first = "none" /\ Goto(t, "poll")
      /\ \A u \in Tasks : task[u] = "hello" => u = t
  BY DEF SendHello, WsInv, NothingBeforeHello
<1>2. /\ task' \in [Tasks -> Places] /\ task'[t] = "poll"
      /\ \A u \in Tasks \ {t} : task'[u] = task[u]
  BY <1>1, Gone DEF WsInv, Places
<1>3. \A u \in Tasks : task'[u] # "hello"
  BY <1>1, <1>2
<1>4. \A u \in Tasks : (task[u] = "finished") <=> (task'[u] = "finished")
  BY <1>1, <1>2
<1>5. CASE hello' = "failed" /\ NotWritten(t)
  BY <1>1, <1>2, <1>3, <1>4, <1>5, WsInvAborts DEF NotWritten
<1>6. ASSUME UNCHANGED <<state, transport, s_connected, aborting>>, lock' = "none",
             \/ hello' = "sent" /\ first' = "HELLO"
             \/ hello' = "not built" /\ first' = "none"
      PROVE  WsInv'
  <2>1. OpenWhileConnected'
    BY <1>4, <1>6 DEF WsInv, OpenWhileConnected
  <2>2. NothingBeforeHello' /\ AbortHoldsLock'
    BY <1>1, <1>3, <1>6 DEF NothingBeforeHello, AbortHoldsLock
  <2>3. SilentWithoutHello' /\ HelloFirst' /\ WaitingIsDown'
    BY <1>6 DEF WsInv, SilentWithoutHello, HelloFirst, WaitingIsDown
  <2> QED BY <1>2, <1>6, <2>1, <2>2, <2>3 DEF WsInv
<1> QED BY <1>1, <1>5, <1>6 DEF SendHello, Written

\* Another packet is written, when no CONNECTED handler is running.
LEMMA WsInvOther ==
  ASSUME WsInv, lock = "none", lock' = "none", transport = "open",
         UNCHANGED <<hello, state, s_connected, transport, aborting>>,
         first' = first \/ (first = "none" /\ first' = "other"),
         task' \in [Tasks -> Places],
         \A u \in Tasks : task'[u] # "hello",
         \A u \in Tasks : task[u] = "finished" => task'[u] = "finished"
  PROVE  WsInv'
<1>1. aborting = "no" /\ \A u \in Tasks : task[u] # "hello"
  BY LockedPlaces
<1>2. OpenWhileConnected' /\ AbortHoldsLock'
  BY <1>1 DEF OpenWhileConnected, AbortHoldsLock
<1>3. NothingBeforeHello'
  BY DEF NothingBeforeHello
<1>4. SilentWithoutHello' /\ HelloFirst' /\ WaitingIsDown'
  BY <1>1 DEF WsInv, SilentWithoutHello, HelloFirst, WaitingIsDown
<1> QED BY <1>2, <1>3, <1>4 DEF WsInv

LEMMA WsInvRecvData == ASSUME WsInv, NEW t \in Tasks, RecvData(t) PROVE WsInv'
<1>1. task[t] = "recv" /\ lock = "none" /\ transport = "open" /\ Goto(t, Again) /\ UNCHANGED hello
  BY DEF RecvData, Receives, Locked
<1>2. CASE NotWritten(t)
  BY <1>1, <1>2, AgainPlace, WsInvTaskAborts DEF NotWritten
<1>3. CASE /\ UNCHANGED <<state, transport, s_connected, lock, aborting>>
           /\ first' = first \/ (first = "none" /\ first' = "other")
  <2>1. /\ task' \in [Tasks -> Places] /\ task'[t] = Again
        /\ \A u \in Tasks \ {t} : task'[u] = task[u]
    BY <1>1, AgainPlace, Gone DEF WsInv
  <2>2. \A u \in Tasks : task'[u] # "hello"
    BY <1>1, <2>1, AgainPlace, LockedPlaces
  <2>3. \A u \in Tasks : task[u] = "finished" => task'[u] = "finished"
    BY <1>1, <2>1
  <2> QED BY <1>1, <1>3, <2>1, <2>2, <2>3, WsInvOther
<1>4. (\/ /\ first' \in {first} \union
                       (IF ykp_ws_is_connected /\ first = "none" THEN {"other"} ELSE {})
          /\ UNCHANGED <<state, transport, s_connected, lock, aborting>>)
      \/ NotWritten(t)
  BY Zenon DEF RecvData
<1> QED BY <1>2, <1>3, <1>4

LEMMA WsInvTask ==
  ASSUME WsInv, NEW t \in Tasks, TaskStep(t) \/ Connect(t) \/ ConnectFails(t) PROVE WsInv'
<1> USE DEF Locked, Unlocked, untouched, connection
<1>1. CASE TaskBegin(t)
  BY <1>1, WsInvMove DEF TaskBegin, Places
<1>2. CASE SendHello(t)
  BY <1>2, WsInvSendHello
<1>3. CASE Idle(t) \/ EchoClose(t) \/ AwaitClose(t)
  BY <1>3, WsInvMove DEF Idle, EchoClose, AwaitClose, Places
<1>4. CASE Ping(t) \/ Reconnect(t)
  BY <1>4, WsInvMove DEF Ping, Reconnect, Places
<1>5. CASE Wait(t) \/ RecvNothing(t)
  BY <1>5, AgainPlace, WsInvMove DEF Wait, RecvNothing
<1>6. CASE Poll(t)
  <2>1. PICK next \in {"pollerr", "recv", Again} : Goto(t, next)
    BY <1>6 DEF Poll
  <2>2. next \in Places \ {"hello"}
    BY AgainPlace DEF Places
  <2> QED BY <1>6, <2>1, <2>2, WsInvMove DEF Poll
<1>7. CASE Closing(t)
  BY <1>7, WsInvMove DEF Closing, Places
<1>8. CASE FinishClose(t)
  BY <1>8, WsInvClose DEF FinishClose, Places
<1>9. CASE FinishState(t)
  BY <1>9, WsInvMove DEF FinishState, Places
<1>10. CASE PongTimeout(t) \/ ConnectFails(t)
  BY <1>10, WsInvTaskAborts DEF PongTimeout, ConnectFails, Places
<1>11. CASE PollError(t) \/ RecvFails(t)
  BY <1>11, AgainPlace, WsInvTaskAborts DEF PollError, RecvFails
<1>12. CASE RecvData(t)
  BY <1>12, WsInvRecvData
<1>13. ASSUME NEW frame \in {"PING", "PONG", "CLOSE"}, RecvControl(t, frame) PROVE WsInv'
  <2>1. state' = state \/ state' \in {"INIT", "CLOSING", "UNKNOW"}
    BY <1>13 DEF RecvControl
  <2> QED BY <1>13, <2>1, AgainPlace, WsInvMove DEF RecvControl, Receives
<1>14. CASE Connect(t)
  BY <1>14, WsInvConnect
<1> QED BY <1>1, <1>2, <1>3, <1>4, <1>5, <1>6, <1>7, <1>8, <1>9, <1>10, <1>11, <1>12, <1>13, <1>14
        DEF TaskStep

LEMMA WsInvSender == ASSUME WsInv, SenderStep PROVE WsInv'
<1>1. CASE SenderChecks \/ SenderGivesUp
  BY <1>1, WsInvSame DEF SenderChecks, SenderGivesUp, connection
<1>2. CASE SenderWrites
  <2>1. lock = "none" /\ UNCHANGED <<task, hello>> /\ (Written("other") \/ NotWritten("sender"))
    BY <1>2 DEF SenderWrites
  <2>2. aborting = "no" /\ task' \in [Tasks -> Places] /\ \A u \in Tasks : task[u] # "hello" /\ task'[u] # "hello"
    BY <2>1, LockedPlaces DEF WsInv
  <2>3. CASE Written("other")
    <3>1. /\ transport = "open" /\ lock' = "none"
          /\ first' = first \/ (first = "none" /\ first' = "other")
          /\ UNCHANGED <<state, s_connected, transport, aborting>>
      BY <2>3 DEF Written, WriteWorks
    <3>2. \A u \in Tasks : task[u] = "finished" => task'[u] = "finished"
      BY <2>1
    <3> QED BY <2>1, <2>2, <3>1, <3>2, WsInvOther
  <2>4. CASE NotWritten("sender")
    <3>1. abort_connection("sender") /\ UNCHANGED first /\ UNCHANGED hello
      BY <2>1, <2>4 DEF NotWritten
    <3>2. "sender" \in Tasks \union {"sender"}
      OBVIOUS
    <3>3. \A u \in Tasks : (task[u] = "finished") <=> (task'[u] = "finished")
      BY <2>1
    <3> QED BY <2>2, <3>1, <3>2, <3>3, WsInvAborts, Zenon
  <2> QED BY <2>1, <2>3, <2>4
<1> QED BY <1>1, <1>2 DEF SenderStep

LEMMA WsInvStart == ASSUME WsInv, ykp_ws_connect PROVE WsInv'
<1> DEFINE t == CHOOSE u \in Tasks : task[u] = "none"
<1>1. t \in Tasks /\ task[t] = "none" /\ state = "UNKNOW" /\ Goto(t, "begin")
  BY DEF ykp_ws_connect, CanStart
<1> HIDE DEF t
<1> QED BY <1>1, WsInvClose DEF ykp_ws_connect, Places

LEMMA WsInvStep == WsInv /\ [Next]_vars => WsInv'
<1> SUFFICES ASSUME WsInv, [Next]_vars PROVE WsInv'
  OBVIOUS
<1>1. CASE UNCHANGED wsVars
  BY <1>1, WsInvSame DEF wsVars, connection
<1>2. CASE wifi_manager_connect_async \/ Associate \/ AssociateFails \/ NewAddress \/ StaDisconnected
           \/ Look \/ UNCHANGED vars
  BY <1>1, <1>2 DEF wifi_manager_connect_async, Associate, AssociateFails, NewAddress,
                    StaDisconnected, Look, vars
<1>3. CASE WifiLost
  BY <1>3, WsInvSame DEF WifiLost, connection
<1>4. CASE GotIp
  BY <1>1, <1>4, WsInvStart DEF GotIp
<1>5. CASE WsConnect \/ WsConnectFails \/ \E t \in Tasks : WsTask(t)
  BY <1>5, WsInvTask DEF WsConnect, WsConnectFails, WsTask
<1>6. CASE WsAbort \/ WsSender
  BY <1>6, WsInvSender, WsInvAbortStep DEF WsSender, WsAbort
<1>7. CASE ServerFrame \/ ServerFault
  BY <1>7, WsInvSame DEF ServerFrame, ServerFault, Arrive, Break, connection, untouched
<1>8. CASE Restart
  BY <1>8, WsInvBoot DEF Restart
<1> QED BY <1>2, <1>3, <1>4, <1>5, <1>6, <1>7, <1>8 DEF Next

LEMMA WsInvariant == Spec => []WsInv
  BY WsInvInit, WsInvStep, PTL DEF Spec

\* HELLO is the first packet of every connection on which send_hello could build
\* and write it, whatever the button, the main loop, a failing network and the end
\* of an earlier task do in the 500 ms that on_ws_connected waits.
THEOREM HelloIsFirst == Spec => []HelloFirst
<1>1. WsInv => HelloFirst
  BY DEF WsInv
<1> QED BY <1>1, WsInvariant, PTL

\* The wrapper's s_connected is down while the client waits to reconnect, except
\* until the DISCONNECTED event of the lost connection is handled.
THEOREM WaitingIsReported == Spec => []WaitingIsDown
<1>1. WsInv => WaitingIsDown
  BY DEF WsInv
<1> QED BY <1>1, WsInvariant, PTL

\* ykp_ws_is_connected, asked at any moment and without the lock, is true of a
\* closed transport only while a connection is being given up or a task ends.
THEOREM ConnectedMeansOpen == Spec => []ConnectedIsOpen
<1>1. WsInv => ConnectedIsOpen
  BY DEF WsInv, OpenWhileConnected, ConnectedIsOpen, ykp_ws_is_connected,
         esp_websocket_client_is_connected
<1> QED BY <1>1, WsInvariant, PTL

-----------------------------------------------------------------------------
(* WiFi.                                                                   *)

\* The last event posted tells how the driver stands; before the first one
\* the manager is waiting for it.
LastEvent ==
    /\ events \in Seq({"GOT_IP", "STA_DISCONNECTED"})
    /\ station \in {"off", "connecting", "on"}
    /\ events # <<>> => /\ station \in {"off", "on"}
                        /\ events[Len(events)] = "GOT_IP" <=> station = "on"
    /\ s_state = "DISCONNECTED" => station = "off" /\ events = <<>>

WifiInv == LastEvent /\ WifiStateTrue

\* Posting an event that agrees with the driver's new state.
LEMMA PostKeeps ==
  ASSUME WifiInv, NEW e \in {"GOT_IP", "STA_DISCONNECTED"}, Post(e), UNCHANGED s_state,
         station' = (IF e = "GOT_IP" THEN "on" ELSE "off"), s_state # "DISCONNECTED"
  PROVE  WifiInv'
<1>1. events' \in Seq({"GOT_IP", "STA_DISCONNECTED"}) /\ events' # <<>> /\ events'[Len(events')] = e
  BY DEF WifiInv, LastEvent, Post
<1> QED BY <1>1 DEF WifiInv, LastEvent, WifiStateTrue

\* What is left of a queue has the same last element.
LEMMA LastOfTail ==
  ASSUME NEW S, NEW q \in Seq(S), q # <<>>
  PROVE  /\ Tail(q) \in Seq(S)
         /\ \/ Tail(q) = <<>> /\ Head(q) = q[Len(q)]
            \/ Tail(q) # <<>> /\ Tail(q)[Len(Tail(q))] = q[Len(q)]
<1>1. /\ Len(q) \in Nat \ {0} /\ Tail(q) \in Seq(S)
      /\ Len(Tail(q)) = Len(q) - 1 /\ Len(q) \in Int /\ Len(Tail(q)) \in Int
  BY EmptySeq, HeadTailProperties
<1>2. Len(<<>>) = 0
  BY EmptySeq
<1>3. CASE Tail(q) = <<>>
  <2>1. Len(Tail(q)) = 0
    BY <1>2, <1>3, Zenon
  <2>2. Len(q) = 1
    <3>1. \A n, k \in Int : k = n - 1 /\ k = 0 => n = 1
      OBVIOUS
    <3> QED BY <1>1, <2>1, <3>1, Zenon
  <2> QED BY <1>1, <1>3, <2>2
<1>4. CASE Tail(q) # <<>>
  <2>1. Len(Tail(q)) \in Nat \ {0}
    BY <1>1, <1>4, EmptySeq
  <2>2. Tail(q)[Len(q) - 1] = q[Len(q) - 1 + 1]
    BY <1>1, <2>1, HeadTailProperties
  <2>3. Len(q) - 1 + 1 = Len(q)
    BY <1>1
  <2> QED BY <1>1, <1>4, <2>2, <2>3
<1> QED BY <1>3, <1>4

\* Handling the first event, which is the last one if none is left.
LEMMA HandleKeeps ==
  ASSUME WifiInv, events # <<>>, events' = Tail(events), UNCHANGED station,
         s_state' = (IF Head(events) = "GOT_IP" THEN "CONNECTED" ELSE "FAILED")
  PROVE  WifiInv'
<1>1. /\ events' \in Seq({"GOT_IP", "STA_DISCONNECTED"})
      /\ \/ events' = <<>> /\ Head(events) = events[Len(events)]
         \/ events' # <<>> /\ events'[Len(events')] = events[Len(events)]
  BY LastOfTail DEF WifiInv, LastEvent
<1> QED BY <1>1 DEF WifiInv, LastEvent, WifiStateTrue

LEMMA WifiInvStep == WifiInv /\ [Next]_vars => WifiInv'
<1> SUFFICES ASSUME WifiInv, [Next]_vars PROVE WifiInv'
  OBVIOUS
<1>1. CASE UNCHANGED <<s_state, station, events>>
  BY <1>1 DEF WifiInv, LastEvent, WifiStateTrue
<1>2. CASE wifi_manager_connect_async
  BY <1>2 DEF wifi_manager_connect_async, WifiInv, LastEvent, WifiStateTrue
<1>3. CASE Associate \/ AssociateFails \/ WifiLost \/ NewAddress
  <2>1. s_state # "DISCONNECTED"
    BY <1>3 DEF Associate, AssociateFails, WifiLost, NewAddress, WifiInv, LastEvent
  <2>2. \E e \in {"GOT_IP", "STA_DISCONNECTED"} :
          Post(e) /\ UNCHANGED s_state /\ station' = (IF e = "GOT_IP" THEN "on" ELSE "off")
    BY <1>3 DEF Associate, AssociateFails, WifiLost, NewAddress
  <2> QED BY <2>1, <2>2, PostKeeps
<1>4. CASE GotIp
  BY <1>4, HandleKeeps DEF GotIp
<1>5. CASE StaDisconnected
  BY <1>5, HandleKeeps DEF StaDisconnected
<1>6. CASE Restart
  BY <1>6 DEF Restart, WifiInv, LastEvent, WifiStateTrue
<1>7. CASE WsConnect \/ WsConnectFails \/ (\E t \in Tasks : WsTask(t)) \/ WsAbort \/ WsSender \/ ServerFrame \/ ServerFault \/ Look
           \/ UNCHANGED vars
  BY <1>1, <1>7 DEF WsConnect, WsConnectFails, WsTask, WsAbort, WsSender, ServerFrame, ServerFault, Look,
                    netVars, vars
<1> QED BY <1>2, <1>3, <1>4, <1>5, <1>6, <1>7 DEF Next

\* When all WiFi events are handled the manager's state is the driver's, however
\* late wifi_event_handler gets to them.
THEOREM WifiStateIsTrue == Spec => []WifiStateTrue
<1>1. Init => WifiInv
  BY DEF Init, WifiInv, LastEvent, WifiStateTrue
<1>2. WifiInv => WifiStateTrue
  BY DEF WifiInv
<1> QED BY <1>1, <1>2, WifiInvStep, PTL DEF Spec
=============================================================================
