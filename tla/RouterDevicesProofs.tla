------------------------ MODULE RouterDevicesProofs ------------------------
(***************************************************************************)
(* The server's two maps agree: for any number of devices and sockets, and *)
(* any interleaving of packets, suspended handlers and close events, an    *)
(* active session is routable and a routable device has a session.         *)
(*                                                                         *)
(* Neither property is inductive alone: a HELLO assigns the socket's       *)
(* closure variable, so one must know that the packets waiting on a socket *)
(* all name the socket's own device.                                       *)
(***************************************************************************)
EXTENDS RouterDevices, TLAPS

Packets(s) == DevicePackets(Owner[s])

PacketsOwned == up \in [Sockets -> UNION {Seq(Packets(s)) : s \in Sockets}]
                  /\ \A s \in Sockets : up[s] \in Seq(Packets(s))

NamesOwner == \A s \in Sockets : deviceId[s] \in {Owner[s], NoDevice}

IInv == RouterTypeOK /\ PacketsOwned /\ NamesOwner /\ ActiveIsRoutable /\ RoutableHasSession

\* What the fields of a device's packet can be.
LEMMA PacketFields ==
    ASSUME NEW d \in Devices, NEW p \in DevicePackets(d)
    PROVE  /\ p.dev = d /\ p.id \in Nat
           /\ p.kind = "HELLO" => p.pub \in Nat
  BY RouterDevicesAssumption DEF DevicePackets, Hello, EcdhResponse, Data, NoKey

\* A delivered packet was sent by the socket's device, and the packets left
\* behind it were too.
LEMMA DeliveredPacket ==
    ASSUME PacketsOwned, NEW s \in Sockets, NEW kind, Delivers(s, kind)
    PROVE  /\ Head(up[s]) \in Packets(s)
           /\ Head(up[s]).kind = kind
           /\ PacketsOwned'
           /\ sock[s] \in {"open", "closing"}
  <1>1. up[s] \in Seq(Packets(s)) /\ up[s] # <<>>
    BY DEF PacketsOwned, Delivers
  <1>2. Head(up[s]) \in Packets(s) /\ Tail(up[s]) \in Seq(Packets(s))
    BY <1>1
  <1>3. up' = [up EXCEPT ![s] = Tail(up[s])]
    BY DEF Delivers
  <1>4. PacketsOwned'
    BY <1>2, <1>3 DEF PacketsOwned
  <1>. QED  BY <1>2, <1>4 DEF Delivers

LEMMA InitIInv == Init => IInv
  <1>. SUFFICES ASSUME Init PROVE IInv  OBVIOUS
  <1>. USE RouterAssumption, RouterDevicesAssumption DEF Init, RouterInit, NoSession, NoKey
  <1>1. RouterTypeOK  BY DEF RouterTypeOK, Sessions
  <1>2. PacketsOwned
    <2>1. \A s \in Sockets : <<>> \in Seq(Packets(s))  OBVIOUS
    <2>. QED  BY <2>1 DEF PacketsOwned
  <1>3. NamesOwner  BY DEF NamesOwner
  <1>4. ActiveIsRoutable  BY DEF ActiveIsRoutable
  <1>5. RoutableHasSession  BY DEF RoutableHasSession
  <1>. QED  BY <1>1, <1>2, <1>3, <1>4, <1>5 DEF IInv

LEMMA NextIInv == IInv /\ [Next]_vars => IInv'
  <1>. SUFFICES ASSUME IInv, [Next]_vars PROVE IInv'  OBVIOUS
  <1>. USE RouterAssumption, RouterDevicesAssumption
  <1>. USE DEF IInv, routerVars, mapVars, routerNetVars
  <1>1. ASSUME NEW s \in Sockets, Accept(s) PROVE IInv'
    <2>1. /\ sock[s] = "new" /\ sock' = [sock EXCEPT ![s] = "open"]
          /\ UNCHANGED <<up, deviceId, sessions, deviceConnections, suspended, created, commands>>
      BY <1>1 DEF Accept
    <2>2. RouterTypeOK'
      BY <2>1 DEF RouterTypeOK, Sessions
    <2>3. PacketsOwned' /\ NamesOwner' /\ RoutableHasSession'
      BY <2>1 DEF PacketsOwned, NamesOwner, RoutableHasSession, HasSession
    <2>4. ActiveIsRoutable'
      BY <2>1 DEF ActiveIsRoutable, RouterTypeOK
    <2>. QED  BY <2>2, <2>3, <2>4
  <1>2. ASSUME NEW s \in Sockets, HandleHello(s) PROVE IInv'
    <2>. DEFINE p == Head(up[s])
    <2>1. p \in Packets(s) /\ p.kind = "HELLO" /\ PacketsOwned'
      BY <1>2, DeliveredPacket DEF HandleHello
    <2>2. p.dev = Owner[s] /\ p.id \in Nat /\ p.pub \in Nat
      BY <2>1, PacketFields DEF Packets
    <2>3. RouterTypeOK'
      BY <1>2, <2>2 DEF HandleHello, RouterTypeOK, Handlers
    <2>4. NamesOwner'
      BY <1>2, <2>2 DEF HandleHello, NamesOwner, RouterTypeOK
    <2>5. ActiveIsRoutable'
      BY <1>2, <2>2 DEF HandleHello, ActiveIsRoutable, NamesOwner, RouterTypeOK
    <2>6. RoutableHasSession'
      BY <1>2 DEF HandleHello, RoutableHasSession, HasSession
    <2>. QED  BY <2>1, <2>3, <2>4, <2>5, <2>6
  <1>3. ASSUME NEW h \in suspended, ResumeHello(h) PROVE IInv'
    <2>1. h.dev \in Devices /\ h.pub \in Nat /\ created \in Nat /\ created < MaxSessions
      BY <1>3 DEF ResumeHello, createPendingSession, RouterTypeOK, Handlers
    <2>2. sessions' = [sessions EXCEPT ![h.dev] =
             [sid |-> created + 1, pub |-> h.pub, active |-> FALSE, seen |-> {}, counter |-> 0]]
      BY <1>3 DEF ResumeHello, createPendingSession
    <2>3. /\ created' = created + 1 /\ suspended' = suspended \ {h}
          /\ UNCHANGED <<up, sock, deviceId, deviceConnections, commands>>
      BY <1>3 DEF ResumeHello, createPendingSession
    <2>4. RouterTypeOK'
      BY <2>1, <2>2, <2>3 DEF RouterTypeOK, Sessions
    <2>5. PacketsOwned' /\ NamesOwner'
      BY <2>3 DEF PacketsOwned, NamesOwner
    <2>6. ActiveIsRoutable' /\ RoutableHasSession'
      BY <2>1, <2>2, <2>3 DEF ActiveIsRoutable, RoutableHasSession, HasSession, RouterTypeOK
    <2>. QED  BY <2>4, <2>5, <2>6
  <1>4. ASSUME NEW h \in suspended, ResumeHelloNoKey(h) PROVE IInv'
    <2>1. /\ sock' = [sock EXCEPT ![h.sock] = IF @ = "open" THEN "closing" ELSE @]
          /\ suspended' = suspended \ {h} /\ h.sock \in Sockets
          /\ UNCHANGED <<up, deviceId, sessions, deviceConnections, created, commands>>
      BY <1>4 DEF ResumeHelloNoKey, StartClosing, RouterTypeOK, Handlers
    <2>2. RouterTypeOK'
      BY <2>1 DEF RouterTypeOK, Sessions
    <2>3. PacketsOwned' /\ NamesOwner' /\ RoutableHasSession'
      BY <2>1 DEF PacketsOwned, NamesOwner, RoutableHasSession, HasSession
    <2>4. ActiveIsRoutable'
      BY <2>1 DEF ActiveIsRoutable, RouterTypeOK
    <2>. QED  BY <2>2, <2>3, <2>4
  <1>5. ASSUME NEW s \in Sockets, EcdhNoSession(s) PROVE IInv'
    <2>1. /\ sock' = [sock EXCEPT ![s] = IF @ = "open" THEN "closing" ELSE @]
          /\ UNCHANGED <<deviceId, sessions, deviceConnections, suspended, created, commands>>
      BY <1>5 DEF EcdhNoSession, StartClosing
    <2>2. PacketsOwned'
      BY <1>5, DeliveredPacket DEF EcdhNoSession
    <2>3. RouterTypeOK'
      BY <2>1 DEF RouterTypeOK, Sessions
    <2>4. NamesOwner' /\ RoutableHasSession'
      BY <2>1 DEF NamesOwner, RoutableHasSession, HasSession
    <2>5. ActiveIsRoutable'
      BY <2>1 DEF ActiveIsRoutable, RouterTypeOK
    <2>. QED  BY <2>2, <2>3, <2>4, <2>5
  <1>6. ASSUME NEW s \in Sockets, EcdhThrows(s) \/ DropPacket(s) PROVE IInv'
    <2>1. UNCHANGED <<sock, deviceId, sessions, deviceConnections, suspended, created, commands>>
      BY <1>6 DEF EcdhThrows, DropPacket
    <2>2. PacketsOwned'
      BY <1>6, DeliveredPacket DEF EcdhThrows, DropPacket
    <2>. QED
      BY <2>1, <2>2 DEF RouterTypeOK, NamesOwner, ActiveIsRoutable, RoutableHasSession, HasSession
  <1>7. ASSUME NEW s \in Sockets, HandleEcdh(s) PROVE IInv'
    <2>. DEFINE d == deviceId[s]
    <2>1. /\ Head(up[s]) \in Packets(s) /\ PacketsOwned'
          /\ sock[s] \in {"open", "closing"}
      BY <1>7, DeliveredPacket DEF HandleEcdh
    <2>2. Head(up[s]).id \in Nat
      BY <2>1, PacketFields DEF Packets
    <2>3. d \in Devices /\ sessions[d].sid # 0
      BY <1>7 DEF HandleEcdh, HasSession, RouterTypeOK
    <2>4. /\ sessions' = [sessions EXCEPT ![d].active = TRUE, ![d].seen = {}]
          /\ deviceConnections' = [deviceConnections EXCEPT ![d] = s]
          /\ suspended' = suspended \union
               {[at |-> "markOnline", sock |-> s, id |-> Head(up[s]).id, dev |-> d,
                 sid |-> sessions[d].sid]}
          /\ UNCHANGED <<sock, deviceId, created, commands>>
      BY <1>7 DEF HandleEcdh, activateSession, registerConnection
    <2>5. RouterTypeOK'
      <3>1. sessions[d].sid \in Nat
        BY <2>3 DEF RouterTypeOK, Sessions
      <3>2. suspended' \subseteq Handlers
        BY <2>2, <2>3, <2>4, <3>1 DEF RouterTypeOK, Handlers
      <3>3. /\ sessions' = [sessions EXCEPT ![d].active = TRUE, ![d].seen = {}]
            /\ sessions \in [Devices -> Sessions] /\ {} \in SUBSET Nat
        BY <2>4 DEF RouterTypeOK
      <3>4. sessions' \in [Devices -> Sessions]
        BY ONLY <2>3, <3>3 DEF Sessions
      <3>. QED  BY <2>3, <2>4, <3>2, <3>4 DEF RouterTypeOK, Sessions
    <2>6. NamesOwner'
      BY <2>4 DEF NamesOwner
    <2>7. ActiveIsRoutable'
      BY <2>1, <2>3, <2>4 DEF ActiveIsRoutable, RouterTypeOK
    <2>8. RoutableHasSession'
      BY <2>3, <2>4 DEF RoutableHasSession, HasSession, RouterTypeOK
    <2>. QED  BY <2>1, <2>5, <2>6, <2>7, <2>8
  <1>8. ASSUME NEW h \in suspended, ResumeEcdh(h) PROVE IInv'
    BY <1>8 DEF ResumeEcdh, RouterTypeOK, PacketsOwned, NamesOwner, ActiveIsRoutable,
                RoutableHasSession, HasSession
  <1>9. ASSUME NEW s \in Sockets, HandlePacket(s) PROVE IInv'
    <2>. DEFINE d == deviceId[s]
                p == Head(up[s])
    <2>1. p \in Packets(s) /\ PacketsOwned'
      BY <1>9, DeliveredPacket DEF HandlePacket
    <2>2. p.id \in Nat
      BY <2>1, PacketFields DEF Packets
    <2>3. d \in Devices
      BY <1>9 DEF HandlePacket, Admitted, isActive, RouterTypeOK
    <2>4. /\ sessions' = [sessions EXCEPT ![d].seen = @ \union {p.id}, ![d].counter = @ + 1]
          /\ UNCHANGED <<sock, deviceId, deviceConnections, suspended, created, commands>>
      BY <1>9 DEF HandlePacket
    <2>5. RouterTypeOK'
      BY <2>2, <2>3, <2>4 DEF RouterTypeOK, Sessions
    <2>6. NamesOwner' /\ ActiveIsRoutable' /\ RoutableHasSession'
      BY <2>3, <2>4 DEF NamesOwner, ActiveIsRoutable, RoutableHasSession, HasSession, RouterTypeOK
    <2>. QED  BY <2>1, <2>5, <2>6
  <1>10. ASSUME NEW s \in Sockets, HandleClose(s) PROVE IInv'
    <2>1. /\ sock' = [sock EXCEPT ![s] = "closed"]
          /\ UNCHANGED <<up, deviceId, suspended, created, commands>>
      BY <1>10 DEF HandleClose
    <2>2. PacketsOwned' /\ NamesOwner'
      BY <2>1 DEF PacketsOwned, NamesOwner
    <2>3. CASE deviceId[s] = NoDevice
      <3>1. UNCHANGED <<sessions, deviceConnections>>
        BY <1>10, <2>3 DEF HandleClose
      <3>2. RouterTypeOK' /\ RoutableHasSession'
        BY <2>1, <3>1 DEF RouterTypeOK, RoutableHasSession, HasSession
      <3>3. ActiveIsRoutable'
        BY <2>1, <2>3, <3>1 DEF ActiveIsRoutable, RouterTypeOK
      <3>. QED  BY <2>2, <3>2, <3>3
    <2>4. CASE deviceId[s] # NoDevice
      <3>1. /\ deviceConnections' = [deviceConnections EXCEPT ![deviceId[s]] = NoSocket]
            /\ sessions' = [sessions EXCEPT ![deviceId[s]] = NoSession]
            /\ deviceId[s] \in Devices
        BY <1>10, <2>4 DEF HandleClose, RouterTypeOK
      <3>2. RouterTypeOK'
        <4>1. NoSession \in Sessions
          BY DEF NoSession, NoKey, Sessions
        <4>. QED  BY <2>1, <3>1, <4>1 DEF RouterTypeOK
      <3>3. ActiveIsRoutable' /\ RoutableHasSession'
        BY <2>1, <3>1 DEF ActiveIsRoutable, RoutableHasSession, HasSession, NoSession, RouterTypeOK
      <3>. QED  BY <2>2, <3>2, <3>3
    <2>. QED  BY <2>3, <2>4
  <1>11. ASSUME NEW d \in Devices, SendCommand(d, "ON", FALSE) PROVE IInv'
    <2>1. /\ sessions' = IF HasSession(d) THEN [sessions EXCEPT ![d].counter = @ + 1] ELSE sessions
          /\ commands < MaxCommands /\ commands' = commands + 1
          /\ UNCHANGED <<up, sock, deviceId, deviceConnections, suspended, created>>
      BY <1>11 DEF SendCommand
    <2>2. RouterTypeOK'
      <3>1. sessions[d] \in Sessions
        BY DEF RouterTypeOK, Sessions
      <3>2. CASE ~ HasSession(d)
        BY <2>1, <3>1, <3>2 DEF RouterTypeOK, Sessions
      <3>3. CASE HasSession(d)
        <4>1. sessions' = [sessions EXCEPT ![d].counter = @ + 1]
          BY <2>1, <3>3
        <4>. DEFINE r == [sessions[d] EXCEPT !.counter = @ + 1]
        <4>2. sessions' = [sessions EXCEPT ![d] = r]
          BY <4>1
        <4>3. r \in Sessions
          BY ONLY <3>1 DEF Sessions
        <4>. HIDE DEF r
        <4>4. sessions' \in [Devices -> Sessions]
          BY <4>2, <4>3 DEF RouterTypeOK
        <4>. QED  BY <2>1, <4>4 DEF RouterTypeOK
      <3>. QED  BY <3>2, <3>3
    <2>3. PacketsOwned' /\ NamesOwner'
      BY <2>1 DEF PacketsOwned, NamesOwner
    <2>4. ActiveIsRoutable' /\ RoutableHasSession'
      BY <2>1 DEF ActiveIsRoutable, RoutableHasSession, HasSession, RouterTypeOK
    <2>. QED  BY <2>2, <2>3, <2>4
  <1>12. ASSUME NEW s \in Sockets, DeviceSends(s) PROVE IInv'
    <2>1. PICK p \in Packets(s) : up' = [up EXCEPT ![s] = Append(@, p)]
      BY <1>12 DEF DeviceSends, Packets
    <2>2. up[s] \in Seq(Packets(s))
      BY DEF PacketsOwned
    <2>3. Append(up[s], p) \in Seq(Packets(s))
      BY <2>1, <2>2
    <2>4. PacketsOwned'
      BY <2>1, <2>3 DEF PacketsOwned
    <2>5. UNCHANGED <<sock, deviceId, sessions, deviceConnections, suspended, created, commands>>
      BY <1>12 DEF DeviceSends
    <2>. QED
      BY <2>4, <2>5 DEF RouterTypeOK, NamesOwner, ActiveIsRoutable, RoutableHasSession, HasSession
  <1>13. ASSUME NEW s \in Sockets, DeviceReads(s) PROVE IInv'
    BY <1>13 DEF DeviceReads, RouterTypeOK, PacketsOwned, NamesOwner, ActiveIsRoutable,
                 RoutableHasSession, HasSession
  <1>14. ASSUME UNCHANGED vars PROVE IInv'
    BY <1>14 DEF vars, RouterTypeOK, PacketsOwned, NamesOwner, ActiveIsRoutable,
                 RoutableHasSession, HasSession
  <1>. QED
    BY <1>1, <1>2, <1>3, <1>4, <1>5, <1>6, <1>7, <1>8, <1>9, <1>10, <1>11, <1>12, <1>13, <1>14
       DEF Next, ServerStep, OnMessage, Resume, ResumeHandler

LEMMA InvariantHolds == Spec => []IInv
  BY InitIInv, NextIInv, PTL DEF Spec

\* The variables of the router keep their types (RouterTypeOK) whatever the
\* devices send and however the handlers interleave.
THEOREM RouterTypeCorrect == Spec => []RouterTypeOK
  <1>1. IInv => RouterTypeOK  BY DEF IInv
  <1>. QED  BY <1>1, InvariantHolds, PTL

\* activateSession and registerConnection on one side and the close event on the
\* other never leave an active session (session-manager.ts) without an open
\* connection of its own device in deviceConnections (route-engine.ts).
THEOREM ActiveSessionsAreRoutable == Spec => []ActiveIsRoutable
  <1>1. IInv => ActiveIsRoutable  BY DEF IInv
  <1>. QED  BY <1>1, InvariantHolds, PTL

\* A device in deviceConnections always has a session, so sendYkpPacket never
\* sends a packet under the random id of api/devices.ts.
THEOREM RoutableDevicesHaveSessions == Spec => []RoutableHasSession
  <1>1. IInv => RoutableHasSession  BY DEF IInv
  <1>. QED  BY <1>1, InvariantHolds, PTL
=============================================================================
