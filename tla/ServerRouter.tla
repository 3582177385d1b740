--------------------------- MODULE ServerRouter ---------------------------
(***************************************************************************)
(* The server's connection handling: render-backend router/ykp-router.ts,  *)
(* router/session-manager.ts, router/route-engine.ts, the per-session      *)
(* replay guard, and POST /api/devices/:id/command of api/devices.ts.      *)
(*                                                                         *)
(* Node runs one handler at a time up to its next `await`; `suspended`     *)
(* holds the handlers that wait for the database, with the values they     *)
(* captured before the await.  While one waits, every other socket, and    *)
(* the same one, goes on delivering packets and close events.  The         *)
(* `sessions` and `deviceConnections` maps are keyed by device id alone.   *)
(*                                                                         *)
(* The database calls never reject (supabase-js reports errors in its      *)
(* result), so a suspended handler always goes on.                         *)
(*                                                                         *)
(* The firmware sends every packet with QoS 1 and without the ENCRYPTED    *)
(* flag, so the server's decryption branch is not taken.  Two waiting      *)
(* handlers with the same captured values would act alike and are kept as  *)
(* one.                                                                    *)
(***************************************************************************)
EXTENDS YkpMessages, ReplayOps, FiniteSets

CONSTANTS Devices, Sockets, NoDevice, NoSocket,
          DeriveOutcomes,  \* deriveSessionKey: TRUE returns, FALSE throws
          MaxSessions,     \* bound: pending sessions created
          MaxCommands      \* bound: packets sent by the REST API

ASSUME RouterAssumption ==
    /\ NoDevice \notin Devices
    /\ NoSocket \notin Sockets
    /\ DeriveOutcomes \subseteq BOOLEAN
    /\ MaxSessions \in Nat
    /\ MaxCommands \in Nat

VARIABLES
    up, down,           \* per socket: packets to the server / to the device
    sock,               \* readyState of each socket
    deviceId,           \* the closure variable of each connection handler
    sessions,           \* SessionManager.sessions
    deviceConnections,  \* route-engine.ts deviceConnections
    suspended,          \* message handlers waiting at an await
    created,            \* sessions created so far; numbers session ids and keys
    commands            \* packets sent by the REST API so far

routerNetVars == <<up, down>>
mapVars == <<sessions, deviceConnections>>
routerVars == <<sock, deviceId, mapVars, suspended, created, commands>>

\* DeviceSession; the server's ephemeral key is the number sid itself.
Sessions ==
    [sid : 0 .. MaxSessions, pub : Nat, active : BOOLEAN, seen : SUBSET Nat, counter : Nat]

NoSession == [sid |-> 0, pub |-> NoKey, active |-> FALSE, seen |-> {}, counter |-> 0]

Handlers ==
    [at : {"upsertDevice"}, sock : Sockets, id : Nat, dev : Devices, pub : Nat]
      \union
    [at : {"markOnline"}, sock : Sockets, id : Nat, dev : Devices, sid : Nat]

RouterTypeOK ==
    /\ sock \in [Sockets -> {"new", "open", "closing", "closed"}]
    /\ deviceId \in [Sockets -> Devices \union {NoDevice}]
    /\ sessions \in [Devices -> Sessions]
    /\ deviceConnections \in [Devices -> Sockets \union {NoSocket}]
    /\ suspended \subseteq Handlers
    /\ created \in 0 .. MaxSessions
    /\ commands \in 0 .. MaxCommands

RouterInit ==
    /\ sock = [s \in Sockets |-> "new"]
    /\ deviceId = [s \in Sockets |-> NoDevice]
    /\ sessions = [d \in Devices |-> NoSession]
    /\ deviceConnections = [d \in Devices |-> NoSocket]
    /\ suspended = {}
    /\ created = 0
    /\ commands = 0

-----------------------------------------------------------------------------
(* Helpers.                                                                *)

HasSession(d) == d # NoDevice /\ sessions[d].sid # 0
isActive(d) == d # NoDevice /\ sessions[d].active

\* The gate in front of the services: an active session and a fresh id.
Admitted(d, id) == isActive(d) /\ Fresh(sessions[d].seen, id)

\* The next packet on socket s has the given kind; ws delivers no message once
\* the socket has been closed.
Delivers(s, kind) ==
    /\ sock[s] \in {"open", "closing"}
    /\ up[s] # <<>>
    /\ Head(up[s]).kind = kind
    /\ up' = [up EXCEPT ![s] = Tail(@)]

\* ws.send: a socket that is no longer open swallows the packet.
Send(s, packet) ==
    down' = IF sock[s] = "open" THEN [down EXCEPT ![s] = Append(@, packet)] ELSE down

\* ws.close starts the closing handshake; the close event comes later.
StartClosing(s) == sock' = [sock EXCEPT ![s] = IF @ = "open" THEN "closing" ELSE @]

createPendingSession(d, pub) ==
    /\ created < MaxSessions
    /\ created' = created + 1
    /\ sessions' = [sessions EXCEPT ![d] =
         [sid |-> created + 1, pub |-> pub, active |-> FALSE, seen |-> {}, counter |-> 0]]

activateSession(d) ==
    sessions' = [sessions EXCEPT ![d].active = TRUE, ![d].seen = {}]

registerConnection(d, s) == deviceConnections' = [deviceConnections EXCEPT ![d] = s]

-----------------------------------------------------------------------------
(* wss.on('connection') and ws.on('message').                              *)

Accept(s) ==
    /\ sock[s] = "new"
    /\ sock' = [sock EXCEPT ![s] = "open"]
    /\ UNCHANGED <<routerNetVars, deviceId, mapVars, suspended, created, commands>>

\* SEC_HELLO up to `await upsertDevice`.
HandleHello(s) ==
    /\ Delivers(s, "HELLO")
    /\ LET p == Head(up[s]) IN
         /\ deviceId' = [deviceId EXCEPT ![s] = p.dev]
         /\ suspended' = suspended \union
              {[at |-> "upsertDevice", sock |-> s, id |-> p.id, dev |-> p.dev, pub |-> p.pub]}
    /\ UNCHANGED <<down, sock, mapVars, created, commands>>

\* SEC_HELLO after the await: replace the session and send CHALLENGE.  That the
\* socket is still open, or still the device's, is not checked.
ResumeHello(h) ==
    /\ h.at = "upsertDevice"
    /\ h.pub # NoKey
    /\ suspended' = suspended \ {h}
    /\ createPendingSession(h.dev, h.pub)
    /\ Send(h.sock, Challenge(h.id, created + 1))
    /\ UNCHANGED <<up, sock, deviceId, deviceConnections, commands>>

\* A HELLO without a public key closes the socket.
ResumeHelloNoKey(h) ==
    /\ h.at = "upsertDevice"
    /\ h.pub = NoKey
    /\ suspended' = suspended \ {h}
    /\ StartClosing(h.sock)
    /\ UNCHANGED <<routerNetVars, deviceId, mapVars, created, commands>>

\* Fault: the packet is ignored and the socket left open.
EcdhNoSessionIgnored(s) ==
    /\ Delivers(s, "ECDH_RESPONSE")
    /\ ~ HasSession(deviceId[s])
    /\ UNCHANGED <<down, sock, deviceId, mapVars, suspended, created, commands>>

\* SEC_ECDH_RESPONSE without a session closes the socket.
EcdhNoSession(s) ==
    /\ Delivers(s, "ECDH_RESPONSE")
    /\ ~ HasSession(deviceId[s])
    /\ StartClosing(s)
    /\ UNCHANGED <<down, deviceId, mapVars, suspended, created, commands>>

\* deriveSessionKey throws: the handler ends in its catch block.
EcdhThrows(s) ==
    /\ Delivers(s, "ECDH_RESPONSE")
    /\ HasSession(deviceId[s])
    /\ FALSE \in DeriveOutcomes
    /\ UNCHANGED <<down, sock, deviceId, mapVars, suspended, created, commands>>

\* SEC_ECDH_RESPONSE up to `await presenceEngine.markOnline`.
HandleEcdh(s) ==
    /\ Delivers(s, "ECDH_RESPONSE")
    /\ HasSession(deviceId[s])
    /\ TRUE \in DeriveOutcomes
    /\ LET d == deviceId[s] IN
         /\ activateSession(d)
         /\ registerConnection(d, s)
         /\ suspended' = suspended \union
              {[at |-> "markOnline", sock |-> s, id |-> Head(up[s]).id, dev |-> d,
                sid |-> sessions[d].sid]}
    /\ UNCHANGED <<down, sock, deviceId, created, commands>>

\* SEC_ECDH_RESPONSE after the await: send SESSION_ACTIVE.
ResumeEcdh(h) ==
    /\ h.at = "markOnline"
    /\ suspended' = suspended \ {h}
    /\ Send(h.sock, SessionActive(h.id + 1, h.sid))
    /\ UNCHANGED <<up, sock, deviceId, mapVars, created, commands>>

\* No active session, or refused by the replay guard.
DropPacket(s) ==
    /\ Delivers(s, "DATA")
    /\ ~ Admitted(deviceId[s], Head(up[s]).id)
    /\ UNCHANGED <<down, sock, deviceId, mapVars, suspended, created, commands>>

\* The guard registers the id, the packet is acknowledged under the session's
\* own counter, and its service is called.
HandlePacket(s) ==
    /\ Delivers(s, "DATA")
    /\ LET d == deviceId[s]
           p == Head(up[s]) IN
         /\ Admitted(d, p.id)
         /\ sessions' = [sessions EXCEPT ![d].seen = @ \union {p.id}, ![d].counter = @ + 1]
         /\ Send(s, Ack(sessions[d].counter + 1))
    /\ UNCHANGED <<sock, deviceId, deviceConnections, suspended, created, commands>>

\* Fault: the close event does not close the session.
HandleCloseKeepsSession(s) ==
    /\ sock[s] \in {"open", "closing"}
    /\ sock' = [sock EXCEPT ![s] = "closed"]
    /\ deviceConnections' =
         [d \in Devices |-> IF d = deviceId[s] THEN NoSocket ELSE deviceConnections[d]]
    /\ UNCHANGED <<routerNetVars, deviceId, sessions, suspended, created, commands>>

\* Fault: the close event does not remove the connection.
HandleCloseKeepsConnection(s) ==
    /\ sock[s] \in {"open", "closing"}
    /\ sock' = [sock EXCEPT ![s] = "closed"]
    /\ sessions' = [d \in Devices |-> IF d = deviceId[s] THEN NoSession ELSE sessions[d]]
    /\ UNCHANGED <<routerNetVars, deviceId, deviceConnections, suspended, created, commands>>

\* The close event: the maps forget the device named by the closure variable,
\* whichever socket they held for it.
HandleClose(s) ==
    /\ sock[s] \in {"open", "closing"}
    /\ sock' = [sock EXCEPT ![s] = "closed"]
    /\ LET d == deviceId[s] IN
         \/ /\ d # NoDevice
            /\ deviceConnections' = [deviceConnections EXCEPT ![d] = NoSocket]
            /\ sessions' = [sessions EXCEPT ![d] = NoSession]
         \/ /\ d = NoDevice
            /\ UNCHANGED mapVars
    /\ UNCHANGED <<routerNetVars, deviceId, suspended, created, commands>>

-----------------------------------------------------------------------------
(* The REST API.                                                           *)

\* sendYkpPacket: the next id of the session, pending or active; without one the
\* caller's id stays, which api/devices.ts draws with Math.random().
OutboundIds(d) == IF HasSession(d) THEN {sessions[d].counter + 1} ELSE 0 .. MaxCommands

\* POST /api/devices/:id/command: 503 unless the device is in the map.
SendCommand(d, action, encrypted) ==
    /\ commands < MaxCommands
    /\ deviceConnections[d] # NoSocket
    /\ commands' = commands + 1
    /\ \E id \in OutboundIds(d) :
         Send(deviceConnections[d], Command(id, action, encrypted /\ HasSession(d)))
    /\ sessions' = IF HasSession(d) THEN [sessions EXCEPT ![d].counter = @ + 1] ELSE sessions
    /\ UNCHANGED <<up, sock, deviceId, deviceConnections, suspended, created>>

-----------------------------------------------------------------------------

ResumeHandler(h) == ResumeHello(h) \/ ResumeHelloNoKey(h) \/ ResumeEcdh(h)

Resume == \E h \in suspended : ResumeHandler(h)

OnMessage(s) ==
    \/ HandleHello(s)
    \/ EcdhNoSession(s) \/ EcdhThrows(s) \/ HandleEcdh(s)
    \/ DropPacket(s) \/ HandlePacket(s)

-----------------------------------------------------------------------------
(* Properties.                                                             *)

\* An active session can be reached: the map names an open socket whose
\* handshake was that device's.  (activateSession and registerConnection on
\* one side, the close event on the other, with handlers suspended between.)
ActiveIsRoutable ==
    \A d \in Devices : sessions[d].active =>
        /\ deviceConnections[d] # NoSocket
        /\ deviceId[deviceConnections[d]] = d
        /\ sock[deviceConnections[d]] \in {"open", "closing"}

\* A device the API can send to has a session, so sendYkpPacket never falls
\* back on the caller's random packet id.
RoutableHasSession ==
    \A d \in Devices : deviceConnections[d] # NoSocket => HasSession(d)
=============================================================================
