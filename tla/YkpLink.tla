------------------------------ MODULE YkpLink ------------------------------
(***************************************************************************)
(* One device (DeviceSession) and the server (ServerRouter) joined by      *)
(* WebSocket connections.  A connection is an ordered, loss-free channel   *)
(* in each direction for as long as both ends use it; either end may learn *)
(* of its end first, and packets still in it are then lost.  A device that *)
(* reconnects before the server has seen the old socket close has two      *)
(* sockets open on the server.                                             *)
(***************************************************************************)
EXTENDS DeviceSession

CONSTANTS NoDevice, NoSocket, DeriveOutcomes, MaxSessions, MaxCommands,
          CommandKinds  \* the <<action, encrypted>> pairs the API sends

ASSUME LinkAssumption ==
    /\ NoDevice # Self /\ NoSocket \notin Connections
    /\ DeriveOutcomes \subseteq BOOLEAN
    /\ MaxSessions \in Nat /\ MaxCommands \in Nat
    /\ CommandKinds \subseteq Actions \X BOOLEAN

VARIABLES sock, deviceId, sessions, deviceConnections, suspended, created, commands,
          gaveUp,     \* history: a call of this connection's handshakes failed or threw
          overtaken   \* history: the server has handled an event of an earlier connection
                      \* since it last activated a session on this one

Server == INSTANCE ServerRouter WITH Devices <- {Self}, Sockets <- Connections

serverVars == <<sock, deviceId, sessions, deviceConnections, suspended, created, commands>>
historyVars == <<gaveUp, overtaken>>
vars == <<netVars, deviceVars, serverVars, historyVars>>

TypeOK ==
    /\ DeviceTypeOK
    /\ Server!RouterTypeOK
    /\ gaveUp \in BOOLEAN
    /\ overtaken \in BOOLEAN

Init ==
    /\ up = [c \in Connections |-> <<>>]
    /\ down = [c \in Connections |-> <<>>]
    /\ DeviceInit
    /\ Server!RouterInit
    /\ gaveUp = FALSE
    /\ overtaken = FALSE

-----------------------------------------------------------------------------

\* The opening handshake makes the connection known at both ends.
Connect ==
    /\ on_ws_connected /\ Server!Accept(conn')
    /\ gaveUp' = FALSE
    /\ overtaken' = FALSE

\* In this step send_hello, or the handling of a CHALLENGE, ends without having
\* sent its packet.
DeviceGivesUp ==
    \/ \E t \in Tasks : \/ pc[t] = "gen" /\ pc'[t] = "idle"
                        \/ pc[t] \in {"hello_send", "ecdh_send"} /\ pc'[t] # pc[t] /\ up' = up
    \/ Receives("CHALLENGE") /\ down' # down /\ pc' = pc

\* The end of its connection as the device sees it: a transport error, a ping
\* without answer, or, after everything the server has sent, its close frame.
ConnectionEnds ==
    \/ on_ws_disconnected
    \/ CloseFrame /\ sock[conn] # "open" /\ down[conn] = <<>>

OnDevice ==
    /\ gaveUp' = (gaveUp \/ DeviceGivesUp)
    /\ UNCHANGED <<serverVars, overtaken>>

DeviceStep ==
    /\ \/ ConnectionEnds
       \/ WsTask \/ MainTask \/ TimerTask
       \/ MainHealthReport \/ ButtonPress \/ SessionAges \/ Reboot
    /\ OnDevice

\* What a server step on the connection c adds to the history.
Recorded(c) ==
    /\ gaveUp' = (gaveUp \/ (c = conn /\ Server!EcdhThrows(c)))
    /\ overtaken' = IF c = conn THEN overtaken /\ ~ Server!HandleEcdh(c) ELSE TRUE

\* The same for a handler: its SESSION_ACTIVE may be about a session that has
\* been replaced while it waited.
RecordedResume(h) ==
    /\ UNCHANGED gaveUp
    /\ overtaken' = (overtaken \/ h.sock # conn \/ (h.at = "markOnline" /\ h.sid # sessions[Self].sid))

ServerOnMessage == \E c \in Connections : Server!OnMessage(c) /\ Recorded(c)
ServerResumes == \E h \in suspended : Server!ResumeHandler(h) /\ RecordedResume(h)
ServerCloses == \E c \in Connections : Server!HandleClose(c) /\ Recorded(c)
ApiCommand ==
    /\ \E k \in CommandKinds : Server!SendCommand(Self, k[1], k[2])
    /\ UNCHANGED historyVars

ServerStep ==
    /\ ServerOnMessage \/ ServerResumes \/ ServerCloses \/ ApiCommand
    /\ UNCHANGED deviceVars

Next == Connect \/ DeviceStep \/ ServerStep

Spec == Init /\ [][Next]_vars

\* FreeRTOS keeps running its tasks and Node its event loop, the database
\* answers, a closing socket is closed (the ws library's close timeout), and a
\* device notices that the other end is gone, by the close frame or by a ping
\* without answer.  Button presses, commands, and the loss of a connection are
\* not promised, and neither is that any call succeeds.
Fairness ==
    /\ WF_vars(WsTask /\ OnDevice)
    /\ WF_vars(MainTask /\ OnDevice)
    /\ WF_vars(TimerTask /\ OnDevice)
    /\ WF_vars(ServerOnMessage /\ UNCHANGED deviceVars)
    /\ WF_vars(ServerResumes /\ UNCHANGED deviceVars)
    /\ WF_vars(\E c \in Connections : /\ sock[c] = "closing"
                                     /\ Server!HandleClose(c) /\ Recorded(c)
                                     /\ UNCHANGED deviceVars)
    /\ WF_vars(connected /\ sock[conn] \in {"closing", "closed"} /\ ConnectionEnds /\ OnDevice)

FairSpec == Spec /\ Fairness

-----------------------------------------------------------------------------
(* Properties.                                                             *)

Session == sessions[Self]

\* The link is at rest: the current connection is up at both ends, nothing is in
\* flight on it, and no task or handler is half way through.
AtRest ==
    /\ connected
    /\ sock[conn] = "open"
    /\ up[conn] = <<>> /\ down[conn] = <<>>
    /\ \A t \in Tasks : pc[t] = "idle"
    /\ suspended = {}

\* At rest an active device and the server name the same live session, across
\* reconnections, key rotations, restarts, sockets that overlap and handshakes
\* that meet.  Two things end the agreement, and each ends it for the current
\* connection only.  A call that failed in one of its handshakes: after a close
\* frame the firmware keeps the old session ACTIVE, and a send_hello that fails
\* on the new connection leaves it so.  And an event of an older connection, or
\* the delayed SESSION_ACTIVE of a session already replaced, that the server has
\* handled after it last activated one here: both of its maps are keyed by the
\* device alone.
SessionAgreed ==
    AtRest /\ state = "ACTIVE" /\ ~ overtaken /\ ~ gaveUp => Session.active /\ Session.sid = session_id

\* A handshake that on_ws_connected or a KEY_ROTATE packet starts comes to an
\* active session, unless the connection ends or a call of it fails.  A call that
\* fails on either side is not repeated and nothing times out: the throw of
\* computeSecret at this commit, on every SEC_ECDH_RESP, leaves the device in
\* ECDH_SENT on an open socket, which is why the property has to name it.
HandshakeCompletes == pc["ws"] = "gen" ~> state = "ACTIVE" \/ ~ connected \/ gaveUp
=============================================================================
