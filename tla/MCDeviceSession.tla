-------------------------- MODULE MCDeviceSession --------------------------
(***************************************************************************)
(* DeviceSession with an environment in the server's place that sends any  *)
(* packet the firmware understands, in any order: KEY_ROTATE, which this   *)
(* server never sends, CHALLENGE and SESSION_ACTIVE nobody asked for, and  *)
(* commands with and without encryption.                                   *)
(***************************************************************************)
EXTENDS DeviceSession

CONSTANT MaxInjected  \* bound: packets the environment sends

VARIABLES injected,
          withdrawn   \* history: a reset or an activation has stored its flag over the
                      \* request of a packet numbered after it stored its counter

anyVars == <<netVars, deviceVars, injected, withdrawn>>

ServerPackets ==
    {Challenge(1, 1), SessionActive(2, 1), KeyRotate, Ack(1)}
      \union {Command(1, action, encrypted) :
                action \in {"TOGGLE", "REPORT_REQUEST", "OTHER"}, encrypted \in BOOLEAN}

AnyInit ==
    /\ up = [c \in Connections |-> <<>>]
    /\ down = [c \in Connections |-> <<>>]
    /\ DeviceInit
    /\ injected = 0
    /\ withdrawn = FALSE

Unread == \E c \in Connections : up[c] # <<>>

ServerSends ==
    /\ connected
    /\ down[conn] = <<>>
    /\ ~ Unread
    /\ injected < MaxInjected
    /\ injected' = injected + 1
    /\ \E p \in ServerPackets : down' = [down EXCEPT ![conn] = <<p>>]
    /\ UNCHANGED <<up, deviceVars, withdrawn>>

\* What the device sends is taken from the socket at once; nobody looks at it.
ServerReads ==
    /\ Unread
    /\ up' = [c \in Connections |-> <<>>]
    /\ UNCHANGED <<down, deviceVars, injected, withdrawn>>

Withdrawn ==
    withdrawn' =
        IF packet_counter' # packet_counter THEN FALSE
        ELSE withdrawn \/ (needs_key_rotate /\ ~ needs_key_rotate' /\ packet_counter >= RotateAt)

AnyDeviceStep == ~ Unread /\ DeviceNext /\ Withdrawn /\ UNCHANGED injected

AnyNext == AnyDeviceStep \/ ServerSends \/ ServerReads

\* The three tasks keep running; packets, presses and connections are not promised.
AnySpec ==
    /\ AnyInit /\ [][AnyNext]_anyVars
    /\ WF_anyVars(ServerReads)
    /\ WF_anyVars(~ Unread /\ WsTask /\ Withdrawn /\ UNCHANGED injected)
    /\ WF_anyVars(~ Unread /\ MainTask /\ Withdrawn /\ UNCHANGED injected)
    /\ WF_anyVars(~ Unread /\ TimerTask /\ Withdrawn /\ UNCHANGED injected)

-----------------------------------------------------------------------------

\* A counter that has reached YKP_KEY_ROTATE_PACKET_COUNT is not without the
\* request to rotate, except while the packet that took it there is still being
\* numbered, and in one case of ykp_session.c:66-67 and 43-44: the counter was
\* stored between the two stores of a reset or an activation, whose second store
\* then took the request back.  Any further packet raises it again.
RotationRemembered ==
    packet_counter >= RotateAt =>
        needs_key_rotate \/ withdrawn \/ \E t \in Tasks : pc[t] \in Checking

\* A request to rotate on a connected device is honoured by the main loop, unless
\* the session is reset or replaced, or the connection lost, before it looks.
RotationStarts == needs_key_rotate /\ connected ~> ~ needs_key_rotate \/ ~ connected
=============================================================================
