---------------------------- MODULE YkpMessages ----------------------------
(***************************************************************************)
(* The YKP packets the device and the server exchange over a WebSocket,    *)
(* reduced to the header and payload fields the protocol decides on.  Text,*)
(* routing fields and the TLV encoding are abstracted (the encoding has a  *)
(* module of its own, TlvCodec).                                           *)
(*                                                                         *)
(* An ephemeral key pair is the number of its generation.  What a session  *)
(* key is derived from is not kept: whether a derivation succeeds is left  *)
(* open by the modules that use it.                                        *)
(***************************************************************************)
EXTENDS Integers, Sequences

NoKey == 0

\* Device to server.
Hello(dev, id, pub) == [kind |-> "HELLO", dev |-> dev, id |-> id, pub |-> pub]
EcdhResponse(dev, id) == [kind |-> "ECDH_RESPONSE", dev |-> dev, id |-> id]
\* A QoS-1 application packet: "button" and "echo" are RELAY_ACK packets sent
\* on a button press and in answer to a command, "report" a health or sensor
\* report.
Data(dev, id, origin) == [kind |-> "DATA", dev |-> dev, id |-> id, origin |-> origin]

\* Server to device.
Challenge(id, pub) == [kind |-> "CHALLENGE", id |-> id, pub |-> pub]
SessionActive(id, sid) == [kind |-> "SESSION_ACTIVE", id |-> id, sid |-> sid]
KeyRotate == [kind |-> "KEY_ROTATE"]
Ack(id) == [kind |-> "ACK", id |-> id]
Command(id, action, encrypted) ==
    [kind |-> "COMMAND", id |-> id, action |-> action, encrypted |-> encrypted]

RelayActions == {"ON", "OFF", "TOGGLE", "STATUS"}
Actions == RelayActions \union {"REPORT_REQUEST", "OTHER"}
=============================================================================
