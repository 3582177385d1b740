--------------------------- MODULE RouterDevices ---------------------------
(***************************************************************************)
(* ServerRouter with the devices as its environment: each socket belongs   *)
(* to one device, which may send any packet of the protocol at any time,   *)
(* in particular a second HELLO on the same socket (key rotation), an      *)
(* ECDH_RESPONSE without a HELLO, and packets with any id.                 *)
(***************************************************************************)
EXTENDS ServerRouter

CONSTANTS Owner,      \* the device behind each socket
          PacketIds,  \* ids a device gives its packets
          MaxPackets  \* bound: packets sent on one socket

ASSUME RouterDevicesAssumption ==
    /\ Owner \in [Sockets -> Devices]
    /\ PacketIds \subseteq Nat
    /\ MaxPackets \in Nat

VARIABLE sent  \* packets sent on each socket so far

vars == <<up, down, routerVars, sent>>

DevicePackets(d) ==
    {Hello(d, id, pub) : id \in PacketIds, pub \in {NoKey, 1}}
      \union {EcdhResponse(d, id) : id \in PacketIds}
      \union {Data(d, id, "button") : id \in PacketIds}

Init ==
    /\ RouterInit
    /\ up = [s \in Sockets |-> <<>>]
    /\ down = [s \in Sockets |-> <<>>]
    /\ sent = [s \in Sockets |-> 0]

DeviceSends(s) ==
    /\ sock[s] = "open"
    /\ sent[s] < MaxPackets
    /\ sent' = [sent EXCEPT ![s] = @ + 1]
    /\ \E p \in DevicePackets(Owner[s]) : up' = [up EXCEPT ![s] = Append(@, p)]
    /\ UNCHANGED <<down, routerVars>>

DeviceReads(s) ==
    /\ down[s] # <<>>
    /\ down' = [down EXCEPT ![s] = Tail(@)]
    /\ UNCHANGED <<up, routerVars, sent>>

ServerStep ==
    \/ \E s \in Sockets : Accept(s) \/ OnMessage(s) \/ HandleClose(s)
    \/ Resume
    \/ \E d \in Devices : SendCommand(d, "ON", FALSE)

Next ==
    \/ ServerStep /\ UNCHANGED sent
    \/ \E s \in Sockets : DeviceSends(s) \/ DeviceReads(s)

Spec == Init /\ [][Next]_vars
=============================================================================
