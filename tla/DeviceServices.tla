--------------------------- MODULE DeviceServices ---------------------------
(***************************************************************************)
(* Four parts of the device that share no state: firmware update,          *)
(* retransmission, the UDP server of the earlier app and the framing of    *)
(* BLE commands.  Interleaving them adds nothing, so a behaviour follows   *)
(* one of them.                                                            *)
(***************************************************************************)
EXTENDS OtaUpdate, QosEngine, LegacyUdp, BleLines

\* The images of the instance differ in their last chunk only, so a partition
\* may hold one of them although the other was being written.
MCImages == {<<"b1", "b2">>, <<"b1", "c2">>}
MCAnnounced == {<<"b1", "b2">>}
MCFlash == [p \in Parts |-> <<"b1", "b2", "b2">>]

VARIABLE service    \* the one that runs

Init ==
    /\ OtaInit /\ QosInit /\ UdpInit /\ BleInit
    /\ service \in {"ota", "qos", "udp", "ble"}
    /\ service # "ota" => flash = MCFlash

Next ==
    /\ UNCHANGED service
    /\ \/ service = "ota" /\ OtaNext /\ UNCHANGED <<qosVars, udpVars, bleVars>>
       \/ service = "qos" /\ QosNext /\ UNCHANGED <<otaVars, udpVars, bleVars>>
       \/ service = "udp" /\ UdpNext /\ UNCHANGED <<otaVars, qosVars, bleVars>>
       \/ service = "ble" /\ BleNext /\ UNCHANGED <<otaVars, qosVars, udpVars>>

Spec == Init /\ [][Next]_<<service, otaVars, qosVars, udpVars, bleVars>>

\* Each service's state has its type.
TypeOK == OtaTypeOK /\ QosTypeOK /\ UdpTypeOK /\ BleTypeOK
=============================================================================
