-------------------------- MODULE MCServerRouter --------------------------
(***************************************************************************)
(* RouterDevices for TLC: two sockets of one device.  To keep the state    *)
(* space small a device reads what it is sent before anything else happens *)
(* (no action of the server looks at what it has already sent) and has one *)
(* packet per socket in flight (handlers suspend in any number anyway).    *)
(***************************************************************************)
EXTENDS RouterDevices

CONSTANTS d1, s1, s2  \* model values

MCOwner == [s \in {s1, s2} |-> d1]

AllRead == \A s \in Sockets : down[s] = <<>>

MCNext ==
    \/ AllRead /\ ServerStep /\ UNCHANGED sent
    \/ AllRead /\ \E s \in Sockets : up[s] = <<>> /\ DeviceSends(s)
    \/ \E s \in Sockets : DeviceReads(s)

MCSpec == Init /\ [][MCNext]_vars
=============================================================================
