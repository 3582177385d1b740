---------------------------- MODULE ReplaySpec ----------------------------
(***************************************************************************)
(* What replay protection promises, independently of how a window is kept: *)
(* between two resets every packet id is accepted at most once, id 0 is    *)
(* never accepted, and an id is refused as "too old" only when some        *)
(* accepted id is WindowSize or more above it.  Nothing else is refused.   *)
(*                                                                         *)
(* Both implementations in the repository -- esp32-firmware ykp_replay.c   *)
(* (module ReplayWindow) and render-backend replay-guard.ts (module        *)
(* ReplayGuard) -- are shown to implement this specification, so on the    *)
(* same stream of ids both ends of the link return the same verdicts.      *)
(***************************************************************************)
EXTENDS ReplayIds

VARIABLES accepted,  \* ids accepted since the last reset
          verdict    \* answer of the last check

vars == <<accepted, verdict>>

Verdicts == {"none", "accept", "reject"}

TypeOK ==
    /\ accepted \subseteq Ids
    /\ verdict \in Verdicts

Init ==
    /\ accepted = {}
    /\ verdict = "none"

Accept(id) ==
    /\ Fresh(accepted, id)
    /\ accepted' = accepted \union {id}
    /\ verdict' = "accept"

Reject(id) ==
    /\ ~ Fresh(accepted, id)
    /\ verdict' = "reject"
    /\ UNCHANGED accepted

Reset ==
    /\ accepted' = {}
    /\ verdict' = "none"

Next ==
    \/ \E id \in Ids : Accept(id) \/ Reject(id)
    \/ Reset

Spec == Init /\ [][Next]_vars
=============================================================================
