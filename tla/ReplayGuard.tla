---------------------------- MODULE ReplayGuard ----------------------------
(***************************************************************************)
(* The server's replay protection: render-backend security/replay-guard.ts.*)
(*                                                                         *)
(* It differs from the firmware's in two ways that the model keeps: the    *)
(* first packet is recognised by an explicit `initialised` flag, and       *)
(* windowBits is a BigInt, so a shift never drops a bit -- positions of    *)
(* WindowSize and more stay in the number and must never be consulted.     *)
(***************************************************************************)
EXTENDS ReplayIds

VARIABLES highestId, windowBits, initialised,  \* the private fields
          accepted,     \* history: ids accepted since the last reset
          verdict       \* result of the last check

vars == <<highestId, windowBits, initialised, accepted, verdict>>

TypeOK ==
    /\ highestId \in Ids
    /\ windowBits \subseteq Ids
    /\ initialised \in BOOLEAN
    /\ accepted \subseteq Ids
    /\ verdict \in {"none", "accept", "reject"}

-----------------------------------------------------------------------------

Init ==
    /\ highestId = 0
    /\ windowBits = {}
    /\ initialised = FALSE
    /\ accepted = {}
    /\ verdict = "none"

Accepts(id) ==
    /\ accepted' = accepted \union {id}
    /\ verdict' = "accept"

\* The first packet of a session.
CheckFirst(id) ==
    /\ id # 0
    /\ ~ initialised
    /\ highestId' = id
    /\ windowBits' = {0}
    /\ initialised' = TRUE
    /\ Accepts(id)

\* windowBits shifted left by n, with the new id at bit 0.
ShiftIn(bits, n) ==
    IF n >= WindowSize
      THEN {0}
      ELSE {b \in Ids : b = 0 \/ b - n \in bits}

\* A packet above the highest id seen moves the window.
CheckAdvance(id) ==
    /\ id # 0
    /\ initialised
    /\ id > highestId
    /\ windowBits' = ShiftIn(windowBits, id - highestId)
    /\ highestId' = id
    /\ UNCHANGED initialised
    /\ Accepts(id)

\* Fault: the window is one position too wide.
CheckLateWide(id) ==
    /\ id # 0
    /\ initialised
    /\ id <= highestId
    /\ highestId - id <= WindowSize
    /\ highestId - id \notin windowBits
    /\ windowBits' = windowBits \union {highestId - id}
    /\ UNCHANGED <<highestId, initialised>>
    /\ Accepts(id)

\* A late packet whose bit is still clear.
CheckLate(id) ==
    /\ id # 0
    /\ initialised
    /\ id <= highestId
    /\ highestId - id < WindowSize
    /\ highestId - id \notin windowBits
    /\ windowBits' = windowBits \union {highestId - id}
    /\ UNCHANGED <<highestId, initialised>>
    /\ Accepts(id)

\* Id 0, a packet below the window, or a duplicate.
CheckReject(id) ==
    /\ \/ id = 0
       \/ /\ initialised
          /\ id <= highestId
          /\ \/ highestId - id >= WindowSize
             \/ highestId - id \in windowBits
    /\ verdict' = "reject"
    /\ UNCHANGED <<highestId, windowBits, initialised, accepted>>

check(id) ==
    CheckFirst(id) \/ CheckAdvance(id) \/ CheckLate(id) \/ CheckReject(id)

\* Called by SessionManager.activateSession.
reset ==
    /\ highestId' = 0
    /\ windowBits' = {}
    /\ initialised' = FALSE
    /\ accepted' = {}
    /\ verdict' = "none"

Next ==
    \/ \E id \in Ids : check(id)
    \/ reset

Spec == Init /\ [][Next]_vars

-----------------------------------------------------------------------------
(* Properties.                                                             *)

\* Inside the window a bit is set if and only if its id was accepted; the bits
\* the BigInt keeps beyond the window never name an id that was not accepted;
\* the flag and the highest id agree with what was accepted.
GuardExact ==
    /\ \A d \in Ids : d < WindowSize => (d \in windowBits <=> highestId - d \in accepted)
    /\ \A d \in windowBits : highestId - d \in accepted
    /\ \A a \in accepted : 0 < a /\ a <= highestId
    /\ initialised <=> accepted # {}
    /\ initialised => highestId \in accepted

\* The server's guard accepts exactly the ids the abstract replay protection
\* accepts, as the device's window does: the two ends agree on every stream.
Abstract == INSTANCE ReplaySpec
ImplementsReplaySpec == Abstract!Spec
=============================================================================
