--------------------------- MODULE ReplayWindow ---------------------------
(***************************************************************************)
(* The device's replay protection: esp32-firmware ykp_core/ykp_replay.c.   *)
(*                                                                         *)
(* window_bits is the 64-bit mask as the set of the positions of its set   *)
(* bits: bit d stands for packet id highest_id - d.  A left shift of the   *)
(* uint64_t drops the positions that leave the word.  The lazily tested    *)
(* `initialised` flag of the C struct is always true after app_main and is *)
(* left out; "first packet" is recognised, as in the code, by an all-zero  *)
(* context.                                                                *)
(***************************************************************************)
EXTENDS ReplayIds

VARIABLES highest_id,   \* ykp_replay_ctx_t.highest_id
          window_bits,  \* ykp_replay_ctx_t.window_bits
          accepted,     \* history: ids accepted since the last reset
          verdict       \* result of the last ykp_replay_check

vars == <<highest_id, window_bits, accepted, verdict>>

Bits == 0 .. WindowSize - 1

TypeOK ==
    /\ highest_id \in Ids
    /\ window_bits \subseteq Bits
    /\ accepted \subseteq Ids
    /\ verdict \in {"none", "accept", "reject"}

-----------------------------------------------------------------------------
(* ykp_replay_check, as a test and an update of a context.                 *)

\* The context of a window in which nothing has been received yet.
FirstPacket(highest, bits) == highest = 0 /\ bits = {}

\* Fault: the duplicate test is forgotten.
AdmitsDuplicates(highest, bits, id) ==
    /\ id # 0
    /\ \/ FirstPacket(highest, bits)
       \/ id > highest
       \/ highest - id < WindowSize

\* The packet would be accepted: neither id 0, nor too old, nor a duplicate.
Admits(highest, bits, id) ==
    /\ id # 0
    /\ \/ FirstPacket(highest, bits)
       \/ id > highest
       \/ /\ highest - id < WindowSize
          /\ highest - id \notin bits

\* Fault: the window moves by one position whatever the distance.
AdvanceByOne(bits, n) ==
    IF n >= WindowSize THEN {0} ELSE {b \in Bits : b = 0 \/ b - 1 \in bits}

\* window_bits after moving the window up by n positions, the new id at bit 0.
AdvanceBy(bits, n) ==
    IF n >= WindowSize
      THEN {0}
      ELSE {b \in Bits : b = 0 \/ b - n \in bits}

\* window_bits after registering an admitted id.
Register(highest, bits, id) ==
    IF FirstPacket(highest, bits) THEN {0}
    ELSE IF id > highest THEN AdvanceBy(bits, id - highest)
    ELSE bits \union {highest - id}

\* highest_id after registering an admitted id.
Raise(highest, id) == IF id > highest THEN id ELSE highest

-----------------------------------------------------------------------------

Init ==
    /\ highest_id = 0
    /\ window_bits = {}
    /\ accepted = {}
    /\ verdict = "none"

CheckAccept(id) ==
    /\ Admits(highest_id, window_bits, id)
    /\ window_bits' = Register(highest_id, window_bits, id)
    /\ highest_id' = Raise(highest_id, id)
    /\ accepted' = accepted \union {id}
    /\ verdict' = "accept"

CheckReject(id) ==
    /\ ~ Admits(highest_id, window_bits, id)
    /\ verdict' = "reject"
    /\ UNCHANGED <<highest_id, window_bits, accepted>>

ykp_replay_check(id) == CheckAccept(id) \/ CheckReject(id)

\* Called when SEC_SESSION_ACTIVE arrives (main.c).
ykp_replay_reset ==
    /\ highest_id' = 0
    /\ window_bits' = {}
    /\ accepted' = {}
    /\ verdict' = "none"

Next ==
    \/ \E id \in Ids : ykp_replay_check(id)
    \/ ykp_replay_reset

Spec == Init /\ [][Next]_vars

-----------------------------------------------------------------------------
(* Properties.                                                             *)

\* The mask is an exact record of what was accepted: bit d is set if and only
\* if highest_id - d was accepted in this session, highest_id is the largest
\* accepted id, and the context looks empty only when nothing was accepted
\* (ykp_replay_check recognises the first packet by an all-zero context).
WindowExact ==
    /\ \A d \in Bits : d \in window_bits <=> highest_id - d \in accepted
    /\ \A a \in accepted : 0 < a /\ a <= highest_id
    /\ accepted = {} <=> highest_id = 0
    /\ highest_id # 0 => highest_id \in accepted

\* The device's window accepts exactly the ids the abstract replay protection
\* accepts: every id at most once per session, none refused without cause.
Abstract == INSTANCE ReplaySpec
ImplementsReplaySpec == Abstract!Spec
=============================================================================
