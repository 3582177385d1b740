----------------------------- MODULE QosEngine -----------------------------
(***************************************************************************)
(* Retransmission: esp32-firmware ykp_core/ykp_qos.c.  Nothing locks the   *)
(* slots.  ykp_qos_tick runs in the FreeRTOS timer task, the three         *)
(* acknowledgements in the WebSocket task and ykp_qos_enqueue in an        *)
(* application task; a step here is what one task does between two points  *)
(* where another can interfere.                                            *)
(*                                                                         *)
(* Time is left out: an active slot may be due at a tick or not.  A packet *)
(* id is used once.  The timer commands are posted to the timer task's     *)
(* queue and take effect in the order they are posted.                     *)
(***************************************************************************)
EXTENDS Integers

CONSTANTS QOS_MAX_PENDING, QOS_MAX_RETRIES,
          MaxPackets    \* bound: packets enqueued

ASSUME QosAssumption ==
    /\ QOS_MAX_PENDING \in Nat \ {0}
    /\ QOS_MAX_RETRIES \in Nat
    /\ MaxPackets \in Nat

Slots == 1 .. QOS_MAX_PENDING
Packets == 1 .. MaxPackets

VARIABLES
    slots,     \* engine->slots
    timer,     \* will the timer expire again?
    app,       \* the task that enqueues: where it is and in which slot
    ws,        \* the WebSocket task, in check_and_stop_timer or not
    tick,      \* the timer task: where it is in ykp_qos_tick and at which slot
    issued,    \* packets given to ykp_qos_enqueue so far
    sent,      \* transmissions of each packet
    acked,     \* packets that were acknowledged
    late       \* transmissions of each packet after that

qosVars == <<slots, timer, app, ws, tick, issued, sent, acked, late>>

Free == [packet_id |-> 0, qos |-> 0, retries |-> 0,
         waiting_pubcomp |-> FALSE, active |-> FALSE]
Rest == [at |-> "idle", slot |-> 1]

SlotStates == [packet_id : 0 .. MaxPackets, qos : 0 .. 2, retries : 0 .. QOS_MAX_RETRIES,
               waiting_pubcomp : BOOLEAN, active : BOOLEAN]
AppStates  == [at : {"idle", "fill", "send"}, slot : Slots]
TickStates == [at : {"idle", "check", "send", "count", "drop", "scan", "stop"}, slot : Slots]

QosTypeOK ==
    /\ slots \in [Slots -> SlotStates]
    /\ timer \in BOOLEAN
    /\ app \in AppStates
    /\ ws \in {"idle", "scan", "stop"}
    /\ tick \in TickStates
    /\ issued \in 0 .. MaxPackets
    /\ sent \in [Packets -> Nat]
    /\ acked \subseteq Packets
    /\ late \in [Packets -> Nat]

QosInit ==
    /\ slots = [i \in Slots |-> Free]
    /\ timer = FALSE
    /\ app = Rest
    /\ ws = "idle"
    /\ tick = Rest
    /\ issued = 0
    /\ sent = [p \in Packets |-> 0]
    /\ acked = {}
    /\ late = [p \in Packets |-> 0]

\* send_fn, given the data of packet p.
Transmit(p) ==
    /\ sent' = [sent EXCEPT ![p] = @ + 1]
    /\ late' = IF p \in acked THEN [late EXCEPT ![p] = @ + 1] ELSE late

AllInactive == \A i \in Slots : ~ slots[i].active

-----------------------------------------------------------------------------
(* ykp_qos_enqueue.                                                        *)

\* QoS 0: sent once and forgotten.
EnqueueQos0 ==
    /\ app.at = "idle" /\ issued < MaxPackets
    /\ issued' = issued + 1
    /\ sent' = [sent EXCEPT ![issued + 1] = @ + 1]
    /\ UNCHANGED <<slots, timer, app, ws, tick, acked, late>>

\* The first inactive slot is given the packet.
EnqueueClaim(i) ==
    /\ app.at = "idle" /\ issued < MaxPackets
    /\ ~ slots[i].active
    /\ \A j \in 1 .. i - 1 : slots[j].active
    /\ issued' = issued + 1
    /\ slots' = [slots EXCEPT ![i].packet_id = issued + 1]
    /\ app' = [at |-> "fill", slot |-> i]
    /\ UNCHANGED <<timer, ws, tick, sent, acked, late>>

EnqueueFull ==
    /\ app.at = "idle" /\ issued < MaxPackets
    /\ \A i \in Slots : slots[i].active
    /\ issued' = issued + 1
    /\ UNCHANGED <<slots, timer, app, ws, tick, sent, acked, late>>

EnqueueFill(qos) ==
    /\ app.at = "fill"
    /\ slots' = [slots EXCEPT ![app.slot] =
                   [@ EXCEPT !.qos = qos, !.retries = 0,
                             !.waiting_pubcomp = FALSE, !.active = TRUE]]
    /\ app' = [app EXCEPT !.at = "send"]
    /\ UNCHANGED <<timer, ws, tick, issued, sent, acked, late>>

\* The first transmission of the caller's own buffer, then xTimerStart.  The slot
\* is active already: a tick may have sent the packet, and its acknowledgement
\* may have come.
EnqueueSend ==
    /\ app.at = "send"
    /\ Transmit(issued)
    /\ timer' = TRUE
    /\ app' = Rest
    /\ UNCHANGED <<slots, ws, tick, issued, acked>>

-----------------------------------------------------------------------------
(* The acknowledgements.                                                   *)

ykp_qos_ack(i) ==
    /\ ws = "idle"
    /\ slots[i].active /\ slots[i].qos = 1
    /\ slots' = [slots EXCEPT ![i].active = FALSE]
    /\ ws' = "scan"
    /\ acked' = acked \union {slots[i].packet_id}
    /\ UNCHANGED <<timer, app, tick, issued, sent, late>>

ykp_qos_pubrec(i) ==
    /\ ws = "idle"
    /\ slots[i].active /\ slots[i].qos = 2
    /\ slots' = [slots EXCEPT ![i].waiting_pubcomp = TRUE]
    /\ UNCHANGED <<timer, app, ws, tick, issued, sent, acked, late>>

ykp_qos_pubcomp(i) ==
    /\ ws = "idle"
    /\ slots[i].active /\ slots[i].qos = 2 /\ slots[i].waiting_pubcomp
    /\ slots' = [slots EXCEPT ![i].active = FALSE]
    /\ ws' = "scan"
    /\ acked' = acked \union {slots[i].packet_id}
    /\ UNCHANGED <<timer, app, tick, issued, sent, late>>

\* check_and_stop_timer: the scan, and xTimerStop some time after it.
AckScan ==
    /\ ws = "scan"
    /\ ws' = IF AllInactive THEN "stop" ELSE "idle"
    /\ UNCHANGED <<slots, timer, app, tick, issued, sent, acked, late>>

AckStop ==
    /\ ws = "stop"
    /\ ws' = "idle"
    /\ timer' = FALSE
    /\ UNCHANGED <<slots, app, tick, issued, sent, acked, late>>

-----------------------------------------------------------------------------
(* ykp_qos_tick.                                                           *)

NextSlot == IF tick.slot = QOS_MAX_PENDING THEN Rest
            ELSE [at |-> "check", slot |-> tick.slot + 1]
GoTo(label) == [tick EXCEPT !.at = label]

TickStart ==
    /\ tick.at = "idle" /\ timer
    /\ tick' = GoTo("check")
    /\ UNCHANGED <<slots, timer, app, ws, issued, sent, acked, late>>

\* The slot is inactive or not due.
TickSkip ==
    /\ tick.at = "check"
    /\ tick' = NextSlot
    /\ UNCHANGED <<slots, timer, app, ws, issued, sent, acked, late>>

\* Fault: one retry too many (> for >=).
TickDueOffByOne ==
    /\ tick.at = "check"
    /\ slots[tick.slot].active
    /\ tick' = GoTo(IF slots[tick.slot].retries > QOS_MAX_RETRIES THEN "drop" ELSE "send")
    /\ UNCHANGED <<slots, timer, app, ws, issued, sent, acked, late>>

\* Fault: an inactive slot is not skipped.
TickDueInactive ==
    /\ tick.at = "check"
    /\ slots[tick.slot].packet_id # 0
    /\ tick' = GoTo(IF slots[tick.slot].retries >= QOS_MAX_RETRIES THEN "drop" ELSE "send")
    /\ UNCHANGED <<slots, timer, app, ws, issued, sent, acked, late>>

TickDue ==
    /\ tick.at = "check"
    /\ slots[tick.slot].active
    /\ tick' = GoTo(IF slots[tick.slot].retries >= QOS_MAX_RETRIES THEN "drop" ELSE "send")
    /\ UNCHANGED <<slots, timer, app, ws, issued, sent, acked, late>>

\* The slot may have been freed, or given another packet, since TickDue.
TickSend ==
    /\ tick.at = "send"
    /\ Transmit(slots[tick.slot].packet_id)
    /\ tick' = GoTo("count")
    /\ UNCHANGED <<slots, timer, app, ws, issued, acked>>

TickCount ==
    /\ tick.at = "count"
    /\ slots' = [slots EXCEPT ![tick.slot].retries = @ + 1]
    /\ tick' = NextSlot
    /\ UNCHANGED <<timer, app, ws, issued, sent, acked, late>>

TickDrop ==
    /\ tick.at = "drop"
    /\ slots' = [slots EXCEPT ![tick.slot].active = FALSE]
    /\ tick' = GoTo("scan")
    /\ UNCHANGED <<timer, app, ws, issued, sent, acked, late>>

TickScan ==
    /\ tick.at = "scan"
    /\ tick' = IF AllInactive THEN GoTo("stop") ELSE NextSlot
    /\ UNCHANGED <<slots, timer, app, ws, issued, sent, acked, late>>

TickStop ==
    /\ tick.at = "stop"
    /\ timer' = FALSE
    /\ tick' = NextSlot
    /\ UNCHANGED <<slots, app, ws, issued, sent, acked, late>>

QosNext ==
    \/ EnqueueQos0 \/ EnqueueFull \/ EnqueueSend
    \/ \E qos \in 1 .. 2 : EnqueueFill(qos)
    \/ \E i \in Slots : EnqueueClaim(i) \/ ykp_qos_ack(i) \/ ykp_qos_pubrec(i) \/ ykp_qos_pubcomp(i)
    \/ AckScan \/ AckStop
    \/ TickStart \/ TickSkip \/ TickDue \/ TickSend \/ TickCount
    \/ TickDrop \/ TickScan \/ TickStop

QosSpec == QosInit /\ [][QosNext]_qosVars

-----------------------------------------------------------------------------
(* Properties.                                                             *)

\* A packet is transmitted once by ykp_qos_enqueue and then retried a bounded
\* number of times, although the retry count lives in a slot that is freed and
\* reused under the timer task's hands.  The bound is one above
\* 1 + QOS_MAX_RETRIES: a tick that had found the slot due for its last packet
\* may transmit the next one before enqueue resets the count.
TransmissionsBounded == \A p \in Packets : sent[p] <= QOS_MAX_RETRIES + 2

\* An acknowledged packet is transmitted at most twice more: by the tick that had
\* found it due when the acknowledgement came, and by enqueue itself, which makes
\* the slot active before it sends (ykp_qos.c:56-57).
QuietAfterAck == \A p \in Packets : late[p] <= 2
=============================================================================
