----------------------------- MODULE LegacyUdp -----------------------------
(***************************************************************************)
(* The encrypted UDP server of the earlier app: esp32-firmware             *)
(* transport/legacy_udp.c, udp_server_task, with the relay it drives       *)
(* (relay_service_handle).  Datagrams may be lost, repeated, delayed and   *)
(* reordered without bound: whatever was ever sent may arrive now, also    *)
(* after a restart, which keeps the key (NVS) and nothing else: the device *)
(* is in session 0 again, with counter 0.                                  *)
(*                                                                         *)
(* Time is counted in units in which the 1 s rate window and the 300 s     *)
(* session life keep their order; it stays below the 2^32 ms at which the  *)
(* tick count wraps, and a restart does not set it back: the code reads    *)
(* only differences.  A session id from esp_random is a new one.           *)
(***************************************************************************)
EXTENDS Integers

CONSTANTS RateWindow, RateLimit,  \* 1000 ms, 20
          SessionLife,            \* 300000 ms
          MaxTime, MaxCounter     \* bounds: the clock, counters the app uses

ASSUME LegacyAssumption ==
    {RateWindow, RateLimit, SessionLife, MaxTime, MaxCounter} \subseteq Nat

Opcodes == {"CMD_ON", "CMD_OFF", "CMD_STATE", "other"}
Sessions == 0 .. MaxTime
Counters == 0 .. MaxCounter

VARIABLES
    now,                   \* the tick count
    packet_count, last_rate_check, last_activity,
    current_session_id, last_app_rx_counter, esp32_tx_counter,
    relay,                 \* s_state of relay_service.c
    drawn,                 \* history: the newest session id from esp_random
    executed,              \* history: how often each (session, counter) was executed
    over,                  \* history: the sessions that have ended
    stale                  \* history: was a datagram of such a session executed?

udpVars == <<now, packet_count, last_rate_check, last_activity, current_session_id,
             last_app_rx_counter, esp32_tx_counter, relay, drawn, executed, over, stale>>
udpHistory == <<drawn, executed, over, stale>>

UdpTypeOK ==
    /\ now \in 0 .. MaxTime
    /\ packet_count \in 0 .. RateLimit + 1
    /\ last_rate_check \in 0 .. now
    /\ last_activity \in 0 .. now
    /\ current_session_id \in Sessions
    /\ last_app_rx_counter \in Counters
    /\ esp32_tx_counter \in Nat
    /\ relay \in BOOLEAN
    /\ drawn \in Sessions
    /\ over \subseteq Sessions
    /\ executed \in [Sessions -> [Counters -> Nat]]
    /\ stale \in BOOLEAN

UdpInit ==
    /\ now = 0 /\ packet_count = 0 /\ last_rate_check = 0 /\ last_activity = 0
    /\ current_session_id = 0 /\ last_app_rx_counter = 0 /\ esp32_tx_counter = 1
    /\ relay = FALSE
    /\ drawn = 0 /\ over = {}
    /\ executed = [s \in Sessions |-> [c \in Counters |-> 0]]
    /\ stale = FALSE

-----------------------------------------------------------------------------

Tick ==
    /\ now < MaxTime
    /\ now' = now + 1
    /\ UNCHANGED <<packet_count, last_rate_check, last_activity, current_session_id,
                   last_app_rx_counter, esp32_tx_counter, relay, udpHistory>>

\* A restart: the variables have their initial values, the two clocks read now.
\* Every session ends, and session 0 begins anew.
UdpRestart ==
    /\ packet_count' = 0 /\ last_rate_check' = now /\ last_activity' = now
    /\ current_session_id' = 0 /\ last_app_rx_counter' = 0 /\ esp32_tx_counter' = 1
    /\ relay' = FALSE
    /\ over' = (over \union {current_session_id}) \ {0}
    /\ executed' = [executed EXCEPT ![0] = [c \in Counters |-> 0]]
    /\ UNCHANGED <<now, drawn, stale>>

NewWindow == now - last_rate_check > RateWindow
CountNow == IF NewWindow THEN 0 ELSE packet_count

\* The first test of every datagram.
RateLimited ==
    /\ CountNow > RateLimit
    /\ UNCHANGED udpVars

\* A datagram that passes it is counted.
Admit ==
    /\ CountNow <= RateLimit
    /\ packet_count' = CountNow + 1
    /\ last_rate_check' = IF NewWindow THEN now ELSE last_rate_check

Expired == now - last_activity > SessionLife

\* Then a session that has been idle is replaced.
SessionNow == IF Expired THEN drawn + 1 ELSE current_session_id
LastCounterNow == IF Expired THEN 0 ELSE last_app_rx_counter
ActivityNow == IF Expired THEN now ELSE last_activity

\* The history of that.
Replace ==
    /\ drawn' = IF Expired THEN drawn + 1 ELSE drawn
    /\ over' = IF Expired THEN over \union {current_session_id} ELSE over

\* PING is answered with the session id.
Ping ==
    /\ Admit
    /\ current_session_id' = SessionNow
    /\ last_app_rx_counter' = LastCounterNow
    /\ last_activity' = now
    /\ Replace
    /\ UNCHANGED <<now, esp32_tx_counter, relay, executed, stale>>

\* Fault: a repeated counter passes.
FreshRepeats(session, counter) ==
    /\ session = SessionNow
    /\ counter >= LastCounterNow \/ LastCounterNow = 0

\* Fault: the session is replaced after the datagram has been compared with it.
FreshBeforeExpiry(session, counter) ==
    /\ session = current_session_id
    /\ counter > last_app_rx_counter \/ last_app_rx_counter = 0

Fresh(session, counter) ==
    /\ session = SessionNow
    /\ counter > LastCounterNow \/ LastCounterNow = 0

\* Another length, session or counter, or an authentication tag that is wrong.
Ignore ==
    /\ Admit
    /\ current_session_id' = SessionNow
    /\ last_app_rx_counter' = LastCounterNow
    /\ last_activity' = ActivityNow
    /\ Replace
    /\ UNCHANGED <<now, esp32_tx_counter, relay, executed, stale>>

\* relay_service_handle, for the opcodes that reach it.
relay_service_handle(op) ==
    relay' = (op = "CMD_ON" \/ (relay /\ op # "CMD_OFF"))

\* An authentic datagram.  The reply is encrypted under the next counter, which
\* is used up only when encryption succeeds.
Execute(session, counter, op, encrypted) ==
    /\ Admit
    /\ Fresh(session, counter)
    /\ current_session_id' = SessionNow
    /\ last_app_rx_counter' = counter
    /\ last_activity' = now
    /\ relay_service_handle(op)
    /\ esp32_tx_counter' = esp32_tx_counter + (IF op # "other" /\ encrypted THEN 1 ELSE 0)
    /\ executed' = [executed EXCEPT ![session][counter] = @ + 1]
    /\ Replace
    /\ stale' = (stale \/ session \in over')
    /\ UNCHANGED now

\* The app has used only sessions it was told of.
UdpNext ==
    \/ Tick \/ UdpRestart \/ RateLimited \/ Ping \/ Ignore
    \/ \E session \in 0 .. drawn, counter \in Counters,
          op \in Opcodes, encrypted \in BOOLEAN :
         Execute(session, counter, op, encrypted)

UdpSpec == UdpInit /\ [][UdpNext]_udpVars

-----------------------------------------------------------------------------
(* Properties.                                                             *)

\* A datagram the network repeats or delays is executed once: no session and
\* counter twice, whatever restarts come between.  The exceptions are counter 0,
\* which does not advance the last counter, and session 0, which every boot begins
\* anew (legacy_udp.c:32-34): there it is once in each boot.
ExecutedOnce ==
    \A s \in Sessions, c \in Counters \ {0} : executed[s][c] <= 1

\* A datagram of a session that has been idle for longer than its life, or that a
\* restart has ended, is not executed, even if it is the very datagram that ends
\* the idle time.  Only session 0 comes back, at a restart.
NoneExecutedStale == ~ stale
=============================================================================
