-------------------------- MODULE PresenceEngine --------------------------
(***************************************************************************)
(* Who is online: render-backend presence/presence-engine.ts with the      *)
(* calls ykp-router.ts makes to it and setDeviceOnline of db/supabase.ts,  *)
(* for one device and its sockets; it may connect again before the server  *)
(* has seen the previous socket close.                                     *)
(*                                                                         *)
(* Every setDeviceOnline is an HTTP request: the database applies requests *)
(* that are under way in any order, and the code after an await runs some  *)
(* time after its own request was applied.  Two requests of the same       *)
(* origin that are under way together are kept as one.                     *)
(***************************************************************************)
EXTENDS Integers, FiniteSets

CONSTANTS MaxSockets,  \* bound: sockets of the device
          MaxMarks     \* bound: calls of markOnline (handshakes completed)

ASSUME PresenceAssumption ==
    /\ MaxSockets \in Nat
    /\ MaxMarks \in Nat

VARIABLES
    sock,        \* each socket: not used yet, open (its HELLO named the device), closed
    present,     \* history: sockets that have completed a handshake since the last
                 \* close event of any socket of the device
    marks,       \* calls of markOnline so far; numbers them and their timers
    heartbeats,  \* the device's entry in PresenceEngine.heartbeats, 0 if none
    timers,      \* intervals that are running
    requests,    \* setDeviceOnline calls that have not returned
    is_online    \* devices.is_online in the database

vars == <<sock, present, marks, heartbeats, timers, requests, is_online>>

Sockets == 1 .. MaxSockets
Timers == 1 .. MaxMarks

\* A request by the n-th markOnline, the n-th interval or socket n's markOffline.
Request(origin, n) ==
    [origin |-> origin, n |-> n, online |-> origin # "markOffline", applied |-> FALSE]

TypeOK ==
    /\ sock \in [Sockets -> {"new", "open", "closed"}]
    /\ present \subseteq Sockets
    /\ marks \in 0 .. MaxMarks
    /\ heartbeats \in {0} \union Timers
    /\ timers \subseteq Timers
    /\ requests \subseteq
         [origin : {"markOnline", "markOffline", "interval"},
          n : Sockets \union Timers, online : BOOLEAN, applied : BOOLEAN]
    /\ is_online \in BOOLEAN

Init ==
    /\ sock = [s \in Sockets |-> "new"]
    /\ present = {}
    /\ marks = 0
    /\ heartbeats = 0
    /\ timers = {}
    /\ requests = {}
    /\ is_online = FALSE

-----------------------------------------------------------------------------

\* A HELLO on a new socket.
Open(s) ==
    /\ sock[s] = "new"
    /\ \A p \in 1 .. s - 1 : sock[p] # "new"
    /\ sock' = [sock EXCEPT ![s] = "open"]
    /\ UNCHANGED <<present, marks, heartbeats, timers, requests, is_online>>

\* The ECDH_RESPONSE handler calls markOnline, again on every key rotation.
markOnline(s) ==
    /\ sock[s] = "open"
    /\ marks < MaxMarks
    /\ marks' = marks + 1
    /\ present' = present \union {s}
    /\ requests' = requests \union {Request("markOnline", marks + 1)}
    /\ UNCHANGED <<sock, heartbeats, timers, is_online>>

\* Fault: clearInterval is applied to the interval just started.
ResumeMarkOnlineClears(r) ==
    /\ r.origin = "markOnline" /\ r.applied
    /\ requests' = requests \ {r}
    /\ heartbeats' = r.n
    /\ timers' = timers \ {r.n}
    /\ UNCHANGED <<sock, present, marks, is_online>>

\* markOnline after its await: start an interval and enter it in the map.  That
\* the socket is still open, or the map already has an interval, is not checked.
ResumeMarkOnline(r) ==
    /\ r.origin = "markOnline" /\ r.applied
    /\ requests' = requests \ {r}
    /\ heartbeats' = r.n
    /\ timers' = timers \union {r.n}
    /\ UNCHANGED <<sock, present, marks, is_online>>

\* The close event: markOffline stops the interval in the map, if there is one,
\* whichever socket it was started for.
markOffline(s) ==
    /\ sock[s] = "open"
    /\ sock' = [sock EXCEPT ![s] = "closed"]
    /\ present' = {}
    /\ timers' = timers \ {heartbeats}
    /\ heartbeats' = 0
    /\ requests' = requests \union {Request("markOffline", s)}
    /\ UNCHANGED <<marks, is_online>>

\* Fault: the interval refreshes last_seen alone.
HeartbeatLastSeenOnly(t) ==
    /\ t \in timers
    /\ UNCHANGED vars

\* The 60-second interval fires.
Heartbeat(t) ==
    /\ t \in timers
    /\ requests' = requests \union {Request("interval", t)}
    /\ UNCHANGED <<sock, present, marks, heartbeats, timers, is_online>>

\* The database applies a request.
setDeviceOnline(r) ==
    /\ ~ r.applied
    /\ is_online' = r.online
    /\ requests' = (requests \ {r}) \union {[r EXCEPT !.applied = TRUE]}
    /\ UNCHANGED <<sock, present, marks, heartbeats, timers>>

\* The other callers have nothing left to do that lasts.
Return(r) ==
    /\ r.origin # "markOnline" /\ r.applied
    /\ requests' = requests \ {r}
    /\ UNCHANGED <<sock, present, marks, heartbeats, timers, is_online>>

Next ==
    \/ \E s \in Sockets : Open(s) \/ markOnline(s) \/ markOffline(s)
    \/ \E r \in requests : setDeviceOnline(r) \/ ResumeMarkOnline(r) \/ Return(r)
    \/ \E t \in Timers : Heartbeat(t)

\* Every request is applied and answered, and a running interval keeps firing.
Fairness ==
    /\ \A origin \in {"markOnline", "markOffline", "interval"}, n \in Sockets \union Timers :
         /\ WF_vars(\E r \in requests :
                      r.origin = origin /\ r.n = n /\ setDeviceOnline(r))
         /\ WF_vars(\E r \in requests :
                      r.origin = origin /\ r.n = n /\ (ResumeMarkOnline(r) \/ Return(r)))
    /\ \A t \in Timers : WF_vars(Heartbeat(t))

Spec == Init /\ [][Next]_vars /\ Fairness

-----------------------------------------------------------------------------
(* Properties.                                                             *)

\* The device is connected, and no socket of it has been seen to close since the
\* open one's handshake.
Connected == \E s \in present : sock[s] = "open"

\* Once its requests are answered, an authenticated connection has a heartbeat
\* that runs and that its own close will stop.  The close event of another
\* socket that comes after the handshake takes it away, for the map is keyed by
\* the device: such a connection has none until its next handshake.
ConnectedHasHeartbeat ==
    Connected /\ requests = {} => heartbeats \in timers

\* A device that stays connected, with no older socket left to close, ends up
\* online for good, although the offline write of a previous connection may be
\* applied after the online write of this one: the heartbeat repairs what the
\* reordering broke.
ConnectedEndsOnline == <>[]Connected => <>[]is_online
=============================================================================
