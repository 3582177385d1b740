-------------------------- MODULE ReplayAgreement --------------------------
(***************************************************************************)
(* The device's window (ReplayWindow) and the server's guard (ReplayGuard) *)
(* side by side on one stream of ids and resets.  A 64-bit word that drops *)
(* bits and an all-zero test for the first packet on one side, a BigInt    *)
(* that keeps every bit and a flag on the other: the two have to agree,    *)
(* because a packet one end retries is judged by the other's window.       *)
(***************************************************************************)
EXTENDS ReplayWindow

VARIABLES highestId, windowBits, initialised,  \* the guard's private fields
          guardAccepted, guardVerdict          \* its history and last answer

Guard == INSTANCE ReplayGuard WITH accepted <- guardAccepted, verdict <- guardVerdict

pairVars == <<vars, Guard!vars>>

PairInit == Init /\ Guard!Init

Check(id) == ykp_replay_check(id) /\ Guard!check(id)

NewSession == ykp_replay_reset /\ Guard!reset

PairNext == (\E id \in Ids : Check(id)) \/ NewSession

PairSpec == PairInit /\ [][PairNext]_pairVars

-----------------------------------------------------------------------------
(* Properties.                                                             *)

\* The server's BigInt mask, whose old bits are never dropped, is exact inside
\* the window and never names an id that was not accepted.
GuardExact == Guard!GuardExact

\* ykp_replay_check and ReplayGuard.check give the same answer to every id of
\* every stream, although they keep their windows differently.
SameVerdict == verdict = guardVerdict
=============================================================================
