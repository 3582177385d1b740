----------------------------- MODULE ReplayOps -----------------------------
(***************************************************************************)
(* The verdict replay protection owes an id, given the set of ids accepted *)
(* since the last reset.  ReplaySpec is the state machine built on it, and *)
(* the two windows in the repository are proved to implement that machine; *)
(* the protocol modules therefore keep a replay window as its set of       *)
(* accepted ids and decide with Fresh.                                     *)
(***************************************************************************)
EXTENDS Integers

CONSTANT WindowSize  \* YKP_REPLAY_WINDOW_SIZE / WINDOW_SIZE (64 in the code)

ASSUME WindowSizeAssumption == WindowSize \in Nat \ {0}

\* The id has not been seen and is inside the window below the newest id.
Fresh(accepted, id) ==
    /\ id # 0
    /\ id \notin accepted
    /\ \A a \in accepted : a - id < WindowSize
=============================================================================
