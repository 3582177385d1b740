----------------------------- MODULE ReplayIds -----------------------------
(***************************************************************************)
(* The packet ids the replay windows judge.  Ids are uint32_t; MaxId bounds*)
(* them for TLC and is left open in the proofs.                            *)
(***************************************************************************)
EXTENDS ReplayOps

CONSTANT MaxId  \* largest packet id (2^32 - 1 in the code)

ASSUME MaxIdAssumption == MaxId \in Nat

Ids == 0 .. MaxId
=============================================================================
