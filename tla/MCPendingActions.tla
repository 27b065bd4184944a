-------------------------- MODULE MCPendingActions --------------------------
(* Small instances of PendingActions for TLC.                              *)
EXTENDS PendingActions, TLC

CONSTANTS a1, a2, r1, r2, r3, owner, other

\* Every action belongs to the one user; the other user only tries.
MCOwner == [a \in Actions |-> owner]

RequestSymmetry == Permutations(Requests)
=============================================================================
