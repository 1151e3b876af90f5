------------------------- MODULE MCPendingOperations -------------------------
(***************************************************************************)
(* TLC instances of PendingOperations.                                     *)
(***************************************************************************)
EXTENDS PendingOperations, TLC

CONSTANTS s1, r1, a1, a2, a3, null

OneSession      == {s1}
ThreeOperations == {a1, a2, a3}
Admissions      == {r1, a1, a2, a3}
Symmetric       == Permutations(OpIds)
=============================================================================
