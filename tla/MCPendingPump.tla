--------------------------- MODULE MCPendingPump ---------------------------
(***************************************************************************)
(* TLC instances of PendingPump: one session, few runs and operations.     *)
(***************************************************************************)
EXTENDS PendingPump, MCSessionControl

CONSTANTS r3, a1, a2, pump

ThreeRuns     == {r1, r2, r3}
RunsTwoThree  == {r2, r3}
OneOperation  == {a1}
TwoOperations == {a1, a2}
RunTwo        == {r2}
Enqueue       == {"enqueue"}
BothModes     == {"steer", "enqueue"}
EnqueueOnly   == {{"enqueue"}}
BothPolicy    == {{"steer", "enqueue"}}
BothOrEnqueue == BothPolicy \cup EnqueueOnly
Losses        == {"lost_response", "unrecorded"}
=============================================================================
