-------------------------- MODULE MCSessionControl --------------------------
(***************************************************************************)
(* TLC instances of SessionControl: one session (nothing in the routes or  *)
(* the observer relates two sessions), few runs and handlers.              *)
(***************************************************************************)
EXTENDS SessionControl, TLC

CONSTANTS s1, r1, r2, q1, q2, o1, noCommand, noRun

OneSession   == {s1}
OneRun       == {r1}
TwoRuns      == {r1, r2}
NoCommands   == {}
Completed    == {"completed"}
CompletedOrAborted == {"completed", "aborted"}
Running      == {"running"}
NoSlot       == {}
OneRequest   == {q1}
TwoRequests  == {q1, q2}
OneObserver  == {o1}
Symmetric    == Permutations(TwoRuns) \cup Permutations(TwoRequests)

(* What each instance lets the clients and the engine do. *)
Nothing          == {}
Admissions       == {"refusal", "proxied", "engine_loss"}
Refusals         == {"refusal"}
LossesHintsReports == {"lost_response", "client_hint", "client_report"}
ReadFailures     == {"read_failure"}
=============================================================================
