-------------------------- MODULE MCSessionMutation --------------------------
(***************************************************************************)
(* TLC instances of SessionMutation.                                       *)
(***************************************************************************)
EXTENDS SessionMutation, TLC

CONSTANTS s1, s2, r1, r2, c1, noCommand

OneSession  == {s1}
TwoSessions == {s1, s2}
TwoRuns     == {r1, r2}
OneCommand  == {c1}
Running     == {"running"}

=============================================================================
