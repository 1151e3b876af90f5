-------------------------- MODULE MCMediaGeneration --------------------------
(***************************************************************************)
(* A TLC instance of MediaGeneration: one job, as two only meet at the     *)
(* limit of concurrent jobs, and two passes of the worker over it.         *)
(***************************************************************************)
EXTENDS MediaGeneration, TLC

CONSTANTS v1, c1, p1, p2

OneJob        == {v1}
OneCaller     == {c1}
TwoPasses     == {p1, p2}
NothingOrBoth == {{}, {"lookup", "cancel"}}
=============================================================================
