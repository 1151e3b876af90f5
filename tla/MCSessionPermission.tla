------------------------- MODULE MCSessionPermission -------------------------
(***************************************************************************)
(* Instances of SessionPermission: two requests, one client and the        *)
(* broker, which is enough for two answers to one request to race, for a   *)
(* grant of one request to cover the other, and for the coordinator to be  *)
(* at its limit.                                                           *)
(***************************************************************************)
EXTENDS SessionPermission, TLC

CONSTANTS p1, p2, x1, c1, b

TwoPermissions  == {p1, p2}
PermissionAndQuestion == {p1, x1}
OneQuestion     == {x1}
NoRequest       == {}
OneClient       == {c1}
ClientAndBroker == {c1, b}
Symmetric       == Permutations(TwoPermissions)
Failures        == {"lost_reply", "read_failure", "unrecorded"}
FailuresAndWithdrawal == Failures \cup {"withdrawal"}
=============================================================================
