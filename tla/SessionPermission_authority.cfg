SPECIFICATION PermissionSpec
CONSTANTS
  p1 = p1
  p2 = p2
  x1 = x1
  c1 = c1
  b = b
  Broker = b
  Requests <- TwoPermissions
  Questions <- NoRequest
  Clients <- OneClient
  Resolvers <- ClientAndBroker
  Environment <- FailuresAndWithdrawal
  Slow <- NoRequest
  MaxPending = 1
  MaxRevision = 2
  MaxMishaps = 1
SYMMETRY Symmetric
INVARIANTS
  AnswerStands
  ManualStaysManual
  GrantFollowsApproval
PROPERTIES
  NeverAnsweredBlindly
CHECK_DEADLOCK FALSE
