SPECIFICATION FairPermissionSpec
CONSTANTS
  p1 = p1
  p2 = p2
  x1 = x1
  c1 = c1
  b = b
  Broker = b
  Requests <- PermissionAndQuestion
  Questions <- OneQuestion
  Clients <- OneClient
  Resolvers <- ClientAndBroker
  Environment <- Failures
  Slow <- PermissionAndQuestion
  MaxPending = 1
  MaxRevision = 1
  MaxMishaps = 1
INVARIANTS
  PermissionTypeOK
  OneDispatch
  AnswerStands
PROPERTIES
  NeverAnsweredBlindly
  NotLockedOut
CHECK_DEADLOCK FALSE
