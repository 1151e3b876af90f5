SPECIFICATION FairControlSpec
CONSTANTS
  s1 = s1
  r1 = r1
  r2 = r2
  q1 = q1
  q2 = q2
  o1 = o1
  noCommand = noCommand
  noRun = noRun
  Sessions <- OneSession
  RunIds <- TwoRuns
  Commands <- NoCommands
  NoCommand = noCommand
  NoRun = noRun
  EngineActivity <- Running
  EngineOutcomes <- Completed
  RequestSlots <- OneRequest
  ObserverSlots <- OneObserver
  Environment <- ReadFailures
  MaxGeneration = 2
  MaxFeed = 4
  MaxRequests = 1
  MaxRestarts = 1
  MaxStops = 1
  RouteRuns <- TwoRuns
INVARIANTS
  ControlTypeOK
  OutcomeHasEvidence
PROPERTIES
  AcceptedRunsSettle
