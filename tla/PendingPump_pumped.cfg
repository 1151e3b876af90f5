SPECIFICATION PumpSpec
CONSTANTS
  s1 = s1
  r1 = r1
  r2 = r2
  r3 = r3
  q1 = q1
  q2 = q2
  o1 = o1
  a1 = a1
  a2 = a2
  pump = pump
  noCommand = noCommand
  noRun = noRun
  Sessions <- OneSession
  RunIds <- ThreeRuns
  RouteRuns <- OneRun
  PumpRuns <- RunsTwoThree
  Commands <- NoCommands
  NoCommand = noCommand
  NoRun = noRun
  PumpSlot = pump
  EngineActivity <- Running
  EngineOutcomes <- Completed
  RequestSlots <- OneRequest
  ObserverSlots <- OneObserver
  Environment <- Nothing
  OpIds <- OneOperation
  RemoteModes <- Enqueue
  Policies <- EnqueueOnly
  MaxGeneration = 3
  MaxFeed = 7
  MaxRequests = 1
  MaxRestarts = 0
  MaxStops = 0
  MaxLive = 3
  MaxGate = 4
INVARIANTS
  OutcomeHasEvidence
  OneLivePrompt
  AdmittedRunHasEvidence
