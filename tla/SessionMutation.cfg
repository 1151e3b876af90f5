SPECIFICATION Spec
CONSTANTS
  s1 = s1
  s2 = s2
  r1 = r1
  r2 = r2
  c1 = c1
  noCommand = noCommand
  Sessions <- TwoSessions
  RunIds <- TwoRuns
  Commands <- OneCommand
  NoCommand = noCommand
  EngineActivity <- Running
  MaxGeneration = 2
  MaxFeed = 3
  MaxRequests = 2
INVARIANTS
  TypeOK
  JournalMirrorsMemory
  OutcomesAgree
  FeedOrdered
PROPERTIES
  ImplementsLifecycle
