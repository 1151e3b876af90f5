SPECIFICATION FairMediaSpec
CONSTANTS
  v1 = v1
  c1 = c1
  p1 = p1
  p2 = p2
  NoJob = noJob
  Jobs <- OneJob
  Callers <- OneCaller
  Passes <- TwoPasses
  Offers <- NothingOrBoth
  MaxActive = 1
  MaxMissing = 2
  MaxPollFailures = 2
  MaxCrashes = 1
  MaxCancels = 1
INVARIANTS
  MediaTypeOK
  OneSubmission
  OutcomeIsEarned
PROPERTIES
  EndedForGood
  JobsSettle
CHECK_DEADLOCK FALSE
