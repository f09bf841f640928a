SPECIFICATION FairSpec
CONSTANTS
  w1 = w1 w2 = w2
  Worker = {w1, w2}
  WebhookAttempts = 2
  Flows <- Examples
  Cases <- RunCases
  NoRun = NoRun
INVARIANTS NoRowSkipped
PROPERTIES AdvancesOnce WaitHonoured EndedStays RunEnds
CHECK_DEADLOCK FALSE
