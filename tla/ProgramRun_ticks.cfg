SPECIFICATION FairSpec
CONSTANTS
  r1 = r1 r2 = r2 w1 = w1 w2 = w2
  Recipient = {r1, r2}
  Ticker = {w1, w2}
  Process <- OwnProcess
  Programs <- SmallPrograms
  Cases <- TickCases
  LeaseSpan = 0
  Recheck = 2
  MaxDecision = 4
  Nobody = Nobody
INVARIANTS TypeOK OneInFlight AttemptsMatchMail SpacedByGap
PROPERTIES WakeNotSleptThrough RunSettles
CHECK_DEADLOCK FALSE
