SPECIFICATION Spec
CONSTANTS
  r1 = r1 r2 = r2 w1 = w1 w2 = w2
  Recipient = {r1, r2}
  Ticker = {w1, w2}
  Process <- OwnProcess
  Programs <- SmallPrograms
  Cases <- OpsCases
  LeaseSpan = 0
  Recheck = 2
  MaxDecision = 4
  Nobody = Nobody
PROPERTIES AbortIsFinal
CHECK_DEADLOCK FALSE
