SPECIFICATION FairSpec
CONSTANTS
  s1 = s1 s2 = s2 a1 = a1
  Send = {s1, s2}
  Worker = {w1, w2}
  Address = {a1}
  Marketing = {s1, s2}
  Policed = {s1, s2}
  Broadcast = {}
  Retries = 1
  BareRetries = 1
  AddressOf <- OneAddress
  Bounds <- SettleBounds
  NoJob = NoJob Free = Free Orphan = Orphan
INVARIANTS DoomedNeverSent
PROPERTIES EverySendSettles
CHECK_DEADLOCK FALSE
