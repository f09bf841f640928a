SPECIFICATION Spec
CONSTANTS
  s1 = s1 s2 = s2 a1 = a1
  Send = {s1, s2}
  Worker = {w1, w2}
  Address = {a1}
  Marketing = {s1, s2}
  Policed = {s1, s2}
  Broadcast = {s1}
  Retries = 2
  BareRetries = 1
  AddressOf <- OneAddress
  Bounds <- DeliveryBounds
  NoJob = NoJob Free = Free Orphan = Orphan
INVARIANTS AtMostOnce GapRespected QueuedHasJob DoomedNeverSent
PROPERTIES FinalStays ImplementsSendOnce
SYMMETRY WorkerSymmetry
CHECK_DEADLOCK FALSE
