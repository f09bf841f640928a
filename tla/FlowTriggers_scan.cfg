SPECIFICATION FairSpec
CONSTANTS
  c1 = c1
  Last = 3
  Contact = {c1}
  Scanner = {t1, t2}
  Once = TRUE
  Batch = 2
  Overlap = 2
  MaxTime = 2
  ContactOf <- OneContact
  Bounds <- FaultOrOp
  NoEvent = NoEvent
INVARIANTS NoEventLost OnceEntersOnce
PROPERTIES SparseEventsSettle
CHECK_DEADLOCK FALSE
