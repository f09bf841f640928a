SPECIFICATION FairSpec
CONSTANTS
  Dispatcher = {d1, d2}
  Last = 4
  PageSize = 3
  FirstCap = 2
  Bounds <- Waves
  Free = Free Orphan = Orphan
INVARIANTS CapRespected WavesInOrder SentReachesAll
PROPERTIES CancelStands DispatchEnds
CHECK_DEADLOCK FALSE
